-------------------------- MODULE CommandChannelProofs --------------------------
(***************************************************************************)
(* Proofs about CommandChannel for any number of calls, commands, copies   *)
(* and failures.  What the device promises rests on its memory being large *)
(* enough for the commands there are.                                      *)
(***************************************************************************)
EXTENDS CommandChannel, FiniteSetTheorems, TLAPS

Places == {"new", "authorizing", "dispatching", "awaiting", "finishing",
           "answered", "failed", "refused", "lost"}
Concluded == {"succeeded", "failed", "rejected"}
Reported == {"accepted", "executing"} \cup Concluded
Statuses == Status \cup {Absent}
Messages == [c : Commands, status : Reported]
Entries == [c : Commands, status : Concluded]
Early == {"accepted", "executing", "execute"}
Works == [at : Early, c : Commands]
Answers == [at : {"answer"}, c : Commands, status : Concluded]

TypeOK ==
    /\ pc \in [Requests -> Places]
    /\ cid \in [Requests -> Commands]
    /\ copies \in [Requests -> Nat]
    /\ mem \in [Commands -> Statuses]
    /\ chain \in Seq(Requests \cup {Nobody})
    /\ phase \in {"idle", "serialised"}
    /\ tmp \in [Commands -> Statuses]
    /\ broken \in BOOLEAN
    /\ disk \in [Commands -> Statuses]
    /\ clock \in [Commands -> {"live", "grace", "late"}]
    /\ requests \in [Commands -> Nat]
    /\ results \in Seq(Messages)
    /\ dev \in {Idle} \cup Works \cup Answers
    /\ kept \in Seq(Entries)
    /\ executed \in [Commands -> Nat]
    /\ crashes \in Nat
    /\ restarts \in Nat
    /\ overtaken \in SUBSET Commands

(* The command the device is executing or answering. *)
On(c) == dev.at # "idle" /\ dev.c = c
Busy(c) == dev.at \in Early /\ dev.c = c

Touched(c) ==
    \/ requests[c] > 0 \/ executed[c] > 0 \/ IsKept(c) \/ On(c)
    \/ \E i \in 1..Len(results) : results[i].c = c

(* A command the device may know of is in the file; what is in the file is *)
(* in memory and in every later file; a link writes what its waiters put.  *)
FileKnows ==
    /\ \A c \in Commands :
          /\ Touched(c) => disk[c] # Absent
          /\ disk[c] # Absent => mem[c] # Absent
          /\ phase = "serialised" => (disk[c] # Absent => tmp[c] # Absent) /\ (tmp[c] # Absent => mem[c] # Absent)
    /\ \A r \in Requests :
          /\ pc[r] \in Active => mem[cid[r]] # Absent
          /\ pc[r] \in {"dispatching", "awaiting", "finishing", "answered"} => disk[cid[r]] # Absent
    /\ \A i \in 1..Len(chain) : chain[i] \in Requests => mem[cid[chain[i]]] # Absent
    /\ phase = "serialised" =>
          /\ chain # <<>>
          /\ Head(chain) \in Requests => tmp[cid[Head(chain)]] # Absent

(* The device remembers a result per command and what it executed. *)
KeptOnce == \A i, h \in 1..Len(kept) : kept[i].c = kept[h].c => i = h

Executions ==
    /\ KeptOnce
    /\ \A c \in Commands : Busy(c) => ~IsKept(c)
    /\ \A c \in Commands : On(c) => Busy(c) \/ IsKept(c)
    /\ restarts = 0 =>
          \A c \in Commands :
              /\ executed[c] <= 1
              /\ executed[c] > 0 => IsKept(c)

(* How far the device may have reported a command: nothing before it is    *)
(* received, the final status once it is remembered.                       *)
Published(c) ==
    IF IsKept(c) THEN 5
    ELSE IF ~Busy(c) \/ dev.at = "accepted" THEN 2
    ELSE IF dev.at = "executing" THEN 3
    ELSE 4

(* A status is behind what was reported unless it is final. *)
Behind(status, rank) == status \in Final \/ Rank[status] <= rank

(* Reports are under way in the order of their ranks, no further than what *)
(* the device has published and not behind what the server has taken.      *)
InOrder(c) ==
    /\ Behind(mem[c], Published(c)) /\ Behind(tmp[c], Published(c)) /\ Behind(disk[c], Published(c))
    /\ \A i \in 1..Len(results) : results[i].c = c =>
          /\ Rank[results[i].status] <= Published(c)
          /\ Behind(mem[c], Rank[results[i].status])
          /\ Behind(tmp[c], Rank[results[i].status])
          /\ Behind(disk[c], Rank[results[i].status])
    /\ \A i, h \in 1..Len(results) : results[i].c = c /\ results[h].c = c /\ i <= h =>
          Rank[results[i].status] <= Rank[results[h].status]

(* Before the PUBACK the command is authorized and the device has it not,  *)
(* unless it was overtaken.                                                *)
Unsettled(r) == pc[r] \in {"authorizing", "dispatching", "awaiting"}

Fresh(c) == mem[c] = "authorized" /\ ~Busy(c) /\ ~IsKept(c)

Ordered ==
    /\ \A r, q \in Requests : Unsettled(r) /\ Unsettled(q) /\ cid[r] = cid[q] => r = q
    /\ \A r \in Requests : Unsettled(r) /\ cid[r] \notin overtaken =>
          clock[cid[r]] = "live" /\ (restarts = 0 => Fresh(cid[r]))
    /\ restarts = 0 => \A c \in Commands \ overtaken : InOrder(c)

(* The server's part holds in any case, the device's part if the memory    *)
(* has room for a result of every command.                                 *)
StoreInv == TypeOK /\ FileKnows
DeviceInv == Executions /\ Ordered

MemorySuffices == IsFiniteSet(Commands) /\ Cardinality(Commands) <= Remembered

-------------------------------------------------------------------------------
(* The order of the statuses. *)
LEMMA RankFacts ==
  /\ \A s \in Statuses : Rank[s] \in 0..5 /\ (s \in Final <=> Rank[s] = 5)
  /\ Rank[Absent] = 0 /\ Rank["authorized"] = 1 /\ Rank["dispatched"] = 2
  /\ Rank["accepted"] = 3 /\ Rank["executing"] = 4
  /\ \A s \in Reported : s \in Statuses /\ Rank[s] \in 3..5
  /\ \A s \in Concluded : s \in Reported /\ s \in Final /\ Rank[s] = 5
  BY DEF Rank, Statuses, Status, Final, Absent, Reported, Concluded

(* What the device holds. *)
LEMMA DevFacts ==
  ASSUME TypeOK
  PROVE  /\ dev.at \in {"idle", "answer"} \cup Early
         /\ dev.at = "idle" <=> dev = Idle
         /\ dev.at # "idle" => dev.c \in Commands
         /\ dev.at = "answer" => dev.status \in Concluded
         /\ dev.at \in Early => dev \in Works
  BY DEF TypeOK, Idle, Works, Answers, Early

(* CommandStore.put *)
LEMMA PutFacts ==
  ASSUME TypeOK, NEW c \in Commands, NEW status \in Statuses, NEW waiter \in Requests \cup {Nobody},
         Put(c, status, waiter)
  PROVE  /\ mem' \in [Commands -> Statuses] /\ mem'[c] = status
         /\ \A x \in Commands : x # c => mem'[x] = mem[x]
         /\ chain' \in Seq(Requests \cup {Nobody})
         /\ \A i \in 1..Len(chain') : (i \in 1..Len(chain) /\ chain'[i] = chain[i]) \/ chain'[i] = waiter
         /\ chain # <<>> => chain' # <<>> /\ Head(chain') = Head(chain)
         /\ UNCHANGED <<phase, tmp, broken, disk>>
  <1>1. /\ mem' \in [Commands -> Statuses] /\ mem'[c] = status
        /\ \A x \in Commands : x # c => mem'[x] = mem[x]
        /\ UNCHANGED <<phase, tmp, broken, disk>>
    BY DEF TypeOK, Put
  <1>2. CASE chain' = chain
    BY <1>1, <1>2 DEF TypeOK
  <1>3. CASE chain' = Append(chain, waiter)
    <2>1. /\ chain' \in Seq(Requests \cup {Nobody}) /\ Len(chain') = Len(chain) + 1
          /\ chain'[Len(chain) + 1] = waiter /\ \A i \in 1..Len(chain) : chain'[i] = chain[i]
      BY <1>3 DEF TypeOK
    <2>2. chain \in Seq(Requests \cup {Nobody}) /\ Len(chain) \in Nat
      BY DEF TypeOK
    <2>3. chain # <<>> => chain' # <<>> /\ Head(chain') = Head(chain)
      BY <2>1, <2>2
    <2> QED
      BY <1>1, <2>1, <2>2, <2>3
  <1> QED
    BY <1>2, <1>3 DEF Put

(* The device publishes copies of a result. *)
LEMMA PublishFacts ==
  ASSUME TypeOK, NEW c \in Commands, NEW status \in Reported, NEW n \in Nat, Publish(c, status, n)
  PROVE  /\ results' \in Seq(Messages) /\ Len(results') = Len(results) + n
         /\ \A i \in 1..Len(results) : results'[i] = results[i]
         /\ \A i \in 1..Len(results') : i > Len(results) => results'[i].c = c /\ results'[i].status = status
  <1> DEFINE copy == [i \in 1..n |-> [c |-> c, status |-> status]]
  <1>1. copy \in Seq(Messages) /\ Len(copy) = n /\ \A i \in 1..n : copy[i].c = c /\ copy[i].status = status
    BY DEF Messages
  <1>2. results' = results \o copy
    BY DEF Publish
  <1> HIDE DEF copy
  <1>3. results' \in Seq(Messages) /\ Len(results') = Len(results) + n
    <2>1. results \in Seq(Messages)
      BY DEF TypeOK
    <2>2. results \o copy \in Seq(Messages) /\ Len(results \o copy) = Len(results) + Len(copy)
      BY <1>1, <2>1
    <2> QED
      BY <1>1, <1>2, <2>2
  <1>4. \A i \in 1..Len(results) : results'[i] = results[i]
    <2>1. results \in Seq(Messages) /\ Len(results) \in Nat
      BY DEF TypeOK
    <2>2. ASSUME NEW i \in 1..Len(results)
          PROVE  (results \o copy)[i] = results[i]
      BY <1>1, <2>1
    <2> QED
      BY <1>2, <2>2
  <1>5. ASSUME NEW i \in 1..Len(results'), i > Len(results)
        PROVE  results'[i] = copy[i - Len(results)] /\ i - Len(results) \in 1..n
    <2>1. results \in Seq(Messages) /\ Len(results) \in Nat /\ i \in 1..(Len(results) + n)
      BY <1>3 DEF TypeOK
    <2>2. i - Len(results) \in 1..n
      BY <1>5, <2>1
    <2>3. (results \o copy)[i] = copy[i - Len(results)]
      BY <1>1, <1>5, <2>1
    <2> QED
      BY <1>2, <2>2, <2>3
  <1> QED
    BY <1>1, <1>3, <1>4, <1>5

(* rememberResult: the result is kept, and with memory enough nothing is   *)
(* forgotten.                                                              *)
LEMMA MemoryHasRoom ==
  ASSUME TypeOK, KeptOnce, MemorySuffices, NEW c \in Commands, ~IsKept(c)
  PROVE  Len(kept) # Remembered
  <1> SUFFICES ASSUME Len(kept) = Remembered PROVE FALSE
    OBVIOUS
  <1> DEFINE others == Commands \ {c}
             owner == [i \in 1..Len(kept) |-> kept[i].c]
  <1>1. IsFiniteSet(others) /\ Cardinality(others) = Cardinality(Commands) - 1 /\ Cardinality(Commands) \in Nat
    BY FS_RemoveElement, FS_CardinalityType DEF MemorySuffices
  <1>2. IsFiniteSet(1..Len(kept)) /\ Cardinality(1..Len(kept)) = Len(kept) /\ Len(kept) \in Nat
    BY FS_Interval, CommandAssumption DEF TypeOK
  <1>3. owner \in [1..Len(kept) -> others]
    <2>1. \A i \in 1..Len(kept) : kept[i] \in Entries
      BY DEF TypeOK
    <2> QED
      BY <2>1 DEF IsKept, Entries
  <1>4. Cardinality(others) < Cardinality(1..Len(kept))
    BY <1>1, <1>2 DEF MemorySuffices
  <1>5. \E i, h \in 1..Len(kept) : i # h /\ owner[i] = owner[h]
    <2> HIDE DEF others, owner
    <2> QED
      BY <1>1, <1>2, <1>3, <1>4, FS_PigeonHole
  <1> QED
    BY <1>5 DEF KeptOnce

LEMMA KeepFacts ==
  ASSUME TypeOK, NEW c \in Commands, NEW status \in Concluded, Keep(c, status)
  PROVE  /\ kept' \in Seq(Entries)
         /\ IsKept(c)'
         /\ \A x \in Commands : IsKept(x)' => IsKept(x) \/ x = c
         /\ KeptOnce => KeptOnce'
         /\ KeptOnce /\ MemorySuffices => \A x \in Commands : IsKept(x) => IsKept(x)'
  <1> DEFINE m == [c |-> c, status |-> status]
  <1>1. m \in Entries /\ m.c = c
    BY DEF Entries
  <1>2. kept \in Seq(Entries) /\ Len(kept) \in Nat /\ \A i \in 1..Len(kept) : kept[i] \in Entries
    BY DEF TypeOK
  <1> HIDE DEF m
  <1>3. CASE IsKept(c)
    <2>1. kept' = [i \in 1..Len(kept) |-> IF kept[i].c = c THEN m ELSE kept[i]]
      BY <1>3 DEF Keep, m
    <2>2. kept' \in Seq(Entries) /\ Len(kept') = Len(kept) /\ \A i \in 1..Len(kept) : kept'[i].c = kept[i].c
      BY <1>1, <1>2, <2>1
    <2> QED
      BY <1>3, <2>2 DEF IsKept, KeptOnce
  <1>4. CASE ~IsKept(c) /\ Len(kept) # Remembered
    <2>1. kept' = Append(kept, m)
      BY <1>4 DEF Keep, m
    <2>2. /\ kept' \in Seq(Entries) /\ Len(kept') = Len(kept) + 1 /\ kept'[Len(kept) + 1].c = c
          /\ \A i \in 1..Len(kept) : kept'[i] = kept[i]
      BY <1>1, <1>2, <2>1
    <2>3. 1..Len(kept') = 1..Len(kept) \cup {Len(kept) + 1} /\ Len(kept) + 1 \notin 1..Len(kept)
      BY <1>2, <2>2
    <2>4. IsKept(c)' /\ \A x \in Commands : IsKept(x) => IsKept(x)'
      BY <2>2, <2>3 DEF IsKept
    <2>5. \A x \in Commands : IsKept(x)' => IsKept(x) \/ x = c
      BY <2>2, <2>3 DEF IsKept
    <2>6. KeptOnce => KeptOnce'
      BY <1>4, <2>2, <2>3 DEF IsKept, KeptOnce
    <2> QED
      BY <2>2, <2>4, <2>5, <2>6
  <1>5. CASE ~IsKept(c) /\ Len(kept) = Remembered
    <2>1. kept' = Append(Tail(kept), m)
      BY <1>5 DEF Keep, m
    <2>2. /\ kept' \in Seq(Entries) /\ Len(kept') = Len(kept) /\ kept'[Len(kept)].c = c
          /\ \A i \in 1..(Len(kept) - 1) : kept'[i] = kept[i + 1]
      BY <1>1, <1>2, <1>5, <2>1, CommandAssumption
    <2>3. KeptOnce => KeptOnce'
      <3> SUFFICES ASSUME KeptOnce, NEW i \in 1..Len(kept'), NEW h \in 1..Len(kept'), kept'[i].c = kept'[h].c
                   PROVE  i = h
        BY DEF KeptOnce
      <3>1. \A g \in 1..Len(kept) : kept[g].c # c
        BY <1>2, <1>5 DEF IsKept
      <3>2. \A g \in 1..(Len(kept) - 1) : g + 1 \in 1..Len(kept) /\ kept'[g] = kept[g + 1]
        BY <1>2, <2>2
      <3>3. \A g \in 1..(Len(kept) - 1) : kept'[g].c # c
        BY <3>1, <3>2
      <3>4. /\ i \in 1..(Len(kept) - 1) \/ i = Len(kept)
            /\ h \in 1..(Len(kept) - 1) \/ h = Len(kept)
        BY <1>2, <2>2
      <3>5. CASE i \in 1..(Len(kept) - 1) /\ h \in 1..(Len(kept) - 1)
        <4>1. i + 1 = h + 1
          BY <3>2, <3>5 DEF KeptOnce
        <4> QED
          BY <4>1
      <3> QED
        BY <2>2, <3>3, <3>4, <3>5
    <2>4. IsKept(c)' /\ \A x \in Commands : IsKept(x)' => IsKept(x) \/ x = c
      BY <1>2, <1>5, <2>2, CommandAssumption DEF IsKept
    <2> QED
      BY <1>5, <2>2, <2>3, <2>4, MemoryHasRoom
  <1> QED
    BY <1>3, <1>4, <1>5

-------------------------------------------------------------------------------
(* The server keeps the file ahead of the device. *)

LEMMA CreateRefusedStore ==
  ASSUME StoreInv, NEW r \in Requests, CreateRefused(r)
  PROVE  StoreInv'
  <1> USE CommandAssumption DEF StoreInv
  <1>1. TypeOK'
    BY DEF CreateRefused, TypeOK, store, device, world, Places
  <1>2. \A c \in Commands : Touched(c)' => Touched(c)
    BY DEF CreateRefused, Touched, IsKept, On, store, device, world, Places
  <1>3. FileKnows'
    BY <1>2 DEF CreateRefused, FileKnows, store, device, world, Active, Waiting, TypeOK
  <1> QED
    BY <1>1, <1>2, <1>3

LEMMA DispatchStore ==
  ASSUME StoreInv, NEW r \in Requests, Dispatch(r)
  PROVE  StoreInv'
  <1> USE DEF StoreInv
  <1>1. TypeOK'
    BY DEF Dispatch, TypeOK, Places, store, device, world
  <1>2. /\ requests' = [requests EXCEPT ![cid[r]] = requests[cid[r]] + 1] /\ pc' = [pc EXCEPT ![r] = "awaiting"]
           /\ pc[r] = "dispatching"
        /\ UNCHANGED <<cid, mem, chain, phase, tmp, broken, disk, results, dev, kept, executed>>
    BY DEF Dispatch, store, device
  <1>3. \A c \in Commands : Touched(c)' => Touched(c) \/ c = cid[r]
    BY <1>2 DEF Touched, IsKept, On, TypeOK
  <1>4. FileKnows'
    BY <1>2, <1>3 DEF FileKnows, Active, Waiting, TypeOK
  <1> QED
    BY <1>1, <1>4

LEMMA ResendStore ==
  ASSUME StoreInv, NEW r \in Requests, Resend(r)
  PROVE  StoreInv'
  <1> USE CommandAssumption DEF StoreInv
  <1>1. TypeOK'
    <2>1. UNCHANGED <<pc, cid, store, clock, results, device, world>>
      BY DEF Resend
    <2>2. copies' \in [Requests -> Nat] /\ requests' \in [Commands -> Nat]
      BY DEF Resend, TypeOK
    <2> QED
      BY <2>1, <2>2 DEF TypeOK, store, device, world
  <1>2. \A c \in Commands : Touched(c)' => Touched(c) \/ c = cid[r]
    BY DEF Resend, Touched, IsKept, On, TypeOK, store, device, world
  <1>3. FileKnows'
    BY <1>2 DEF Resend, FileKnows, store, device, world, Active, Waiting, TypeOK
  <1> QED
    BY <1>1, <1>2, <1>3

LEMMA DispatchFailsStore ==
  ASSUME StoreInv, NEW r \in Requests, DispatchFails(r)
  PROVE  StoreInv'
  <1> USE CommandAssumption DEF StoreInv
  <1>1. TypeOK'
    BY DEF DispatchFails, TypeOK, store, device, world, Places
  <1>2. \A c \in Commands : Touched(c)' => Touched(c)
    BY DEF DispatchFails, Touched, IsKept, On, store, device, world, Places
  <1>3. FileKnows'
    BY <1>2 DEF DispatchFails, FileKnows, store, device, world, Active, Waiting, TypeOK
  <1> QED
    BY <1>1, <1>2, <1>3

LEMMA CreateStore ==
  ASSUME StoreInv, NEW r \in Requests, Create(r)
  PROVE  StoreInv'
  <1> USE CommandAssumption DEF StoreInv
  <1>1. /\ mem' \in [Commands -> Statuses] /\ mem'[cid[r]] = "authorized"
        /\ \A x \in Commands : x # cid[r] => mem'[x] = mem[x]
        /\ chain' \in Seq(Requests \cup {Nobody})
        /\ \A i \in 1..Len(chain') : (i \in 1..Len(chain) /\ chain'[i] = chain[i]) \/ chain'[i] = r
        /\ chain # <<>> => chain' # <<>> /\ Head(chain') = Head(chain)
        /\ UNCHANGED <<phase, tmp, broken, disk>>
    <2>1. cid[r] \in Commands /\ "authorized" \in Statuses
      BY DEF Create, TypeOK, Statuses, Status, Final
    <2> QED
      BY <2>1, PutFacts DEF Create
  <1>2. /\ pc'[r] \in {"failed", "authorizing"} /\ cid' = cid /\ pc[r] \in {"new", "awaiting"}
        /\ \A q \in Requests : q # r => pc'[q] = pc[q]
        /\ cid \in [Requests -> Commands] /\ \A i \in 1..Len(chain) : chain[i] \in Requests \cup {Nobody}
    BY DEF Create, Await, TypeOK
  <1>3. TypeOK'
    BY <1>1 DEF Create, TypeOK, store, device, world, Await, Places
  <1>4. \A c \in Commands : Touched(c)' => Touched(c)
    BY DEF Create, Touched, IsKept, On, store, device, world, Await, Places
  <1>5. FileKnows'
    BY <1>4, <1>1, <1>2 DEF Create, FileKnows, store, device, world, Active, Waiting, Absent
  <1> QED
    BY <1>3, <1>4, <1>5

LEMMA AckedStore ==
  ASSUME StoreInv, NEW r \in Requests, Acked(r)
  PROVE  StoreInv'
  <1> USE CommandAssumption DEF StoreInv
  <1>1. /\ mem' \in [Commands -> Statuses] /\ mem'[cid[r]] = "dispatched"
        /\ \A x \in Commands : x # cid[r] => mem'[x] = mem[x]
        /\ chain' \in Seq(Requests \cup {Nobody})
        /\ \A i \in 1..Len(chain') : (i \in 1..Len(chain) /\ chain'[i] = chain[i]) \/ chain'[i] = r
        /\ chain # <<>> => chain' # <<>> /\ Head(chain') = Head(chain)
        /\ UNCHANGED <<phase, tmp, broken, disk>>
    <2>1. cid[r] \in Commands /\ "dispatched" \in Statuses
      BY DEF Acked, TypeOK, Statuses, Status, Final
    <2> QED
      BY <2>1, PutFacts DEF Acked
  <1>2. /\ pc'[r] \in {"failed", "finishing"} /\ cid' = cid /\ pc[r] \in {"new", "awaiting"}
        /\ \A q \in Requests : q # r => pc'[q] = pc[q]
        /\ cid \in [Requests -> Commands] /\ \A i \in 1..Len(chain) : chain[i] \in Requests \cup {Nobody}
    BY DEF Acked, Await, TypeOK
  <1>3. TypeOK'
    BY <1>1 DEF Acked, TypeOK, store, device, world, Await, Places
  <1>4. \A c \in Commands : Touched(c)' => Touched(c)
    BY DEF Acked, Touched, IsKept, On, store, device, world, Await, Places
  <1>5. FileKnows'
    BY <1>4, <1>1, <1>2 DEF Acked, FileKnows, store, device, world, Active, Waiting, Absent
  <1> QED
    BY <1>3, <1>4, <1>5

LEMMA GetStore ==
  ASSUME StoreInv, NEW c \in Commands, Get(c)
  PROVE  StoreInv'
  <1> USE CommandAssumption DEF StoreInv
  <1>1. /\ mem' \in [Commands -> Statuses] /\ mem'[c] = "expired"
        /\ \A x \in Commands : x # c => mem'[x] = mem[x]
        /\ chain' \in Seq(Requests \cup {Nobody})
        /\ \A i \in 1..Len(chain') : (i \in 1..Len(chain) /\ chain'[i] = chain[i]) \/ chain'[i] = Nobody
        /\ chain # <<>> => chain' # <<>> /\ Head(chain') = Head(chain)
        /\ UNCHANGED <<phase, tmp, broken, disk>>
    <2>1. c \in Commands /\ "expired" \in Statuses
      BY DEF Get, TypeOK, Statuses, Status, Final
    <2> QED
      BY <2>1, PutFacts DEF Get
  <1>2. TypeOK'
    BY <1>1 DEF Get, TypeOK, store, device, world
  <1>3. \A x \in Commands : Touched(x)' => Touched(x)
    BY DEF Get, Touched, IsKept, On, store, device, world
  <1>4. FileKnows'
    BY <1>3, <1>1 DEF Get, FileKnows, store, device, world, Active, Waiting, TypeOK, Absent
  <1> QED
    BY <1>2, <1>3, <1>4

LEMMA HeadFacts ==
  ASSUME TypeOK, results # <<>>
  PROVE  /\ Head(results) = results[1] /\ Head(results) \in Messages
         /\ Tail(results) \in Seq(Messages) /\ Len(Tail(results)) = Len(results) - 1 /\ Len(results) \in Nat
         /\ \A i \in 1..(Len(results) - 1) : Tail(results)[i] = results[i + 1]
  <1>1. results \in Seq(Messages) /\ Len(results) \in Nat /\ Len(results) > 0
    BY DEF TypeOK
  <1> QED
    BY <1>1

LEMMA AcceptResultStore ==
  ASSUME StoreInv, AcceptResult
  PROVE  StoreInv'
  <1> USE CommandAssumption DEF StoreInv
  <1> DEFINE m == Head(results)
  <1>1. m.c \in Commands /\ m.status \in Statuses \ {Absent}
    BY HeadFacts DEF AcceptResult, Messages, Reported, Concluded, Statuses, Status, Final, Absent
  <1>2. results' \in Seq(Messages) /\ \A i \in 1..Len(results') : results'[i] = results[i + 1] /\ i + 1 \in 1..Len(results)
    BY HeadFacts DEF AcceptResult
  <1>3. \A c \in Commands : Touched(c)' => Touched(c)
    BY <1>2 DEF AcceptResult, Touched, IsKept, On, device, world
  <1>4. CASE UNCHANGED store
    <2>1. TypeOK'
      BY <1>2, <1>4 DEF AcceptResult, TypeOK, store, device, world
    <2>2. FileKnows'
      BY <1>3, <1>4 DEF AcceptResult, FileKnows, store
    <2> QED
      BY <2>1, <2>2
  <1>5. CASE Put(m.c, m.status, Nobody)
    <2>1. /\ mem' \in [Commands -> Statuses] /\ mem'[m.c] # Absent
          /\ \A x \in Commands : x # m.c => mem'[x] = mem[x]
          /\ chain' \in Seq(Requests \cup {Nobody})
          /\ \A i \in 1..Len(chain') : (i \in 1..Len(chain) /\ chain'[i] = chain[i]) \/ chain'[i] = Nobody
          /\ chain # <<>> => chain' # <<>> /\ Head(chain') = Head(chain)
          /\ UNCHANGED <<phase, tmp, broken, disk>>
      <3> HIDE DEF m
      <3> QED
        BY <1>1, <1>5, PutFacts
    <2>2. TypeOK'
      BY <1>2, <2>1 DEF AcceptResult, TypeOK, device, world
    <2>3. FileKnows'
      <3> HIDE DEF m
      <3> QED
        BY <1>3, <2>1 DEF AcceptResult, FileKnows, TypeOK
    <2> QED
      BY <2>2, <2>3
  <1> QED
    BY <1>4, <1>5 DEF AcceptResult

LEMMA ResultLostStore ==
  ASSUME StoreInv, ResultLost
  PROVE  StoreInv'
  <1> USE CommandAssumption DEF StoreInv
  <1>1. TypeOK'
    BY HeadFacts DEF ResultLost, TypeOK, store, device, world
  <1>2. \A c \in Commands : Touched(c)' => Touched(c)
    BY HeadFacts DEF ResultLost, Touched, IsKept, On, store, device, world
  <1>3. FileKnows'
    BY <1>2 DEF ResultLost, FileKnows, store, device, world, Active, Waiting
  <1> QED
    BY <1>1, <1>2, <1>3

LEMMA TickStore ==
  ASSUME StoreInv, NEW c \in Commands, Tick(c)
  PROVE  StoreInv'
  <1> USE CommandAssumption DEF StoreInv
  <1>1. TypeOK'
    BY DEF Tick, TypeOK, store, device, world, Overtake
  <1>2. \A x \in Commands : Touched(x)' => Touched(x)
    BY DEF Tick, Touched, IsKept, On, store, device, world, Overtake
  <1>3. FileKnows'
    BY <1>2 DEF Tick, FileKnows, store, device, world, Active, Waiting
  <1> QED
    BY <1>1, <1>2, <1>3

LEMMA SerialiseStore ==
  ASSUME StoreInv, Serialise
  PROVE  StoreInv'
  <1> USE CommandAssumption DEF StoreInv
  <1>1. TypeOK'
    BY DEF Serialise, TypeOK, store, device, world
  <1>2. \A c \in Commands : Touched(c)' => Touched(c)
    BY DEF Serialise, Touched, IsKept, On, store, device, world
  <1>3. FileKnows'
    BY <1>2 DEF Serialise, FileKnows, store, device, world, Active, Waiting, TypeOK
  <1> QED
    BY <1>1, <1>2, <1>3

LEMMA RenameStore ==
  ASSUME StoreInv, Rename
  PROVE  StoreInv'
  <1> USE CommandAssumption DEF StoreInv
  <1>1. /\ chain \in Seq(Requests \cup {Nobody}) /\ chain # <<>> /\ Head(chain) \in Requests \cup {Nobody}
        /\ chain' \in Seq(Requests \cup {Nobody})
        /\ \A i \in 1..Len(chain') : i + 1 \in 1..Len(chain) /\ chain'[i] = chain[i + 1]
    <2>1. chain \in Seq(Requests \cup {Nobody}) /\ chain # <<>> /\ chain' = Tail(chain)
      BY DEF Rename, TypeOK, FileKnows
    <2> QED
      BY <2>1
  <1>2. \A r \in Requests : /\ r # Head(chain) => pc'[r] = pc[r]
                            /\ r = Head(chain) => pc'[r] = (IF pc[r] = "authorizing" THEN "dispatching" ELSE "answered")
    BY DEF Rename
  <1>3. pc' \in [Requests -> Places]
    BY DEF Rename, TypeOK, Places
  <1>4. TypeOK'
    BY <1>1, <1>3 DEF Rename, TypeOK, device, world, NoRecords, Statuses
  <1>5. \A c \in Commands : Touched(c)' => Touched(c)
    BY DEF Rename, Touched, IsKept, On, device, world
  <1>6. disk' = tmp /\ mem' = mem /\ cid' = cid /\ phase' = "idle" /\ phase = "serialised"
        /\ cid \in [Requests -> Commands]
    BY DEF Rename, TypeOK
  <1>7. FileKnows'
    <2>1. ASSUME NEW c \in Commands
          PROVE  (Touched(c)' => disk'[c] # Absent) /\ (disk'[c] # Absent => mem'[c] # Absent)
      BY <1>5, <1>6 DEF FileKnows
    <2>2. ASSUME NEW r \in Requests
          PROVE  /\ pc'[r] \in Active => mem'[cid'[r]] # Absent
                 /\ pc'[r] \in {"dispatching", "awaiting", "finishing", "answered"} => disk'[cid'[r]] # Absent
      BY <1>2, <1>6 DEF FileKnows, Active, Waiting
    <2>3. \A i \in 1..Len(chain') : chain'[i] \in Requests => mem'[cid'[chain'[i]]] # Absent
      BY <1>1, <1>6 DEF FileKnows
    <2> QED
      BY <1>6, <2>1, <2>2, <2>3 DEF FileKnows
  <1> QED
    BY <1>4, <1>7

LEMMA WriteFailsStore ==
  ASSUME StoreInv, WriteFails
  PROVE  StoreInv'
  <1> USE CommandAssumption DEF StoreInv
  <1>1. TypeOK'
    BY DEF WriteFails, TypeOK, store, device, world, Places, NoRecords, Statuses
  <1>2. \A c \in Commands : Touched(c)' => Touched(c)
    BY DEF WriteFails, Touched, IsKept, On, store, device, world, Places, NoRecords, Statuses
  <1>3. FileKnows'
    BY <1>2 DEF WriteFails, FileKnows, store, device, world, Active, Waiting, TypeOK
  <1> QED
    BY <1>1, <1>2, <1>3

LEMMA CrashStore ==
  ASSUME StoreInv, Crash
  PROVE  StoreInv'
  <1> USE DEF StoreInv
  <1>1. /\ crashes' = crashes + 1 /\ mem' = disk /\ chain' = <<>> /\ phase' = "idle" /\ tmp' = NoRecords
           /\ broken' = FALSE
        /\ copies' = [r \in Requests |-> 0]
        /\ UNCHANGED <<cid, disk, clock, requests, results, dev, kept, executed, restarts, overtaken>>
    BY DEF Crash, device
  <1>2. pc' \in [Requests -> Places] /\ \A r \in Requests : pc'[r] \notin Active /\ (pc'[r] = pc[r] \/ pc'[r] = "lost")
    BY DEF Crash, TypeOK, Places, Active, Waiting
  <1>3. TypeOK'
    <2>1. chain' \in Seq(Requests \cup {Nobody}) /\ tmp' \in [Commands -> Statuses] /\ copies' \in [Requests -> Nat]
      BY <1>1 DEF NoRecords, Statuses
    <2>2. crashes' \in Nat
      BY <1>1 DEF TypeOK
    <2> QED
      BY <1>1, <1>2, <2>1, <2>2 DEF TypeOK
  <1>4. \A c \in Commands : Touched(c)' => Touched(c)
    BY <1>1 DEF Touched, IsKept, On
  <1>5. FileKnows'
    BY <1>1, <1>2, <1>4 DEF FileKnows
  <1> QED
    BY <1>3, <1>5

(* Steps of the device keep the server's part when they touch no new command. *)
LEMMA DeviceStepStore ==
  ASSUME StoreInv, TypeOK', UNCHANGED <<pc, cid, mem, chain, phase, tmp, disk>>,
         \A c \in Commands : Touched(c)' => Touched(c)
  PROVE  StoreInv'
  BY DEF StoreInv, FileKnows

LEMMA ReceiveStore ==
  ASSUME StoreInv, NEW c \in Commands, Receive(c)
  PROVE  StoreInv'
  <1> USE DEF StoreInv
  <1>1. /\ requests' \in [Commands -> Nat] /\ requests[c] > 0 /\ \A x \in Commands : requests'[x] > 0 => requests[x] > 0 \/ x = c
        /\ overtaken' \in SUBSET Commands
        /\ UNCHANGED <<pc, cid, copies, mem, chain, phase, tmp, broken, disk, clock, executed, restarts, crashes>>
    BY DEF Receive, Overtake, store, TypeOK
  <1>2. /\ dev' \in {Idle} \cup Works \cup Answers /\ (dev'.at # "idle" => dev'.c = c)
        /\ kept' \in Seq(Entries) /\ \A x \in Commands : IsKept(x)' => IsKept(x) \/ x = c
        /\ results' \in Seq(Messages) /\ \A x \in Commands : (\E i \in 1..Len(results') : results'[i].c = x) =>
                                             x = c \/ \E i \in 1..Len(results) : results[i].c = x
    <2>1. CASE (\E i \in 1..Len(kept) : kept[i].c = c /\ Publish(c, kept[i].status, 1)) /\ UNCHANGED <<dev, kept>>
      <3>1. PICK i \in 1..Len(kept) : Publish(c, kept[i].status, 1)
        BY <2>1
      <3>2. kept[i].status \in Reported
        <4>1. kept[i] \in Entries
          BY DEF TypeOK
        <4> QED
          BY <4>1 DEF Entries, Reported
      <3>3. dev = Idle
        BY DEF Receive
      <3>4. /\ results' \in Seq(Messages) /\ Len(results') = Len(results) + 1
            /\ \A h \in 1..Len(results) : results'[h] = results[h]
            /\ \A h \in 1..Len(results') : h > Len(results) => results'[h].c = c
        BY <3>1, <3>2, PublishFacts
      <3>5. \A h \in 1..Len(results') : results'[h].c = c \/ (h \in 1..Len(results) /\ results'[h] = results[h])
        BY <3>4 DEF TypeOK
      <3> QED
        BY <2>1, <3>3, <3>4, <3>5 DEF TypeOK, IsKept, Idle
    <2>2. CASE UNCHANGED <<dev, kept, results>>
      BY <2>2 DEF TypeOK, IsKept, Receive, Idle
    <2>3. CASE dev' = [at |-> "accepted", c |-> c] /\ UNCHANGED <<kept, results>>
      BY <2>3 DEF TypeOK, IsKept, Works, Early
    <2>4. CASE Keep(c, "rejected") /\ dev' = [at |-> "answer", c |-> c, status |-> "rejected"] /\ UNCHANGED results
      <3>1. dev' \in Answers
        BY <2>4 DEF Answers, Concluded
      <3>2. kept' \in Seq(Entries) /\ \A x \in Commands : IsKept(x)' => IsKept(x) \/ x = c
        BY <2>4, KeepFacts DEF Concluded
      <3> QED
        BY <2>4, <3>1, <3>2 DEF TypeOK
    <2> QED
      BY <2>1, <2>2, <2>3, <2>4 DEF Receive
  <1>3. TypeOK'
    BY <1>1, <1>2 DEF TypeOK
  <1>4. \A x \in Commands : Touched(x)' => Touched(x)
    BY <1>1, <1>2 DEF Touched, On
  <1> QED
    BY <1>1, <1>3, <1>4, DeviceStepStore

(* The device reports or answers the command it is on. *)
LEMMA ReportedStore ==
  ASSUME StoreInv, NEW status \in Reported, NEW n \in Nat, Publish(dev.c, status, n), dev.at # "idle",
         dev' \in {Idle} \cup Works \cup Answers, dev'.at # "idle" => dev'.c = dev.c,
         UNCHANGED <<pc, cid, copies, store, clock, requests, kept, executed, restarts, world>>
  PROVE  StoreInv'
  <1> USE DEF StoreInv
  <1>1. dev.c \in Commands
    BY DevFacts
  <1>2. /\ results' \in Seq(Messages)
        /\ \A x \in Commands : (\E i \in 1..Len(results') : results'[i].c = x) =>
                                   x = dev.c \/ \E i \in 1..Len(results) : results[i].c = x
    BY <1>1, PublishFacts
  <1>3. TypeOK'
    BY <1>2 DEF TypeOK, store, world
  <1>4. \A x \in Commands : Touched(x)' => Touched(x)
    BY <1>2 DEF Touched, On, IsKept
  <1> QED
    BY <1>3, <1>4, DeviceStepStore DEF store

LEMMA ReportStore ==
  ASSUME StoreInv, Report
  PROVE  StoreInv'
  <1>1. PICK n \in 1..MaxCopies : Publish(dev.c, dev.at, n)
    BY DEF Report
  <1>2. n \in Nat /\ dev.at \in Reported /\ dev.at # "idle"
    BY CommandAssumption DEF Report, Reported
  <1>3. dev' \in Works /\ dev'.c = dev.c
    BY DevFacts DEF StoreInv, Report, Works, Early
  <1> QED
    BY <1>1, <1>2, <1>3, ReportedStore DEF Report

LEMMA AnswerStore ==
  ASSUME StoreInv, Answer
  PROVE  StoreInv'
  <1>1. PICK n \in 1..MaxCopies : Publish(dev.c, dev.status, n)
    BY DEF Answer
  <1>2. n \in Nat /\ dev.status \in Reported /\ dev.at # "idle"
    BY CommandAssumption, DevFacts DEF StoreInv, Answer, Reported
  <1> QED
    BY <1>1, <1>2, ReportedStore DEF Answer, Idle

(* The device concludes a command. *)
LEMMA ConcludedStore ==
  ASSUME StoreInv, NEW status \in Concluded, Conclude(status), dev.at # "idle",
         executed' \in [Commands -> Nat], \A c \in Commands : c # dev.c => executed'[c] = executed[c],
         UNCHANGED <<pc, cid, copies, store, clock, requests, results, restarts, world>>
  PROVE  StoreInv'
  <1> USE DEF StoreInv
  <1>1. dev.c \in Commands
    BY DevFacts
  <1>2. dev' \in Answers /\ dev'.c = dev.c
    BY <1>1 DEF Conclude, Answers
  <1>3. kept' \in Seq(Entries) /\ \A x \in Commands : IsKept(x)' => IsKept(x) \/ x = dev.c
    BY <1>1, KeepFacts DEF Conclude
  <1>4. TypeOK'
    BY <1>2, <1>3 DEF TypeOK, store, world
  <1>5. \A x \in Commands : Touched(x)' => Touched(x)
    BY <1>2, <1>3 DEF Touched, On
  <1> QED
    BY <1>4, <1>5, DeviceStepStore DEF store

LEMMA ExecuteStore ==
  ASSUME StoreInv, NEW status \in Concluded, Execute(status)
  PROVE  StoreInv'
  <1>1. dev.c \in Commands /\ dev.at # "idle"
    BY DevFacts DEF StoreInv, Execute
  <1>2. executed' \in [Commands -> Nat] /\ \A c \in Commands : c # dev.c => executed'[c] = executed[c]
    BY <1>1 DEF StoreInv, TypeOK, Execute
  <1> QED
    BY <1>1, <1>2, ConcludedStore DEF Execute

LEMMA RefusedOrFailedStore ==
  ASSUME StoreInv, ExecutionRefused \/ Fail
  PROVE  StoreInv'
  <1>1. PICK status \in Concluded : Conclude(status)
    BY DEF ExecutionRefused, Fail, Concluded
  <1>2. dev.at # "idle" /\ executed' = executed
    BY DEF ExecutionRefused, Fail
  <1> QED
    BY <1>1, <1>2, ConcludedStore DEF StoreInv, TypeOK, ExecutionRefused, Fail

LEMMA ForgetStore ==
  ASSUME StoreInv, AnswerFails \/ Restart
  PROVE  StoreInv'
  <1>1. TypeOK'
    <2>1. /\ dev' = Idle /\ (kept' = kept \/ kept' = <<>>) /\ (restarts' = restarts \/ restarts' = restarts + 1)
          /\ UNCHANGED <<pc, cid, copies, store, clock, requests, results, executed, world>>
      BY DEF AnswerFails, Restart
    <2>2. kept' \in Seq(Entries)
      <3>1. CASE kept' = kept
        BY <3>1 DEF StoreInv, TypeOK
      <3>2. CASE kept' = <<>>
        BY <3>2
      <3> QED
        BY <2>1, <3>1, <3>2
    <2>3. kept' \in Seq(Entries) /\ restarts' \in Nat
      BY <2>1, <2>2 DEF StoreInv, TypeOK
    <2> QED
      BY <2>1, <2>3 DEF StoreInv, TypeOK, store, world
  <1>2. \A c \in Commands : Touched(c)' => Touched(c)
    BY DEF AnswerFails, Restart, Touched, IsKept, On, Idle
  <1> QED
    BY <1>1, <1>2, DeviceStepStore DEF AnswerFails, Restart, store

-------------------------------------------------------------------------------
(* All steps together. *)
LEMMA InitStore == Init => StoreInv
  <1> SUFFICES ASSUME Init PROVE StoreInv
    OBVIOUS
  <1>1. TypeOK
    <2>1. NoRecords \in [Commands -> Statuses] /\ <<>> \in Seq(Messages) /\ <<>> \in Seq(Entries)
          /\ <<>> \in Seq(Requests \cup {Nobody})
      BY DEF NoRecords, Statuses
    <2>2. pc \in [Requests -> Places] /\ copies \in [Requests -> Nat]
          /\ clock \in [Commands -> {"live", "grace", "late"}]
      BY DEF Init, Places
    <2>3. requests \in [Commands -> Nat] /\ executed \in [Commands -> Nat]
      BY DEF Init
    <2> QED
      BY <2>1, <2>2, <2>3 DEF Init, TypeOK
  <1>2. FileKnows
    BY DEF Init, FileKnows, Touched, IsKept, On, Idle, NoRecords, Active, Waiting
  <1> QED
    BY <1>1, <1>2 DEF StoreInv

LEMMA StepStore == StoreInv /\ [Next]_vars => StoreInv'
  <1> SUFFICES ASSUME StoreInv, [Next]_vars PROVE StoreInv'
    OBVIOUS
  <1>1. ASSUME UNCHANGED vars
        PROVE  StoreInv'
    BY <1>1 DEF vars, store, device, world, StoreInv, TypeOK, FileKnows, Touched, IsKept, On
  <1>2. ASSUME NEW r \in Requests,
               Create(r) \/ CreateRefused(r) \/ Dispatch(r) \/ Resend(r) \/ DispatchFails(r) \/ Acked(r)
        PROVE  StoreInv'
    BY <1>2, CreateStore, CreateRefusedStore, DispatchStore, ResendStore, DispatchFailsStore, AckedStore
  <1>3. ASSUME Serialise \/ Rename \/ WriteFails \/ Crash \/ AcceptResult \/ ResultLost
        PROVE  StoreInv'
    BY <1>3, SerialiseStore, RenameStore, WriteFailsStore, CrashStore, AcceptResultStore, ResultLostStore
  <1>4. ASSUME NEW c \in Commands, Get(c) \/ Tick(c) \/ Receive(c)
        PROVE  StoreInv'
    BY <1>4, GetStore, TickStore, ReceiveStore
  <1>5. ASSUME Execute("succeeded") \/ TransitionFails
        PROVE  StoreInv'
    BY <1>5, ExecuteStore DEF TransitionFails, Concluded
  <1>6. ASSUME ExecutionRefused \/ Fail \/ Report \/ Answer \/ AnswerFails \/ Restart
        PROVE  StoreInv'
    BY <1>6, RefusedOrFailedStore, ReportStore, AnswerStore, ForgetStore
  <1> QED
    BY <1>1, <1>2, <1>3, <1>4, <1>5, <1>6 DEF Next

(* The server's part of the invariant, whatever the device does. *)
THEOREM StoreInvariance == Spec => []StoreInv
  BY InitStore, StepStore, PTL DEF Spec

(* CommandService.create publishes only what CommandStore has written: no  *)
(* crash or failed write leaves a command the device may know of, or a     *)
(* client was answered, out of the store file.                             *)
THEOREM FileBeforeDevice == Spec => []PersistedBeforeDispatched
  <1>1. StoreInv => PersistedBeforeDispatched
    BY DEF StoreInv, FileKnows, Touched, PersistedBeforeDispatched
  <1> QED
    BY <1>1, StoreInvariance, PTL

-------------------------------------------------------------------------------
(* The device executes once and reports in order. *)
LEMMA StatusTypes ==
  ASSUME TypeOK
  PROVE  /\ \A c \in Commands : mem[c] \in Statuses /\ tmp[c] \in Statuses /\ disk[c] \in Statuses
         /\ Len(results) \in Nat
         /\ \A i \in 1..Len(results) : results[i].c \in Commands /\ results[i].status \in Reported
  <1>1. results \in Seq(Messages) /\ Len(results) \in Nat /\ \A i \in 1..Len(results) : results[i] \in Messages
    BY DEF TypeOK
  <1> QED
    BY <1>1 DEF TypeOK, Messages

LEMMA PublishedRange == \A c \in Commands : Published(c) \in 2..5
  BY DEF Published

(* The server moves the statuses it has, or puts one that no report is     *)
(* behind.                                                                 *)
Moves(status, c) ==
    status \in {mem[c], tmp[c], disk[c], Absent, "authorized", "dispatched"} \cup Final

LEMMA ServerKeepsOrder ==
  ASSUME TypeOK, TypeOK', NEW c \in Commands, InOrder(c), UNCHANGED <<results, dev, kept>>,
         Moves(mem'[c], c), Moves(tmp'[c], c), Moves(disk'[c], c)
  PROVE  InOrder(c)'
  <1>1. Published(c)' = Published(c) /\ Published(c) \in 2..5
    BY PublishedRange DEF Published, IsKept, Busy
  <1>2. \A i \in 1..Len(results) : Rank[results[i].status] \in 3..5
    BY StatusTypes, RankFacts
  <1>3. ASSUME NEW status, Moves(status, c)
        PROVE  /\ Behind(status, Published(c))
               /\ \A i \in 1..Len(results) : results[i].c = c => Behind(status, Rank[results[i].status])
    BY <1>1, <1>2, <1>3, RankFacts DEF Moves, InOrder, Behind
  <1>4. /\ Behind(mem'[c], Published(c)) /\ Behind(tmp'[c], Published(c)) /\ Behind(disk'[c], Published(c))
        /\ \A i \in 1..Len(results) : results[i].c = c =>
              /\ Behind(mem'[c], Rank[results[i].status]) /\ Behind(tmp'[c], Rank[results[i].status])
              /\ Behind(disk'[c], Rank[results[i].status])
    BY <1>3
  <1> QED
    BY <1>1, <1>4 DEF InOrder, Behind

LEMMA TakingKeepsOrder ==
  ASSUME TypeOK, TypeOK', NEW c \in Commands, InOrder(c), results # <<>>, results' = Tail(results),
         UNCHANGED <<dev, kept, tmp, disk>>,
         mem'[c] = mem[c] \/ (Head(results).c = c /\ mem'[c] = Head(results).status)
  PROVE  InOrder(c)'
  <1>1. Published(c)' = Published(c) /\ Published(c) \in 2..5
    BY PublishedRange DEF Published, IsKept, Busy
  <1>2. /\ Len(results) \in Nat /\ 1 \in 1..Len(results) /\ Head(results) = results[1]
        /\ \A i \in 1..Len(results') : results'[i] = results[i + 1] /\ i + 1 \in 1..Len(results)
    BY HeadFacts
  <1>3. \A i \in 1..Len(results) : Rank[results[i].status] \in 3..5
    BY StatusTypes, RankFacts
  <1>4. /\ Behind(mem'[c], Published(c))
        /\ \A i \in 1..Len(results) : results[i].c = c => Behind(mem'[c], Rank[results[i].status])
    BY <1>2, <1>3 DEF InOrder, Behind
  <1>5. /\ Behind(mem'[c], Published(c)) /\ Behind(tmp'[c], Published(c)) /\ Behind(disk'[c], Published(c))
        /\ \A i \in 1..Len(results') : results'[i].c = c =>
              /\ Rank[results'[i].status] <= Published(c)
              /\ Behind(mem'[c], Rank[results'[i].status]) /\ Behind(tmp'[c], Rank[results'[i].status])
              /\ Behind(disk'[c], Rank[results'[i].status])
    BY <1>2, <1>4 DEF InOrder
  <1>6. \A i, h \in 1..Len(results') : results'[i].c = c /\ results'[h].c = c /\ i <= h =>
            Rank[results'[i].status] <= Rank[results'[h].status]
    BY <1>2 DEF InOrder
  <1> QED
    BY <1>1, <1>5, <1>6 DEF InOrder, Behind

(* The device publishes copies of its newest status of command d. *)
LEMMA PublishingKeepsOrder ==
  ASSUME TypeOK, TypeOK', NEW c \in Commands, InOrder(c), NEW d \in Commands, NEW status \in Reported,
         UNCHANGED <<mem, tmp, disk>>, Published(c)' >= Published(c),
         d = c => Rank[status] = Published(c)',
         Len(results') >= Len(results), \A i \in 1..Len(results) : results'[i] = results[i],
         \A i \in 1..Len(results') : i > Len(results) => results'[i].c = d /\ results'[i].status = status
  PROVE  InOrder(c)'
  <1>1. Published(c) \in 2..5 /\ Published(c)' \in 2..5
    BY PublishedRange DEF Published
  <1>2. Len(results) \in Nat /\ Len(results') \in Nat
    <2>1. results \in Seq(Messages) /\ results' \in Seq(Messages)
      BY DEF TypeOK
    <2> QED
      BY <2>1
  <1>3. \A i \in 1..Len(results') : i \in 1..Len(results) \/ i > Len(results)
    BY <1>2
  <1>4. \A i \in 1..Len(results) : Rank[results[i].status] \in 3..5
    BY StatusTypes, RankFacts
  <1>5. Rank[status] \in 3..5 /\ Rank[mem[c]] \in 0..5 /\ Rank[tmp[c]] \in 0..5 /\ Rank[disk[c]] \in 0..5
    BY StatusTypes, RankFacts
  <1>6. ASSUME NEW i \in 1..Len(results'), results'[i].c = c
        PROVE  /\ Rank[results'[i].status] <= Published(c)'
               /\ Behind(mem[c], Rank[results'[i].status]) /\ Behind(tmp[c], Rank[results'[i].status])
               /\ Behind(disk[c], Rank[results'[i].status])
    <2>1. CASE i \in 1..Len(results)
      BY <1>1, <1>4, <1>6, <2>1 DEF InOrder
    <2>2. CASE i > Len(results)
      BY <1>1, <1>5, <1>6, <2>2 DEF InOrder, Behind
    <2> QED
      BY <1>3, <2>1, <2>2
  <1>7. ASSUME NEW i \in 1..Len(results'), NEW h \in 1..Len(results'), results'[i].c = c, results'[h].c = c, i <= h
        PROVE  Rank[results'[i].status] <= Rank[results'[h].status]
    <2>1. CASE h \in 1..Len(results)
      BY <1>2, <1>3, <1>7, <2>1 DEF InOrder
    <2>2. CASE h > Len(results)
      BY <1>6, <1>7, <2>2, <1>5
    <2> QED
      BY <1>3, <2>1, <2>2
  <1>8. Behind(mem[c], Published(c)') /\ Behind(tmp[c], Published(c)') /\ Behind(disk[c], Published(c)')
    BY <1>1, <1>5 DEF InOrder, Behind
  <1> QED
    BY <1>6, <1>7, <1>8 DEF InOrder, Behind

(* The server's steps leave the device alone. *)
Settling ==
    /\ \A r, q \in Requests : Unsettled(r) /\ Unsettled(q) /\ cid[r] = cid[q] => r = q
    /\ \A r \in Requests : Unsettled(r) /\ cid[r] \notin overtaken =>
          clock[cid[r]] = "live" /\ (restarts = 0 => Fresh(cid[r]))

LEMMA ServerStepDevice ==
  ASSUME StoreInv, StoreInv', DeviceInv, UNCHANGED <<results, dev, kept, executed, restarts>>,
         overtaken \subseteq overtaken', Settling',
         \A c \in Commands : Moves(mem'[c], c) /\ Moves(tmp'[c], c) /\ Moves(disk'[c], c)
  PROVE  DeviceInv'
  <1>1. Executions'
    BY DEF DeviceInv, Executions, KeptOnce, Busy, On, IsKept
  <1>2. restarts' = 0 => \A c \in Commands \ overtaken' : InOrder(c)'
    BY ServerKeepsOrder DEF StoreInv, DeviceInv, Ordered
  <1> QED
    BY <1>1, <1>2 DEF DeviceInv, Ordered, Settling

(* A request that only goes on or ends leaves the unsettled ones in order. *)
LEMMA SettlingKept ==
  ASSUME DeviceInv, UNCHANGED <<cid, mem, dev, kept, clock, overtaken, restarts>>,
         \A q \in Requests : Unsettled(q)' => Unsettled(q)
  PROVE  Settling'
  <1>1. \A q \in Requests : Unsettled(q) /\ cid[q] \notin overtaken /\ restarts = 0 => Fresh(cid[q])'
    BY DEF DeviceInv, Ordered, Fresh, Busy, On, IsKept
  <1> QED
    BY <1>1 DEF DeviceInv, Ordered, Settling

LEMMA CreateRefusedDevice ==
  ASSUME StoreInv, StoreInv', DeviceInv, NEW r \in Requests, CreateRefused(r)
  PROVE  DeviceInv'
  <1>2. \A c \in Commands : Moves(mem'[c], c) /\ Moves(tmp'[c], c) /\ Moves(disk'[c], c)
    BY DEF CreateRefused, Moves, StoreInv, TypeOK, store
  <1>3. Settling'
    <2>1. /\ UNCHANGED <<cid, mem, dev, kept, clock, overtaken, restarts>>
          /\ \A q \in Requests : Unsettled(q)' => Unsettled(q)
      BY DEF CreateRefused, Unsettled, store, device, world, StoreInv, TypeOK
    <2> QED
      BY <2>1, SettlingKept
  <1> QED
    BY <1>2, <1>3, ServerStepDevice DEF CreateRefused, store, device, world

LEMMA DispatchDevice ==
  ASSUME StoreInv, StoreInv', DeviceInv, NEW r \in Requests, Dispatch(r)
  PROVE  DeviceInv'
  <1>2. \A c \in Commands : Moves(mem'[c], c) /\ Moves(tmp'[c], c) /\ Moves(disk'[c], c)
    BY DEF Dispatch, Moves, StoreInv, TypeOK, store
  <1>3. Settling'
    <2>1. /\ UNCHANGED <<cid, mem, dev, kept, clock, overtaken, restarts>>
          /\ \A q \in Requests : Unsettled(q)' => Unsettled(q)
      BY DEF Dispatch, Unsettled, store, device, world, StoreInv, TypeOK
    <2> QED
      BY <2>1, SettlingKept
  <1> QED
    BY <1>2, <1>3, ServerStepDevice DEF Dispatch, store, device, world

LEMMA ResendDevice ==
  ASSUME StoreInv, StoreInv', DeviceInv, NEW r \in Requests, Resend(r)
  PROVE  DeviceInv'
  <1>2. \A c \in Commands : Moves(mem'[c], c) /\ Moves(tmp'[c], c) /\ Moves(disk'[c], c)
    BY DEF Resend, Moves, StoreInv, TypeOK, store
  <1>3. Settling'
    <2>1. /\ UNCHANGED <<cid, mem, dev, kept, clock, overtaken, restarts>>
          /\ \A q \in Requests : Unsettled(q)' => Unsettled(q)
      BY DEF Resend, Unsettled, store, device, world, StoreInv, TypeOK
    <2> QED
      BY <2>1, SettlingKept
  <1> QED
    BY <1>2, <1>3, ServerStepDevice DEF Resend, store, device, world

LEMMA DispatchFailsDevice ==
  ASSUME StoreInv, StoreInv', DeviceInv, NEW r \in Requests, DispatchFails(r)
  PROVE  DeviceInv'
  <1>2. \A c \in Commands : Moves(mem'[c], c) /\ Moves(tmp'[c], c) /\ Moves(disk'[c], c)
    BY DEF DispatchFails, Moves, StoreInv, TypeOK, store
  <1>3. Settling'
    <2>1. /\ UNCHANGED <<cid, mem, dev, kept, clock, overtaken, restarts>>
          /\ \A q \in Requests : Unsettled(q)' => Unsettled(q)
      BY DEF DispatchFails, Unsettled, store, device, world, StoreInv, TypeOK
    <2> QED
      BY <2>1, SettlingKept
  <1> QED
    BY <1>2, <1>3, ServerStepDevice DEF DispatchFails, store, device, world

LEMMA CreateDevice ==
  ASSUME StoreInv, StoreInv', DeviceInv, NEW r \in Requests, Create(r)
  PROVE  DeviceInv'
  <1>2. \A c \in Commands : Moves(mem'[c], c) /\ Moves(tmp'[c], c) /\ Moves(disk'[c], c)
    BY DEF Create, Moves, StoreInv, TypeOK, store, Put
  <1>3. Settling'
    <2> DEFINE c == cid[r]
    <2>1. c \in Commands /\ mem[c] = Absent /\ ~Busy(c) /\ ~IsKept(c)
      BY DEF Create, StoreInv, TypeOK, FileKnows, Touched, On, Busy, Early
    <2>2. \A q \in Requests : Unsettled(q) => cid[q] # c
      BY <2>1 DEF StoreInv, FileKnows, Unsettled, Active, Waiting
    <2>3. /\ pc'[r] \in {"failed", "authorizing"} /\ mem'[c] = "authorized" /\ clock'[c] = "live"
          /\ \A q \in Requests : q # r => pc'[q] = pc[q]
          /\ \A x \in Commands : x # c => mem'[x] = mem[x] /\ clock'[x] = clock[x]
          /\ UNCHANGED <<cid, dev, kept, restarts, overtaken>>
      BY <2>1 DEF Create, Put, Await, StoreInv, TypeOK, device, world
    <2>4. \A q \in Requests : Unsettled(q)' => q = r \/ (Unsettled(q) /\ cid[q] # c)
      BY <2>2, <2>3 DEF Unsettled
    <2>5. cid \in [Requests -> Commands]
      BY DEF StoreInv, TypeOK
    <2>6. \A q, s \in Requests : Unsettled(q)' /\ Unsettled(s)' /\ cid[q] = cid[s] => q = s
      BY <2>4 DEF DeviceInv, Ordered
    <2>7. ASSUME NEW q \in Requests, Unsettled(q)', cid[q] \notin overtaken
          PROVE  clock'[cid[q]] = "live" /\ (restarts = 0 => Fresh(cid[q])')
      <3>1. CASE q = r
        BY <2>1, <2>3, <3>1 DEF Fresh, Busy, IsKept
      <3>2. CASE Unsettled(q) /\ cid[q] # c
        BY <2>3, <2>5, <2>7, <3>2 DEF DeviceInv, Ordered, Fresh, Busy, IsKept
      <3> QED
        BY <2>4, <2>7, <3>1, <3>2
    <2> QED
      BY <2>3, <2>6, <2>7 DEF Settling
  <1> QED
    BY <1>2, <1>3, ServerStepDevice DEF Create, store, device, world, Put

LEMMA AckedDevice ==
  ASSUME StoreInv, StoreInv', DeviceInv, NEW r \in Requests, Acked(r)
  PROVE  DeviceInv'
  <1>2. \A c \in Commands : Moves(mem'[c], c) /\ Moves(tmp'[c], c) /\ Moves(disk'[c], c)
    BY DEF Acked, Moves, StoreInv, TypeOK, store, Put
  <1>3. Settling'
    BY DEF Acked, DeviceInv, Ordered, Settling, Unsettled, Fresh, Busy, IsKept, store, device, world,
           StoreInv, TypeOK, Put, Await
  <1> QED
    BY <1>2, <1>3, ServerStepDevice DEF Acked, store, device, world, Put

LEMMA GetDevice ==
  ASSUME StoreInv, StoreInv', DeviceInv, NEW c \in Commands, Get(c)
  PROVE  DeviceInv'
  <1>2. \A x \in Commands : Moves(mem'[x], x) /\ Moves(tmp'[x], x) /\ Moves(disk'[x], x)
    BY DEF Get, Moves, StoreInv, TypeOK, store, Put, Final
  <1>3. Settling'
    BY DEF Get, DeviceInv, Ordered, Settling, Unsettled, Fresh, Busy, IsKept, store, device, world, StoreInv,
           TypeOK, Put
  <1> QED
    BY <1>2, <1>3, ServerStepDevice DEF Get, store, device, world, Put

LEMMA TickDevice ==
  ASSUME StoreInv, StoreInv', DeviceInv, NEW c \in Commands, Tick(c)
  PROVE  DeviceInv'
  <1>2. \A x \in Commands : Moves(mem'[x], x) /\ Moves(tmp'[x], x) /\ Moves(disk'[x], x)
    BY DEF Tick, Moves, StoreInv, TypeOK, store
  <1>3. Settling'
    BY DEF Tick, DeviceInv, Ordered, Settling, Unsettled, Fresh, Busy, IsKept, store, device, world,
           StoreInv, TypeOK, Overtake, Settled
  <1> QED
    BY <1>2, <1>3, ServerStepDevice DEF Tick, store, device, world, Overtake

LEMMA SerialiseDevice ==
  ASSUME StoreInv, StoreInv', DeviceInv, Serialise
  PROVE  DeviceInv'
  <1>2. \A c \in Commands : Moves(mem'[c], c) /\ Moves(tmp'[c], c) /\ Moves(disk'[c], c)
    BY DEF Serialise, Moves, StoreInv, TypeOK, store
  <1>3. Settling'
    BY DEF Serialise, DeviceInv, Ordered, Settling, Unsettled, Fresh, Busy, IsKept, store, device, world
  <1> QED
    BY <1>2, <1>3, ServerStepDevice DEF Serialise, store, device, world

LEMMA RenameDevice ==
  ASSUME StoreInv, StoreInv', DeviceInv, Rename
  PROVE  DeviceInv'
  <1>2. \A c \in Commands : Moves(mem'[c], c) /\ Moves(tmp'[c], c) /\ Moves(disk'[c], c)
    BY DEF Rename, Moves, StoreInv, TypeOK, store, NoRecords
  <1>3. Settling'
    BY DEF Rename, DeviceInv, Ordered, Settling, Unsettled, Fresh, Busy, IsKept, store, device, world,
           StoreInv, TypeOK
  <1> QED
    BY <1>2, <1>3, ServerStepDevice DEF Rename, store, device, world

LEMMA WriteFailsDevice ==
  ASSUME StoreInv, StoreInv', DeviceInv, WriteFails
  PROVE  DeviceInv'
  <1>2. \A c \in Commands : Moves(mem'[c], c) /\ Moves(tmp'[c], c) /\ Moves(disk'[c], c)
    BY DEF WriteFails, Moves, StoreInv, TypeOK, store, NoRecords
  <1>3. Settling'
    BY DEF WriteFails, DeviceInv, Ordered, Settling, Unsettled, Fresh, Busy, IsKept, store, device, world,
           StoreInv, TypeOK, Waiting
  <1> QED
    BY <1>2, <1>3, ServerStepDevice DEF WriteFails, store, device, world

LEMMA CrashDevice ==
  ASSUME StoreInv, StoreInv', DeviceInv, Crash
  PROVE  DeviceInv'
  <1>2. \A c \in Commands : Moves(mem'[c], c) /\ Moves(tmp'[c], c) /\ Moves(disk'[c], c)
    BY DEF Crash, Moves, StoreInv, TypeOK, store, NoRecords
  <1>3. Settling'
    BY DEF Crash, DeviceInv, Ordered, Settling, Unsettled, Fresh, Busy, IsKept, store, device, world,
           StoreInv, TypeOK, Active, Waiting
  <1> QED
    BY <1>2, <1>3, ServerStepDevice DEF Crash, store, device, world

LEMMA ResultsTakenDevice ==
  ASSUME StoreInv, StoreInv', DeviceInv, AcceptResult \/ ResultLost
  PROVE  DeviceInv'
  <1>1. /\ results # <<>> /\ results' = Tail(results)
        /\ UNCHANGED <<pc, cid, clock, dev, kept, executed, restarts, overtaken, tmp, disk>>
    BY DEF AcceptResult, ResultLost, Put, store, device, world
  <1>2. /\ Head(results) = results[1] /\ 1 \in 1..Len(results) /\ Head(results).c \in Commands
        /\ Head(results).status \in Reported /\ Rank[Head(results).status] \in 3..5
    BY <1>1, HeadFacts, StatusTypes, RankFacts DEF StoreInv
  <1>3. \A c \in Commands : mem'[c] = mem[c] \/ (Head(results).c = c /\ mem'[c] = Head(results).status)
    BY DEF AcceptResult, ResultLost, Put, store, StoreInv, TypeOK
  <1>4. Executions'
    BY <1>1 DEF DeviceInv, Executions, KeptOnce, Busy, On, IsKept
  <1>5. restarts' = 0 => \A c \in Commands \ overtaken' : InOrder(c)'
    BY <1>1, <1>3, TakingKeepsOrder DEF StoreInv, DeviceInv, Ordered
  <1>6. Settling'
    <2>1. ASSUME NEW r \in Requests, Unsettled(r), cid[r] \notin overtaken, restarts = 0
          PROVE  Fresh(cid[r]) /\ mem'[cid[r]] = mem[cid[r]]
      <3>1. Fresh(cid[r]) /\ InOrder(cid[r]) /\ cid[r] \in Commands
        BY <2>1 DEF DeviceInv, Ordered, StoreInv, TypeOK
      <3>2. Published(cid[r]) = 2
        BY <3>1 DEF Fresh, Published
      <3>3. Head(results).c # cid[r]
        BY <1>2, <3>1, <3>2 DEF InOrder
      <3> QED
        BY <1>3, <3>1, <3>3
    <2> QED
      BY <1>1, <2>1 DEF DeviceInv, Ordered, Settling, Unsettled, Fresh, Busy, IsKept
  <1> QED
    BY <1>4, <1>5, <1>6 DEF DeviceInv, Ordered, Settling

(* The device's steps leave the server alone. *)
LEMMA DeviceStepDevice ==
  ASSUME StoreInv, StoreInv', DeviceInv, UNCHANGED <<pc, cid, mem, tmp, disk, clock>>,
         overtaken \subseteq overtaken', restarts' = 0 => restarts = 0, Executions',
         restarts' = 0 => \A c \in Commands \ overtaken' : InOrder(c) => InOrder(c)',
         restarts' = 0 => \A r \in Requests : Unsettled(r) /\ cid[r] \notin overtaken' /\ Fresh(cid[r]) =>
                              ~Busy(cid[r])' /\ ~IsKept(cid[r])'
  PROVE  DeviceInv'
  <1>1. Settling'
    BY DEF DeviceInv, Ordered, Settling, Unsettled, Fresh
  <1>2. restarts' = 0 => \A c \in Commands \ overtaken' : InOrder(c)'
    BY DEF DeviceInv, Ordered
  <1> QED
    BY <1>1, <1>2 DEF DeviceInv, Ordered, Settling

LEMMA ForgetDevice ==
  ASSUME StoreInv, StoreInv', DeviceInv, AnswerFails \/ Restart
  PROVE  DeviceInv'
  <1>1. CASE AnswerFails
    <2>1. /\ dev.at = "answer" /\ dev' = Idle
          /\ UNCHANGED <<pc, cid, mem, tmp, disk, clock, results, kept, executed, restarts, overtaken>>
      BY <1>1 DEF AnswerFails, store, world
    <2>2. Executions'
      BY <2>1 DEF DeviceInv, Executions, KeptOnce, Busy, On, IsKept, Idle, Early
    <2>3. \A c \in Commands : Published(c)' = Published(c) /\ ~Busy(c)' /\ (IsKept(c)' <=> IsKept(c))
      BY <2>1 DEF Published, IsKept, Busy, Idle, Early
    <2>4. \A c \in Commands : InOrder(c) => InOrder(c)'
      BY <2>1, <2>3 DEF InOrder
    <2>5. cid \in [Requests -> Commands]
      BY DEF StoreInv, TypeOK
    <2>6. \A r \in Requests : Fresh(cid[r]) => ~Busy(cid[r])' /\ ~IsKept(cid[r])'
      BY <2>1, <2>3, <2>5 DEF Fresh
    <2> QED
      BY <2>1, <2>2, <2>4, <2>6, DeviceStepDevice
  <1>2. CASE Restart
    <2>1. /\ dev' = Idle /\ kept' = <<>> /\ restarts' = restarts + 1 /\ restarts \in Nat
          /\ UNCHANGED <<pc, cid, mem, tmp, disk, clock, executed, overtaken>>
      BY <1>2 DEF Restart, store, world, StoreInv, TypeOK
    <2>2. Executions'
      BY <2>1 DEF Executions, KeptOnce, Busy, On, IsKept, Idle, Early
    <2> QED
      BY <2>1, <2>2, DeviceStepDevice
  <1> QED
    BY <1>1, <1>2

(* The device proceeds without publishing. *)
LEMMA QuietKeepsOrder ==
  ASSUME TypeOK, NEW c \in Commands, InOrder(c), UNCHANGED <<mem, tmp, disk, results>>,
         Published(c)' >= Published(c)
  PROVE  InOrder(c)'
  <1>1. Published(c) \in 2..5 /\ Published(c)' \in 2..5
    BY PublishedRange DEF Published
  <1>2. \A i \in 1..Len(results) : Rank[results[i].status] \in 3..5
    BY StatusTypes, RankFacts
  <1>3. Rank[mem[c]] \in 0..5 /\ Rank[tmp[c]] \in 0..5 /\ Rank[disk[c]] \in 0..5
    BY StatusTypes, RankFacts
  <1>4. Behind(mem[c], Published(c)') /\ Behind(tmp[c], Published(c)') /\ Behind(disk[c], Published(c)')
    BY <1>1, <1>3 DEF InOrder, Behind
  <1>5. \A i \in 1..Len(results) : results[i].c = c => Rank[results[i].status] <= Published(c)'
    BY <1>1, <1>2 DEF InOrder
  <1> QED
    BY <1>4, <1>5 DEF InOrder, Behind

(* Steps of the device on the command it is at, which is not fresh. *)
LEMMA OnStepDevice ==
  ASSUME StoreInv, StoreInv', DeviceInv, NEW d \in Commands, On(d),
         UNCHANGED <<pc, cid, mem, tmp, disk, clock, restarts, overtaken>>, Executions',
         \A c \in Commands : c # d => (Busy(c)' => Busy(c)) /\ (IsKept(c)' => IsKept(c)),
         restarts = 0 => \A c \in Commands : InOrder(c) => InOrder(c)'
  PROVE  DeviceInv'
  <1>1. \A r \in Requests : Fresh(cid[r]) => cid[r] \in Commands /\ cid[r] # d
    BY DEF Fresh, StoreInv, TypeOK, DeviceInv, Executions
  <1>2. \A r \in Requests : Fresh(cid[r]) => ~Busy(cid[r])' /\ ~IsKept(cid[r])'
    BY <1>1 DEF Fresh
  <1> QED
    BY <1>2, DeviceStepDevice

(* Of an arriving command only its own state at the device changes. *)
LEMMA ReceiveDevice ==
  ASSUME StoreInv, StoreInv', DeviceInv, MemorySuffices, NEW c \in Commands, Receive(c)
  PROVE  DeviceInv'
  <1>1. /\ dev = Idle /\ UNCHANGED <<pc, cid, mem, tmp, disk, clock, executed, restarts>>
        /\ overtaken \subseteq overtaken'
        /\ \A r \in Requests : Unsettled(r) /\ cid[r] = c => c \in overtaken'
    BY DEF Receive, Overtake, Settled, Unsettled, store, device
  <1>2. TypeOK /\ TypeOK' /\ Executions /\ KeptOnce
    BY DEF StoreInv, DeviceInv, Executions
  <1>3. \A x \in Commands : ~Busy(x) /\ ~On(x)
    BY <1>1 DEF Busy, On, Idle, Early
  <1>4. /\ Executions'
        /\ \A x \in Commands : x # c => ~Busy(x)' /\ (IsKept(x)' => IsKept(x))
        /\ \A x \in Commands : InOrder(x) => InOrder(x)'
    <2>1. CASE /\ \E i \in 1..Len(kept) : kept[i].c = c /\ Publish(c, kept[i].status, 1)
               /\ UNCHANGED <<dev, kept>>
      <3>1. PICK i \in 1..Len(kept) : kept[i].c = c /\ Publish(c, kept[i].status, 1)
        BY <2>1
      <3>2. kept[i].status \in Concluded /\ kept[i].status \in Reported /\ Rank[kept[i].status] = 5
        <4>1. kept \in Seq(Entries)
          BY <1>2 DEF TypeOK
        <4>2. kept[i] \in Entries
          BY <4>1
        <4> QED
          BY <4>2, RankFacts DEF Entries
      <3>3. Executions'
        BY <1>1, <1>2, <2>1 DEF Executions, KeptOnce, Busy, On, IsKept
      <3>4. \A x \in Commands : /\ Published(x)' = Published(x) /\ Published(x) \in 2..5
                                /\ (Busy(x)' <=> Busy(x)) /\ (IsKept(x)' <=> IsKept(x))
        BY <2>1, PublishedRange DEF Published, IsKept, Busy
      <3>5. Published(c) = 5
        BY <3>1 DEF Published, IsKept
      <3>6. /\ Len(results) \in Nat /\ Len(results') = Len(results) + 1
            /\ \A h \in 1..Len(results) : results'[h] = results[h]
            /\ \A h \in 1..Len(results') : h > Len(results) => results'[h].c = c /\ results'[h].status = kept[i].status
        <4>1. Len(results) \in Nat
          BY <1>2 DEF TypeOK
        <4> QED
          BY <1>2, <3>1, <3>2, <4>1, PublishFacts
      <3>7. Len(results') >= Len(results)
        BY <3>6
      <3>8. ASSUME NEW x \in Commands, InOrder(x)
            PROVE  InOrder(x)'
        <4>1. Published(x)' >= Published(x) /\ (c = x => Rank[kept[i].status] = Published(x)')
          BY <3>2, <3>4, <3>5
        <4> QED
          BY <1>1, <1>2, <3>2, <3>6, <3>7, <3>8, <4>1, PublishingKeepsOrder
      <3> QED
        BY <1>3, <3>3, <3>4, <3>8
    <2>2. CASE UNCHANGED <<dev, kept, results>>
      <3>1. Executions'
        BY <1>1, <1>2, <2>2 DEF Executions, KeptOnce, Busy, On, IsKept
      <3>2. \A x \in Commands : Published(x)' = Published(x) /\ (Busy(x)' <=> Busy(x)) /\ (IsKept(x)' <=> IsKept(x))
        BY <2>2 DEF Published, IsKept, Busy
      <3>3. \A x \in Commands : InOrder(x) => InOrder(x)'
        BY <1>1, <2>2, <3>2 DEF InOrder
      <3> QED
        BY <1>3, <3>1, <3>2, <3>3
    <2>3. CASE ~IsKept(c) /\ dev' = [at |-> "accepted", c |-> c] /\ UNCHANGED <<kept, results>>
      <3>1. Executions'
        BY <1>1, <1>2, <2>3 DEF Executions, KeptOnce, Busy, On, IsKept, Early
      <3>2. \A x \in Commands : Published(x)' = Published(x) /\ (x # c => ~Busy(x)') /\ (IsKept(x)' <=> IsKept(x))
        BY <1>3, <2>3 DEF Published, IsKept, Busy
      <3>3. \A x \in Commands : InOrder(x) => InOrder(x)'
        BY <1>1, <2>3, <3>2 DEF InOrder
      <3> QED
        BY <3>1, <3>2, <3>3
    <2>4. CASE /\ ~IsKept(c) /\ Keep(c, "rejected")
               /\ dev' = [at |-> "answer", c |-> c, status |-> "rejected"]
               /\ UNCHANGED results
      <3>1. /\ IsKept(c)' /\ KeptOnce'
            /\ \A x \in Commands : (IsKept(x)' => IsKept(x) \/ x = c) /\ (IsKept(x) => IsKept(x)')
        BY <1>2, <2>4, KeepFacts DEF Concluded
      <3>2. \A x \in Commands : ~Busy(x)' /\ (On(x)' => x = c)
        BY <2>4 DEF Busy, On, Early
      <3>3. Executions'
        BY <1>1, <1>2, <3>1, <3>2 DEF Executions
      <3>4. ASSUME NEW x \in Commands, InOrder(x)
            PROVE  InOrder(x)'
        <4>1. Published(x)' >= Published(x)
          BY <1>3, <3>1, <3>2, PublishedRange DEF Published
        <4> QED
          BY <1>1, <1>2, <2>4, <3>4, <4>1, QuietKeepsOrder
      <3> QED
        BY <3>1, <3>2, <3>3, <3>4
    <2> QED
      BY <2>1, <2>2, <2>3, <2>4 DEF Receive
  <1>5. \A r \in Requests : Unsettled(r) /\ cid[r] \notin overtaken' /\ Fresh(cid[r]) => ~Busy(cid[r])' /\ ~IsKept(cid[r])'
    <2>1. \A r \in Requests : Unsettled(r) /\ cid[r] \notin overtaken' => cid[r] # c /\ cid[r] \in Commands
      BY <1>1, <1>2 DEF TypeOK
    <2>2. ASSUME NEW r \in Requests, Unsettled(r), cid[r] \notin overtaken', Fresh(cid[r])
          PROVE  ~Busy(cid[r])' /\ ~IsKept(cid[r])'
      <3>1. cid[r] # c /\ cid[r] \in Commands /\ ~IsKept(cid[r])
        BY <2>1, <2>2 DEF Fresh
      <3> QED
        BY <1>1, <1>4, <3>1
    <2> QED
      BY <2>2
  <1> QED
    BY <1>1, <1>4, <1>5, DeviceStepDevice

(* A report is published at the rank the device has reached. *)
LEMMA ReportDevice ==
  ASSUME StoreInv, StoreInv', DeviceInv, Report \/ Answer
  PROVE  DeviceInv'
  <1> DEFINE d == dev.c
             status == IF dev.at = "answer" THEN dev.status ELSE dev.at
  <1>1. /\ UNCHANGED <<pc, cid, mem, tmp, disk, clock, kept, executed, restarts, overtaken>>
        /\ TypeOK /\ TypeOK' /\ Executions /\ KeptOnce
    BY DEF Report, Answer, store, world, StoreInv, DeviceInv, Executions
  <1>2. /\ dev.at \in {"accepted", "executing", "answer"} /\ d \in Commands /\ On(d)
        /\ dev.at = "answer" => status \in Concluded /\ Rank[status] = 5
        /\ dev.at = "accepted" => Rank[status] = 3
        /\ dev.at = "executing" => Rank[status] = 4
        /\ status \in Reported
    BY <1>1, DevFacts, RankFacts DEF Report, Answer, On, Reported
  <1>3. PICK n \in Nat : Publish(d, status, n)
    BY CommandAssumption DEF Report, Answer
  <1>4. /\ dev.at = "accepted" => dev'.at = "executing" /\ dev'.c = d
        /\ dev.at = "executing" => dev'.at = "execute" /\ dev'.c = d
        /\ dev.at = "answer" => dev'.at = "idle"
    BY <1>1, <1>2, DevFacts DEF Report, Answer, Idle, Works, Early
  <1> HIDE DEF d, status
  <1>5. \A x \in Commands : /\ (IsKept(x)' <=> IsKept(x))
                            /\ (On(x) <=> x = d)
                            /\ (Busy(x)' <=> Busy(x)) /\ (On(x)' => On(x))
    BY <1>1, <1>2, <1>4 DEF IsKept, Busy, On, Early, d
  <1>6. Executions'
    BY <1>1, <1>5 DEF Executions, KeptOnce
  <1>7. /\ Len(results) \in Nat /\ Len(results') = Len(results) + n
        /\ \A h \in 1..Len(results) : results'[h] = results[h]
        /\ \A h \in 1..Len(results') : h > Len(results) => results'[h].c = d /\ results'[h].status = status
    <2>1. results \in Seq(Messages)
      BY <1>1 DEF TypeOK
    <2>2. Len(results) \in Nat
      BY <2>1
    <2> QED
      BY <1>1, <1>2, <1>3, <2>2, PublishFacts
  <1>8. Len(results') >= Len(results)
    BY <1>7
  <1>9. ASSUME NEW x \in Commands, InOrder(x)
        PROVE  InOrder(x)'
    <2>1. Published(x)' >= Published(x) /\ (d = x => Rank[status] = Published(x)')
      BY <1>1, <1>2, <1>4, <1>5 DEF Published, Executions, Busy, On, Early
    <2> QED
      BY <1>1, <1>2, <1>7, <1>8, <1>9, <2>1, PublishingKeepsOrder
  <1> QED
    BY <1>1, <1>2, <1>5, <1>6, <1>9, OnStepDevice

(* A result is remembered before it is answered. *)
LEMMA ConcludedDevice ==
  ASSUME StoreInv, StoreInv', DeviceInv, MemorySuffices, NEW status \in Concluded, Conclude(status), dev.at # "idle",
         UNCHANGED <<pc, cid, mem, tmp, disk, clock, results, restarts, overtaken>>,
         \/ UNCHANGED executed
         \/ dev.at = "execute" /\ executed' = [executed EXCEPT ![dev.c] = @ + 1]
  PROVE  DeviceInv'
  <1>0. PICK d \in Commands : d = dev.c
    BY DevFacts DEF StoreInv
  <1>1. /\ On(d) /\ TypeOK /\ TypeOK' /\ Executions /\ KeptOnce
        /\ Keep(d, status) /\ dev' = [at |-> "answer", c |-> d, status |-> status]
    BY <1>0 DEF StoreInv, DeviceInv, Executions, On, Conclude
  <1>2. /\ IsKept(d)' /\ KeptOnce'
        /\ \A x \in Commands : (IsKept(x)' => IsKept(x) \/ x = d) /\ (IsKept(x) => IsKept(x)')
    BY <1>1, KeepFacts
  <1>3. \A x \in Commands : ~Busy(x)' /\ (On(x)' => x = d) /\ (Busy(x) => x = d)
    BY <1>0, <1>1 DEF Busy, On, Early
  <1>4. restarts = 0 => \A x \in Commands : executed'[x] <= 1 /\ (executed'[x] > 0 => IsKept(x)')
    <2>1. CASE UNCHANGED executed
      BY <1>1, <1>2, <2>1 DEF Executions
    <2>2. CASE dev.at = "execute" /\ executed' = [executed EXCEPT ![d] = @ + 1]
      <3>1. Busy(d) /\ ~IsKept(d)
        BY <1>0, <1>1, <2>2 DEF Executions, Busy, Early
      <3>2. executed \in [Commands -> Nat] /\ executed'[d] = executed[d] + 1
            /\ \A x \in Commands : x # d => executed'[x] = executed[x]
        BY <1>1, <2>2 DEF TypeOK
      <3>3. restarts = 0 => executed[d] = 0
        BY <1>1, <3>1, <3>2 DEF Executions
      <3> QED
        BY <1>1, <1>2, <3>2, <3>3 DEF Executions
    <2> QED
      BY <1>0, <2>1, <2>2
  <1>5. Executions'
    BY <1>2, <1>3, <1>4 DEF Executions
  <1>6. ASSUME NEW x \in Commands, InOrder(x)
        PROVE  InOrder(x)'
    <2>1. Published(x)' >= Published(x)
      BY <1>2, <1>3, PublishedRange DEF Published
    <2> QED
      BY <1>1, <1>6, <2>1, QuietKeepsOrder
  <1> QED
    BY <1>1, <1>2, <1>3, <1>5, <1>6, OnStepDevice

LEMMA ExecuteDevice ==
  ASSUME StoreInv, StoreInv', DeviceInv, MemorySuffices,
         Execute("succeeded") \/ TransitionFails \/ ExecutionRefused \/ Fail
  PROVE  DeviceInv'
  <1>1. ASSUME NEW status \in {"succeeded", "failed"}, Execute(status)
        PROVE  DeviceInv'
    BY <1>1, ConcludedDevice DEF Execute, Concluded, store, world
  <1>2. CASE ExecutionRefused
    BY <1>2, ConcludedDevice DEF ExecutionRefused, Concluded, store, world
  <1>3. CASE Fail
    BY <1>3, ConcludedDevice DEF Fail, Concluded, store, world
  <1> QED
    BY <1>1, <1>2, <1>3 DEF TransitionFails

LEMMA InitDevice == Init => DeviceInv
  <1> SUFFICES ASSUME Init PROVE DeviceInv
    OBVIOUS
  <1>1. /\ dev.at = "idle" /\ Len(kept) = 0 /\ Len(results) = 0
        /\ \A c \in Commands : executed[c] = 0 /\ mem[c] = Absent /\ tmp[c] = Absent /\ disk[c] = Absent
        /\ \A r \in Requests : pc[r] = "new"
    BY DEF Init, Idle, NoRecords
  <1>2. \A c \in Commands : ~Busy(c) /\ ~On(c) /\ ~IsKept(c)
    BY <1>1 DEF Busy, On, IsKept, Early
  <1>3. Executions
    BY <1>1, <1>2 DEF Executions, KeptOnce
  <1>4. \A c \in Commands : InOrder(c)
    BY <1>1, <1>2, RankFacts DEF InOrder, Behind, Published
  <1> QED
    BY <1>1, <1>3, <1>4 DEF DeviceInv, Ordered, Unsettled

LEMMA StepDevice ==
  ASSUME StoreInv, StoreInv', DeviceInv, MemorySuffices, [Next]_vars
  PROVE  DeviceInv'
  <1>1. CASE UNCHANGED vars
    BY <1>1 DEF vars, store, device, world, DeviceInv, Executions, KeptOnce, Busy, On, IsKept, Ordered,
                Unsettled, Fresh, InOrder, Published
  <1>2. ASSUME NEW r \in Requests,
               Create(r) \/ CreateRefused(r) \/ Dispatch(r) \/ Resend(r) \/ DispatchFails(r) \/ Acked(r)
        PROVE  DeviceInv'
    BY <1>2, CreateDevice, CreateRefusedDevice, DispatchDevice, ResendDevice, DispatchFailsDevice, AckedDevice
  <1>3. CASE Serialise \/ Rename \/ WriteFails \/ Crash
    BY <1>3, SerialiseDevice, RenameDevice, WriteFailsDevice, CrashDevice
  <1>4. ASSUME NEW c \in Commands, Get(c) \/ Tick(c) \/ Receive(c)
        PROVE  DeviceInv'
    BY <1>4, GetDevice, TickDevice, ReceiveDevice
  <1>5. CASE AcceptResult \/ ResultLost
    BY <1>5, ResultsTakenDevice
  <1>6. CASE Execute("succeeded") \/ TransitionFails \/ ExecutionRefused \/ Fail \/ Report \/ Answer \/ AnswerFails \/ Restart
    BY <1>6, ExecuteDevice, ReportDevice, ForgetDevice
  <1> QED
    BY <1>1, <1>2, <1>3, <1>4, <1>5, <1>6 DEF Next

(* With memory for a result of every command the device's part holds in    *)
(* every reachable state.                                                  *)
THEOREM DeviceInvariance ==
  ASSUME MemorySuffices
  PROVE  Spec => [](StoreInv /\ DeviceInv)
  <1>1. Init => StoreInv /\ DeviceInv
    BY InitStore, InitDevice
  <1>2. StoreInv /\ DeviceInv /\ [Next]_vars => (StoreInv /\ DeviceInv)'
    BY StepStore, StepDevice
  <1> QED
    BY <1>1, <1>2, PTL DEF Spec

(* handleCommand executes a command once however often it is delivered, if *)
(* it remembers the results of all commands and does not restart.          *)
THEOREM RememberedNotRepeated ==
  ASSUME MemorySuffices
  PROVE  Spec => []ExecutedOnce
  <1>1. StoreInv /\ DeviceInv => ExecutedOnce
    BY DEF DeviceInv, Executions, ExecutedOnce
  <1> QED
    BY <1>1, DeviceInvariance, PTL

(* Where the status of a command changes while the server lives. *)
LEMMA StepAdvances ==
  ASSUME StoreInv, StoreInv', DeviceInv, [Next]_vars, crashes' = crashes, restarts = 0,
         NEW c \in Commands, c \notin overtaken
  PROVE  Rank[mem[c]] <= Rank[mem'[c]]
  <1>1. /\ Rank[mem[c]] \in 0..5 /\ Rank[mem'[c]] \in 0..5 /\ mem[c] \in Statuses /\ InOrder(c)
        /\ cid \in [Requests -> Commands] /\ mem \in [Commands -> Statuses] /\ crashes \in Nat
    BY RankFacts DEF StoreInv, TypeOK, DeviceInv, Ordered
  <1>2. CASE mem'[c] = mem[c]
    BY <1>1, <1>2
  <1>3. ASSUME NEW r \in Requests, Create(r), mem'[c] # mem[c]
        PROVE  mem[c] = Absent
    BY <1>1, <1>3 DEF Create, Put
  <1>4. ASSUME NEW r \in Requests, Acked(r), mem'[c] # mem[c]
        PROVE  mem[c] = "authorized" /\ mem'[c] = "dispatched"
    <2>1. cid[r] = c /\ mem'[c] = "dispatched" /\ Unsettled(r)
      BY <1>1, <1>4 DEF Acked, Put, Unsettled
    <2> QED
      BY <2>1 DEF DeviceInv, Ordered, Fresh
  <1>5. ASSUME NEW x \in Commands, Get(x), mem'[c] # mem[c]
        PROVE  mem'[c] = "expired"
    BY <1>1, <1>5 DEF Get, Put
  <1>6. ASSUME AcceptResult, mem'[c] # mem[c]
        PROVE  Rank[mem[c]] <= Rank[mem'[c]]
    <2>1. /\ results # <<>> /\ mem[Head(results).c] \notin Final
          /\ Put(Head(results).c, Head(results).status, Nobody)
      BY <1>6 DEF AcceptResult, store
    <2>2. Head(results).c = c /\ mem'[c] = Head(results).status
      BY <1>1, <1>6, <2>1 DEF Put
    <2>3. Head(results) = results[1] /\ 1 \in 1..Len(results)
      BY <2>1, HeadFacts DEF StoreInv
    <2> QED
      BY <1>1, <2>1, <2>2, <2>3 DEF InOrder, Behind
  <1>7. \/ mem'[c] = mem[c] \/ AcceptResult
        \/ \E r \in Requests : Create(r) \/ Acked(r)
        \/ \E x \in Commands : Get(x)
    <2>1. CASE UNCHANGED vars
      BY <2>1 DEF vars, store
    <2>2. CASE Next
      BY <1>1, <2>2 DEF Next, CreateRefused, Dispatch, Resend, DispatchFails, Serialise, Rename, WriteFails, Crash,
                        ResultLost, Tick, Receive, Execute, TransitionFails, ExecutionRefused, Fail, Report,
                        Answer, AnswerFails, Restart, store
    <2> QED
      BY <2>1, <2>2
  <1>8. Rank[Absent] = 0 /\ Rank["authorized"] = 1 /\ Rank["dispatched"] = 2 /\ Rank["expired"] = 5
    BY RankFacts DEF Statuses, Status, Final
  <1> QED
    BY <1>1, <1>2, <1>3, <1>4, <1>5, <1>6, <1>7, <1>8

(* While server and device live, the status of a command never moves back, *)
(* though create, get and the result subscription all write it and each    *)
(* file write is a copy of an older map.                                   *)
THEOREM StatusNeverFallsBack ==
  ASSUME MemorySuffices
  PROVE  Spec => StatusAdvances
  <1>1. /\ StoreInv /\ DeviceInv /\ (StoreInv /\ DeviceInv)' /\ [Next]_vars
        => [crashes' = crashes /\ restarts = 0 =>
              \A c \in Commands \ overtaken : Rank[mem[c]] <= Rank[mem'[c]]]_vars
    BY StepAdvances
  <1> QED
    BY <1>1, DeviceInvariance, PTL DEF Spec, StatusAdvances
===============================================================================
