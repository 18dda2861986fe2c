----------------------------- MODULE RetainedData ------------------------------
(***************************************************************************)
(* What becomes of telemetry and documents once they are accepted: the     *)
(* aggregator's windows, the content-addressed files of the filesystem     *)
(* provider, the retention sweep, evidence snapshots with their anchors on *)
(* the chain, evidence bundles and their validation, and the shutdown.     *)
(* One Twin and one process.                                               *)
(***************************************************************************)
EXTENDS Naturals, Sequences, FiniteSets, SequencesExt, TLC

CONSTANTS
    Samples,           \* telemetry samples, named by the time they were observed
    Calls,             \* registrations of the same document
    Days,              \* retention period of the Twin's owner
    MaxClock,          \* bound: days that pass
    MaxDeletes,        \* deletions of one sweep
    MaxStops,          \* bound: stops and crashes
    None

ASSUME RetentionAssumption ==
    /\ Samples \subseteq Nat /\ IsFiniteSet(Samples)
    /\ {Days, MaxClock, MaxDeletes, MaxStops} \subseteq Nat

VARIABLES
    clock,             \* the day
    window,            \* the open window, samples in the order they came
    flushing,          \* windows being stored: [w, pc]
    store,             \* the files by content: [at, whole]
    reg,               \* the registrations
    sweep,             \* the retention run
    snap,              \* the evidence snapshot
    datasets,          \* on the chain: OIDTwinDataset objects
    indexed,           \* on the chain: those whose event can be read
    proc,              \* "up", "closing" or "down"
    stops,             \* stops so far
    taken,             \* history: samples accepted
    lost,              \* history: samples whose loss was logged or that a stop took
    swept,             \* history: samples deleted by retention
    kept               \* history: the days of the answered registrations that nothing stood against

dataVars == <<clock, window, flushing, store, reg, sweep, snap, datasets, indexed,
              proc, stops, taken, lost, swept, kept>>

Symmetry == Permutations(Calls)

Doc == <<"document">>
Window(w) == <<"dataset", w>>
Export(ws) == <<"evidence", ws>>
Windows == {o[2] : o \in {x \in DOMAIN store : x[1] = "dataset"}}

New == [pc |-> "new", at |-> 0, sound |-> FALSE]
Done == [New EXCEPT !.pc = "done"]
Unswept == [pc |-> "idle", todo |-> {}, n |-> 0]
Unasked == [pc |-> "idle", sel |-> None, todo |-> {}, got |-> {}, base |-> {}]

DataInit ==
    /\ clock = 0
    /\ window = <<>>
    /\ flushing = {}
    /\ store = [o \in {} |-> None]
    /\ reg = [c \in Calls |-> New]
    /\ sweep = Unswept
    /\ snap = Unasked
    /\ datasets = {} /\ indexed = {}
    /\ proc = "up" /\ stops = 0
    /\ taken = {} /\ lost = {} /\ swept = {}
    /\ kept = {}

(* writeFile with wx: a new file is empty until its bytes are written; one *)
(* that exists is taken for the content and only touched.                  *)
TouchFault(o) == store
Touch(o) == [store EXCEPT ![o].at = clock]
Put(o, whole) == [x \in DOMAIN store \cup {o} |-> IF x = o THEN [at |-> clock, whole |-> whole] ELSE store[x]]
Without(o) == [x \in DOMAIN store \ {o} |-> store[x]]
-------------------------------------------------------------------------------
Ingest(s) ==
    /\ proc = "up"
    /\ s \notin taken
    /\ window' = Append(window, s)
    /\ taken' = taken \cup {s}
    /\ UNCHANGED <<clock, flushing, store, reg, sweep, snap, datasets, indexed, proc, stops, lost, swept, kept>>

(* flush: the window leaves the table before the first await. *)
TakeWindowFault ==
    /\ window # <<>>
    /\ flushing' = flushing \cup {[w |-> window, pc |-> "open"]}
    /\ UNCHANGED window

TakeWindow ==
    /\ window # <<>>
    /\ flushing' = flushing \cup {[w |-> window, pc |-> "open"]}
    /\ window' = <<>>

Flush ==
    /\ proc = "up"
    /\ TakeWindow
    /\ UNCHANGED <<clock, store, reg, sweep, snap, datasets, indexed, proc, stops, taken, lost, swept, kept>>

CreateFile(f) ==
    /\ f \in flushing /\ f.pc = "open" /\ proc # "down"
    /\ store' = Put(Window(f.w), FALSE)
    /\ flushing' = (flushing \ {f}) \cup {[f EXCEPT !.pc = "writing"]}
    /\ UNCHANGED <<clock, window, reg, sweep, snap, datasets, indexed, proc, stops, taken, lost, swept, kept>>

FinishFile(f) ==
    /\ f \in flushing /\ f.pc = "writing" /\ proc # "down"
    /\ store' = IF Window(f.w) \in DOMAIN store THEN [store EXCEPT ![Window(f.w)].whole = TRUE] ELSE store
    /\ flushing' = flushing \ {f}
    /\ UNCHANGED <<clock, window, reg, sweep, snap, datasets, indexed, proc, stops, taken, lost, swept, kept>>

(* A window that cannot be stored is logged and gone, and the file that    *)
(* was created for it stays behind torn.                                   *)
FlushFails(f) ==
    /\ f \in flushing /\ proc # "down"
    /\ flushing' = flushing \ {f}
    /\ lost' = lost \cup ToSet(f.w)
    /\ UNCHANGED <<clock, window, store, reg, sweep, snap, datasets, indexed, proc, stops, taken, swept, kept>>
-------------------------------------------------------------------------------
(* registerDataset, registerModel, registerBusinessEvent: a document that  *)
(* comes with the call is stored, then anchored.  Two things may stand     *)
(* against what the answer says of the document, both there already when   *)
(* its file is touched: a sweep that goes by an older age of it, and a     *)
(* file that is not whole, which is taken for the document.                *)
Listed == \E x \in sweep.todo : x.o = Doc
Sound == ~Listed /\ (Doc \in DOMAIN store => store[Doc].whole)

Register(c) ==
    /\ reg[c].pc = "new" /\ proc = "up"
    /\ store' = IF Doc \in DOMAIN store THEN Touch(Doc) ELSE Put(Doc, FALSE)
    /\ reg' = [reg EXCEPT ![c] = [pc |-> IF Doc \in DOMAIN store THEN "stored" ELSE "writing",
                                 at |-> clock, sound |-> Sound]]
    /\ UNCHANGED <<clock, window, flushing, sweep, snap, datasets, indexed, proc, stops, taken, lost, swept, kept>>

Written(c) ==
    /\ reg[c].pc = "writing" /\ proc # "down"
    /\ store' = IF Doc \in DOMAIN store THEN [store EXCEPT ![Doc].whole = TRUE] ELSE store
    /\ reg' = [reg EXCEPT ![c].pc = "stored"]
    /\ UNCHANGED <<clock, window, flushing, sweep, snap, datasets, indexed, proc, stops, taken, lost, swept, kept>>

(* A write that fails after it created the file leaves it torn. *)
WriteFails(c) ==
    /\ reg[c].pc = "writing" /\ proc # "down"
    /\ reg' = [reg EXCEPT ![c] = Done]
    /\ UNCHANGED <<clock, window, flushing, store, sweep, snap, datasets, indexed, proc, stops,
                   taken, lost, swept, kept>>

(* The answer, whatever became of the file; the transaction may also be    *)
(* refused.                                                                *)
Registered(c) ==
    /\ reg[c].pc = "stored" /\ proc # "down"
    /\ reg' = [reg EXCEPT ![c] = Done]
    /\ kept' \in {kept, IF reg[c].sound THEN kept \cup {reg[c].at} ELSE kept}
    /\ UNCHANGED <<clock, window, flushing, store, sweep, snap, datasets, indexed, proc, stops, taken, lost, swept>>
-------------------------------------------------------------------------------
(* execute: one run at a time lists the objects and, unless the owner of   *)
(* the Twin cannot be resolved, decides on each by the listed age, oldest  *)
(* first.                                                                  *)
List ==
    /\ sweep.pc = "idle" /\ proc = "up"
    /\ sweep' = [pc |-> "sweeping", todo |-> {[o |-> o, at |-> store[o].at] : o \in DOMAIN store}, n |-> 0]
    /\ UNCHANGED <<clock, window, flushing, store, reg, snap, datasets, indexed, proc, stops, taken, lost, swept, kept>>

Unresolved ==
    /\ sweep.pc = "sweeping" /\ sweep.n = 0
    /\ sweep' = Unswept
    /\ UNCHANGED <<clock, window, flushing, store, reg, snap, datasets, indexed, proc, stops, taken, lost, swept, kept>>

Expired(x) == x.at + Days <= clock

Sweep(x) ==
    /\ sweep.pc = "sweeping" /\ x \in sweep.todo /\ proc # "down"
    /\ \A y \in sweep.todo : x.at <= y.at
    /\ \/ /\ Expired(x) /\ sweep.n < MaxDeletes
          /\ store' = Without(x.o)
          /\ swept' = IF x.o[1] = "dataset" THEN swept \cup ToSet(x.o[2]) ELSE swept
          /\ sweep' = [sweep EXCEPT !.todo = @ \ {x}, !.n = @ + 1]
       \/ \* skipped, capped, or the deletion fails
          /\ sweep' = [sweep EXCEPT !.todo = @ \ {x}]
          /\ UNCHANGED <<store, swept>>
    /\ UNCHANGED <<clock, window, flushing, reg, snap, datasets, indexed, proc, stops, taken, lost, kept>>

EndSweep ==
    /\ sweep.pc = "sweeping" /\ sweep.todo = {} /\ proc # "down"
    /\ sweep' = Unswept
    /\ UNCHANGED <<clock, window, flushing, store, reg, snap, datasets, indexed, proc, stops, taken, lost, swept, kept>>

Tick ==
    /\ clock < MaxClock
    /\ clock' = clock + 1
    /\ UNCHANGED <<window, flushing, store, reg, sweep, snap, datasets, indexed, proc, stops, taken, lost, swept, kept>>
-------------------------------------------------------------------------------
(* The period a window declares is that of its first and its last sample   *)
(* to come.                                                                *)
From(w) == w[1]
To(w) == w[Len(w)]
Overlaps(w, sel) == To(w) >= sel[1] /\ From(w) <= sel[2]

ListWindows(sel) ==
    /\ snap.pc = "idle" /\ proc = "up"
    /\ snap' = [pc |-> "reading", sel |-> sel, todo |-> Windows, got |-> {}, base |-> Windows]
    /\ UNCHANGED <<clock, window, flushing, store, reg, sweep, datasets, indexed, proc, stops, taken, lost, swept, kept>>

(* Every listed window is read; one that is gone or torn fails them all. *)
ReadWindowFault(w) ==
    /\ snap.pc = "reading" /\ w \in snap.todo /\ proc # "down"
    /\ snap' = [snap EXCEPT !.todo = @ \ {w},
                   !.got = IF Window(w) \in DOMAIN store /\ Overlaps(w, snap.sel) THEN @ \cup {w} ELSE @]
    /\ UNCHANGED <<clock, window, flushing, store, reg, sweep, datasets, indexed, proc, stops, taken, lost, swept, kept>>

ReadWindow(w) ==
    /\ snap.pc = "reading" /\ w \in snap.todo /\ proc # "down"
    /\ snap' = IF Window(w) \notin DOMAIN store \/ ~store[Window(w)].whole
               THEN [Unasked EXCEPT !.pc = "failed"]
               ELSE [snap EXCEPT !.todo = @ \ {w}, !.got = IF Overlaps(w, snap.sel) THEN @ \cup {w} ELSE @]
    /\ UNCHANGED <<clock, window, flushing, store, reg, sweep, datasets, indexed, proc, stops, taken, lost, swept, kept>>

StoreExport ==
    /\ snap.pc = "reading" /\ snap.todo = {} /\ proc # "down"
    /\ IF snap.got = {}
       THEN snap' = [Unasked EXCEPT !.pc = "failed"] /\ UNCHANGED store
       ELSE /\ snap' = [snap EXCEPT !.pc = "stored"]
            /\ store' = IF Export(snap.got) \in DOMAIN store THEN Touch(Export(snap.got)) ELSE Put(Export(snap.got), TRUE)
    /\ UNCHANGED <<clock, window, flushing, reg, sweep, datasets, indexed, proc, stops, taken, lost, swept, kept>>

(* addDataset creates the object and its event, which can be read later;   *)
(* it may also be refused.                                                 *)
Dataset(ws) ==
    [hash |-> Export(ws), uri |-> Export(ws),
     from |-> CHOOSE t \in {From(w) : w \in ws} : \A w \in ws : t <= From(w),
     to |-> CHOOSE t \in {To(w) : w \in ws} : \A w \in ws : t >= To(w)]

Anchor ==
    /\ snap.pc = "stored" /\ proc # "down"
    /\ \/ datasets' = datasets \cup {Dataset(snap.got)} /\ snap' = [snap EXCEPT !.pc = "done"]
       \/ UNCHANGED datasets /\ snap' = [Unasked EXCEPT !.pc = "failed"]
    /\ UNCHANGED <<clock, window, flushing, store, reg, sweep, indexed, proc, stops, taken, lost, swept, kept>>

Index ==
    /\ \E d \in datasets \ indexed : indexed' = indexed \cup {d}
    /\ UNCHANGED <<clock, window, flushing, store, reg, sweep, snap, datasets, proc, stops, taken, lost, swept, kept>>

(* createBundle and what validateBundle makes of it.  A bundle names the   *)
(* Twin and the deployment and holds the manifest's copy of the dataset    *)
(* and the file.                                                           *)
Anchored(d) == d \in datasets /\ d \in indexed
Bundle(d) ==
    IF Anchored(d) /\ d.uri \in DOMAIN store
    THEN {[context |-> TRUE, id |-> d, hash |-> d.hash, uri |-> d.uri, from |-> d.from, to |-> d.to, file |-> d.uri]}
    ELSE {}

ContextChecks(b) == b.context
Checks(b) ==
    /\ Anchored(b.id)
    /\ b.hash = b.id.hash /\ b.uri = b.id.uri
    /\ b.from = b.id.from /\ b.to = b.id.to
    /\ b.file = b.hash
Valid(b) == ContextChecks(b) /\ Checks(b)
-------------------------------------------------------------------------------
(* stop: subscriptions end, open windows are flushed for as long as the    *)
(* timeout allows; flushes that a timer started are not waited for.        *)
Shutdown ==
    /\ proc = "up" /\ stops < MaxStops
    /\ proc' = "closing" /\ stops' = stops + 1
    /\ IF window = <<>> THEN UNCHANGED <<window, flushing>> ELSE TakeWindow
    /\ UNCHANGED <<clock, store, reg, sweep, snap, datasets, indexed, taken, lost, swept, kept>>

(* The process ends: after a stop, which waits for the sweep, at its       *)
(* deadline, or by a crash.                                                *)
ProcessEnds ==
    /\ proc = "closing" \/ (proc = "up" /\ stops < MaxStops)
    /\ proc' = "down"
    /\ stops' = IF proc = "up" THEN stops + 1 ELSE stops
    /\ lost' = lost \cup ToSet(window) \cup UNION {ToSet(f.w) : f \in flushing}
    /\ window' = <<>> /\ flushing' = {}
    /\ reg' = [c \in Calls |-> IF reg[c].pc = "new" THEN reg[c] ELSE Done]
    /\ sweep' = Unswept
    /\ snap' = IF snap.pc \in {"idle", "done"} THEN snap ELSE [Unasked EXCEPT !.pc = "failed"]
    /\ UNCHANGED <<clock, store, datasets, indexed, taken, swept, kept>>

Restart ==
    /\ proc = "down"
    /\ proc' = "up"
    /\ UNCHANGED <<clock, window, flushing, store, reg, sweep, snap, datasets, indexed, stops, taken, lost, swept, kept>>

DataNext ==
    \/ \E s \in Samples : Ingest(s)
    \/ Flush
    \/ \E f \in flushing : CreateFile(f) \/ FinishFile(f) \/ FlushFails(f)
    \/ \E c \in Calls : Register(c) \/ Written(c) \/ WriteFails(c) \/ Registered(c)
    \/ List \/ Unresolved \/ EndSweep
    \/ \E x \in sweep.todo : Sweep(x)
    \/ \E sel \in Samples \X Samples : sel[1] <= sel[2] /\ ListWindows(sel)
    \/ \E w \in snap.todo : ReadWindow(w)
    \/ StoreExport \/ Anchor \/ Index
    \/ Tick \/ Shutdown \/ ProcessEnds \/ Restart

DataSpec == DataInit /\ [][DataNext]_dataVars
-------------------------------------------------------------------------------
(* Every sample that was accepted is in exactly one place: the open        *)
(* window, one being stored, one file, or among those that retention       *)
(* deleted or whose loss a failure or a stop explains.                     *)
NoSampleSlips ==
    LET places == {ToSet(window)} \cup {ToSet(f.w) : f \in flushing} \cup {ToSet(w) : w \in Windows}
    IN  /\ taken \subseteq (UNION places) \cup lost \cup swept
        /\ \A p, q \in places : p = q \/ p \cap q = {}

(* A document whose registration was answered is there and whole for the   *)
(* retention period after its file was written or touched, whatever sweeps *)
(* ran until the answer and run after it, unless a sweep had the file in   *)
(* its list when it was touched, with the older age, or the file was not   *)
(* whole then: a crash, a failed write or a slower call had left it torn.  *)
RegisteredIsRetained ==
    \A t \in kept : clock < t + Days => Doc \in DOMAIN store /\ store[Doc].whole

(* Evidence is complete: whatever manifest and file somebody presents, the *)
(* verdict is CONFORMANT only if the file holds every window, with its     *)
(* samples in order, that was retained when the snapshot was asked for and *)
(* has a sample in its interval, although windows are stored and deleted   *)
(* while the snapshot is put together.  A bundle this server hands out is  *)
(* always CONFORMANT.                                                      *)
Ordered(w) == \A i, j \in DOMAIN w : i < j => w[i] <= w[j]
Asked == {w \in snap.base : Ordered(w) /\ \E s \in ToSet(w) : s \in snap.sel[1]..snap.sel[2]}
ConformantIsComplete ==
    snap.pc = "done" =>
        \A d \in datasets :
            /\ \A files \in SUBSET snap.base, h \in {d.hash, None} :
                  Valid([context |-> TRUE, id |-> d, hash |-> h, uri |-> d.uri, from |-> d.from, to |-> d.to,
                         file |-> Export(files)])
                  => Asked \subseteq files
            /\ \A b \in Bundle(d) : Valid(b)
================================================================================
