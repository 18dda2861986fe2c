----------------------------- MODULE ThreadVerifier -----------------------------
(***************************************************************************)
(* DigitalThreadService.verifyDigitalThread: a Twin's events are fetched   *)
(* page by page through the indexer, whose cached list may be of another   *)
(* age for every page while the thread grows, and checked one by one by    *)
(* IncrementalThreadVerifier.                                              *)
(***************************************************************************)
EXTENDS Integers, Sequences, FiniteSets

CONSTANTS
    Threads,           \* the threads a verification may start with, sorted by compareEvents
    MaxLength,         \* bound on the growth of a thread
    PageLimit,         \* events per page
    Queries,           \* fromRevision, toRevision and cursor of the requests
    NoBound            \* not given

(* A wanted event passes the filters of the request on event types and     *)
(* times; without such filters every event is wanted.                      *)
Event == [revisionBefore : Nat, revisionAfter : Nat, sound : BOOLEAN, wanted : BOOLEAN]

ASSUME VerifierAssumption ==
    /\ Threads \subseteq Seq(Event)
    /\ \A t \in Threads : \A i, j \in DOMAIN t :
          i <= j => t[i].revisionAfter <= t[j].revisionAfter
    /\ MaxLength \in Nat
    /\ PageLimit \in Nat \ {0}
    /\ Queries \subseteq [from : Nat \cup {NoBound}, to : Nat \cup {NoBound}, cursor : Nat]
    /\ NoBound \notin Int

VARIABLES
    options,           \* what is requested
    thread,            \* the events on the chain, in the order of compareEvents
    cursor,            \* the offset of the next page
    view,              \* how much of the thread the last page was cut from
    page,              \* events of the current page not checked yet
    more,              \* hasMore of the current page
    partial,           \* the provider said that it cannot enumerate everything
    delivered,         \* the events checked so far
    gaps,              \* a gap, an error or a duplicate was recorded
    errors,
    duplicates,
    missing,           \* missingRevisions
    stage,             \* "fetching", "checking", "done" or "failed"
    verdict            \* "none", or valid as "true", "false" or "null"

threadVars == <<options, thread, cursor, view, page, more, partial, delivered, gaps, errors,
          duplicates, missing, stage, verdict>>

ThreadInit ==
    /\ options \in Queries
    /\ thread \in Threads
    /\ cursor = options.cursor
    /\ view = 0
    /\ page = <<>>
    /\ more = FALSE
    /\ partial = FALSE
    /\ delivered = <<>>
    /\ gaps = FALSE
    /\ errors = FALSE
    /\ duplicates = {}
    /\ missing = {}
    /\ stage = "fetching"
    /\ verdict = "none"

(* Faulty variants (names ending in Fault) change one definition the way a *)
(* plausible bug would; no specification uses them.                        *)
-------------------------------------------------------------------------------
Latest(events) == events[Len(events)]

(* The filter of findTwinEvents. *)
Matches(event) ==
    /\ event.wanted
    /\ options.from # NoBound => event.revisionAfter >= options.from
    /\ options.to # NoBound => event.revisionAfter <= options.to

(* The events of the first n that pass it, and their list: the k-th is the *)
(* one up to which there are k.                                            *)
Matching(n) == {i \in 1..n : Matches(thread[i])}

Filtered(n) == [k \in 1..Cardinality(Matching(n)) |->
    thread[CHOOSE i \in Matching(n) : Cardinality(Matching(i)) = k]]

(* items: at most PageLimit events from the cursor on. *)
Slice(events) ==
    LET rest == Len(events) - cursor IN
    [i \in 1..(IF rest < PageLimit THEN rest ELSE PageLimit) |-> events[cursor + i]]

(* The offset that the next cursor carries. *)
Advance(items) == cursor + Len(items)

(* One page, cut from the first n events of the thread: the cached list    *)
(* may be older than the one the page before came from.  A cursor beyond   *)
(* the list is refused.                                                    *)
FetchPage(n, enumerated) ==
    LET events == Filtered(n) IN
    /\ stage = "fetching"
    /\ cursor <= Len(events)
    /\ view' = n
    /\ page' = Slice(events)
    /\ more' = (Advance(page') < Len(events))
    /\ partial' = ~enumerated
    /\ cursor' = Advance(page')
    /\ stage' = "checking"
    /\ UNCHANGED <<options, thread, delivered, gaps, errors, duplicates, missing, verdict>>

(* The chain cannot be read, or the cursor is out of range. *)
FetchFails ==
    /\ stage = "fetching"
    /\ stage' = "failed"
    /\ UNCHANGED <<options, thread, cursor, view, page, more, partial, delivered, gaps, errors,
                   duplicates, missing, verdict>>

ExpectedBeforeFault == IF delivered # <<>> THEN Latest(delivered).revisionAfter ELSE Head(page).revisionBefore

ExpectedBefore ==
    IF delivered # <<>> THEN Latest(delivered).revisionAfter
    ELSE IF options.from # NoBound THEN options.from - 1 ELSE 0

SkippedFault(before, found) == {r \in 0..found : before <= r}

(* The revisions after before, up to found. *)
Skipped(before, found) == {r \in 0..found : before < r}

(* One turn of the loop of appendPage; the transaction of the event may    *)
(* turn out not to exist.                                                  *)
Check(absent) ==
    LET event == Head(page) IN
    /\ stage = "checking"
    /\ page # <<>>
    /\ errors' = (\/ errors
                  \/ ~event.sound
                  \/ absent
                  \/ event.revisionAfter # event.revisionBefore + 1
                  \/ delivered # <<>> /\ Latest(delivered).revisionAfter > event.revisionAfter)
    /\ duplicates' = IF \E i \in DOMAIN delivered : delivered[i].revisionAfter = event.revisionAfter
                     THEN duplicates \cup {event.revisionAfter} ELSE duplicates
    /\ gaps' = (gaps \/ event.revisionBefore # ExpectedBefore)
    /\ missing' = missing \cup Skipped(ExpectedBefore, event.revisionBefore)
    /\ delivered' = Append(delivered, event)
    /\ page' = Tail(page)
    /\ UNCHANGED <<options, thread, cursor, view, more, partial, stage, verdict>>

(* The page is checked and another one follows. *)
NextPage ==
    /\ stage = "checking"
    /\ page = <<>>
    /\ more /\ ~partial
    /\ stage' = "fetching"
    /\ UNCHANGED <<options, thread, cursor, view, page, more, partial, delivered, gaps, errors,
                   duplicates, missing, verdict>>

LastRevision == IF delivered = <<>> THEN 0 ELSE Latest(delivered).revisionAfter

(* finish: what is missing between the last event and toRevision. *)
Beyond == IF options.to # NoBound THEN Skipped(LastRevision, options.to) ELSE {}

FinishThread ==
    LET absent == IF partial THEN missing ELSE missing \cup Beyond IN
    /\ stage = "checking"
    /\ page = <<>>
    /\ partial \/ ~more
    /\ missing' = absent
    /\ verdict' = IF partial THEN "null"
                  ELSE IF errors \/ gaps \/ duplicates # {} \/ absent # {} THEN "false" ELSE "true"
    /\ stage' = "done"
    /\ UNCHANGED <<options, thread, cursor, view, page, more, partial, delivered, gaps, errors, duplicates>>

(* Meanwhile the Twin gets another event. *)
Grow(wanted) ==
    /\ stage \notin {"done", "failed"}
    /\ Len(thread) < MaxLength
    /\ LET revision == IF thread = <<>> THEN 0 ELSE Latest(thread).revisionAfter IN
       thread' = Append(thread, [revisionBefore |-> revision, revisionAfter |-> revision + 1,
                                 sound |-> TRUE, wanted |-> wanted])
    /\ UNCHANGED <<options, cursor, view, page, more, partial, delivered, gaps, errors, duplicates,
                   missing, stage, verdict>>

ThreadNext ==
    \/ \E n \in 0..Len(thread), enumerated \in BOOLEAN : FetchPage(n, enumerated)
    \/ FetchFails
    \/ \E absent \in BOOLEAN : Check(absent)
    \/ NextPage
    \/ FinishThread
    \/ \E wanted \in BOOLEAN : Grow(wanted)

ThreadSpec == ThreadInit /\ [][ThreadNext]_threadVars

-------------------------------------------------------------------------------
FirstRevision == IF options.from = NoBound THEN 1 ELSE options.from

(* What "valid" means: the events that were checked are sound and carry    *)
(* consecutive revisions from the first one of the request, and reach its  *)
(* last one.                                                               *)
Continuous(events) ==
    /\ \A i \in DOMAIN events :
          /\ events[i].sound
          /\ events[i].revisionBefore = FirstRevision + i - 2
          /\ events[i].revisionAfter = FirstRevision + i - 1
    /\ options.to # NoBound => FirstRevision + Len(events) > options.to \/ options.to = 0

(* "checks ... revision transitions, continuity, ordering": whatever the   *)
(* pages were cut from, a thread is only called valid when the events that *)
(* were checked, across all page boundaries, form a continuous thread.     *)
ValidMeansContinuous == verdict = "true" => Continuous(delivered)

(* The thread as the Move package writes it, for a request that wants      *)
(* every event: one with filters has gaps reported in healthy threads too. *)
Healthy == \A i \in DOMAIN thread :
    /\ thread[i].revisionAfter = i
    /\ thread[i].revisionBefore = i - 1
    /\ thread[i].sound
    /\ thread[i].wanted

(* A request whose range is one of revisions.  The code refuses no other,  *)
(* but reports revision 0 as missing when the range begins there, and the  *)
(* revisions up to toRevision when fromRevision lies behind it.            *)
Askable ==
    options.from # NoBound => options.from > 0 /\ (options.to # NoBound => options.from <= options.to)

AskedFor == FirstRevision..(IF options.to # NoBound THEN options.to ELSE LastRevision)

Revisions == {delivered[i].revisionAfter : i \in DOMAIN delivered}

(* The revisions of the list that the last page was cut from. *)
Present == {thread[i].revisionAfter : i \in Matching(view)}

(* An alarm is true, for an askable request and events that each step by   *)
(* one revision: missingRevisions has every revision of the range that was *)
(* not delivered, and no other one, nor one that a verification from the   *)
(* beginning could find in the last list; and a healthy thread is called   *)
(* invalid only if a transaction was not found or the last list was        *)
(* shorter than the request.  "No other one" excepts a range that begins   *)
(* behind revision 1 and has no event: finish then reports the revisions   *)
(* from 1 on, below the range, which may well exist.                       *)
AlarmIsTrue ==
    LET regular == \A i \in DOMAIN delivered :
                      delivered[i].revisionAfter = delivered[i].revisionBefore + 1
    IN  Askable =>
        /\ verdict \in {"true", "false"} /\ regular
           => /\ AskedFor \ Revisions \subseteq missing
              /\ delivered # <<>> \/ FirstRevision = 1
                 => /\ missing \subseteq AskedFor \ Revisions
                    /\ options.cursor = 0 => missing \cap Present = {}
        /\ verdict = "false" /\ Healthy /\ options.cursor = 0
           => errors \/ (options.to # NoBound /\ view < options.to)

===============================================================================
