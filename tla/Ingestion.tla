------------------------------ MODULE Ingestion ------------------------------
(***************************************************************************)
(* Provider data becoming proof candidates                                 *)
(* (offchain/gpu/hashcredit_gpu/ingestion, providers, jobs/outbox.py):     *)
(* collectors page through windows of a provider's settlements under a     *)
(* persistent cursor, webhooks deliver the same facts, each new fact is    *)
(* stored with its proof request, wait job and outbox event in one         *)
(* transaction, and dispatchers publish the events.                        *)
(*                                                                         *)
(* A provider lists settlements in an order of its own and may list one up *)
(* to Overlap after the time it states (asOf), also in front of pages that *)
(* were already read.  A page token is an offset into the listing.  Two    *)
(* streams: "poll" follows the clock, "refetch" re-reads a fixed window.   *)
(***************************************************************************)
EXTENDS Naturals, FiniteSets

CONSTANTS
    Items,          \* settlements
    AsOf,           \* the time a settlement states
    Paid,           \* settlements that are PAID with a transaction on the source chain
    Pushed,         \* settlements the provider also sends as webhooks
    Workers,        \* collectors
    PageSize,       \* items of a provider page
    Overlap,        \* overlap_seconds of the polled stream
    MaxWindow,      \* max_window_seconds
    MaxAge,         \* max_age_seconds: a provider refuses older data
    MaxSkew,        \* max_skew_seconds of a webhook's timestamp
    MaxSends,       \* max_attempts of an outbox row
    RefetchWindow,  \* <<start, end>> of refetch_corrections
    MaxTime         \* bound: the clock

ASSUME IngestionConstants ==
    /\ IsFiniteSet(Items)
    /\ Paid \subseteq Items /\ Pushed \subseteq Items
    /\ AsOf \in [Items -> Nat]
    /\ PageSize \in Nat \ {0} /\ MaxSends \in Nat \ {0}
    /\ {Overlap, MaxAge, MaxSkew, MaxTime} \subseteq Nat
    /\ MaxWindow \in Nat /\ MaxWindow > Overlap
    /\ RefetchWindow \in Nat \X Nat

Streams == {"poll", "refetch"}

VARIABLES
    now,
    listing,        \* the provider's rows: item -> its place in the list
    cursor,         \* ingest_cursors row of each stream
    worker,         \* what each collector is doing
    raw,            \* raw_source_observations: <<origin, item>>
    requests,       \* proof_requests with their wait jobs, by transaction
    outbox,         \* outbox rows of the requests: item -> [sent, attempt]
    sending,        \* rows a dispatcher has locked and published, not yet marked
    delivered,      \* what the publisher has received
    gap             \* an open SOURCE_RETENTION_GAP exception

ingestionVars == <<now, listing, cursor, worker, raw, requests, outbox, sending, delivered, gap>>

store == <<raw, requests, outbox>>
dispatch == <<sending, delivered>>

-----------------------------------------------------------------------------
NoToken == 0

(* high water, page token and the end of the window it belongs to *)
NewCursor(start) == [open |-> TRUE, high |-> start, token |-> NoToken, end |-> 0]

IdleCollector ==
    [pc |-> "idle", stream |-> "poll", st |-> NewCursor(0), start |-> 0, end |-> 0, page |-> {}, next |-> NoToken]

EarlierOf(a, b) == IF a < b THEN a ELSE b

Before(t, d) == IF t > d THEN t - d ELSE 0

(* backfill_account, refetch_corrections: a stream of their own from the    *)
(* start of the window they are given.                                      *)
InitialStart(stream) == IF stream = "poll" THEN 0 ELSE RefetchWindow[1]

WindowStart(stream, high) == IF stream = "poll" THEN Before(high, Overlap) ELSE RefetchWindow[1]

WindowEnd(stream, st, start) ==
    IF st.token # NoToken THEN st.end
    ELSE IF stream = "poll" THEN EarlierOf(now, start + MaxWindow)
    ELSE RefetchWindow[2]

AdvancedEarly(st, token, end) ==            \* mutant: the first page moves the high-water mark
    [st EXCEPT !.high = end, !.token = token, !.end = IF token = NoToken THEN 0 ELSE end]

(* with_page inside a window, advanced after its last page. *)
Advanced(st, token, end) ==
    IF token = NoToken THEN [st EXCEPT !.high = end, !.token = NoToken, !.end = 0]
    ELSE [st EXCEPT !.token = token, !.end = end]

(* The provider's rows of a window, paged by offset. *)
InWindow(i, start, end) == start <= AsOf[i] /\ AsOf[i] <= end

Listed == DOMAIN listing

ListedIn(start, end) == {i \in Listed : InWindow(i, start, end)}

Rank(i, rows) == Cardinality({j \in rows : listing[j] <= listing[i]})

Page(rows, token) ==
    [items |-> {i \in rows : Rank(i, rows) \in token + 1 .. token + PageSize},
     next  |-> IF token + PageSize < Cardinality(rows) THEN token + PageSize ELSE NoToken]

Expired(page) == \E i \in page.items : now > AsOf[i] + MaxAge

-----------------------------------------------------------------------------
(* store_observation and emit_candidate *)

Emit(box, items) ==                         \* ON CONFLICT (idempotency_key) DO NOTHING
    [i \in DOMAIN box \cup items |-> IF i \in DOMAIN box THEN box[i] ELSE [sent |-> FALSE, attempt |-> 0]]

StoreWithoutRequest(origin, items) ==       \* mutant: candidates are left to a later transaction
    /\ raw' = raw \cup {<<origin, i>> : i \in items}
    /\ UNCHANGED <<requests, outbox>>

Candidates(items) == items \cap Paid

(* One transaction of the source chain has one request, wait job and event. *)
Requested(items) ==
    /\ requests' = requests \cup items
    /\ outbox' = Emit(outbox, items \ requests)

(* A row that is new by (origin, payload) brings the request of its transaction. *)
StoreObservations(origin, items) ==
    LET new == {i \in items : <<origin, i>> \notin raw}
    IN  /\ raw' = raw \cup {<<origin, i>> : i \in new}
        /\ Requested(Candidates(new))

-----------------------------------------------------------------------------
IngestionInit ==
    /\ now = 0
    /\ listing = <<>>
    /\ cursor = [s \in Streams |-> [NewCursor(0) EXCEPT !.open = FALSE]]
    /\ worker = [w \in Workers |-> IdleCollector]
    /\ raw = {} /\ requests = {} /\ outbox = <<>>
    /\ sending = {} /\ delivered = {}
    /\ gap = FALSE

(* Time never passes a settlement that the provider still has to list. *)
Tick ==
    /\ now < MaxTime
    /\ \A i \in Items : i \in Listed \/ now < AsOf[i] + Overlap
    /\ now' = now + 1
    /\ UNCHANGED <<listing, cursor, worker, store, dispatch, gap>>

Publish(i, at) ==
    /\ i \notin Listed
    /\ now >= AsOf[i]
    /\ listing' = [j \in Listed \cup {i} |->
                     IF j = i THEN at ELSE IF listing[j] < at THEN listing[j] ELSE listing[j] + 1]
    /\ UNCHANGED <<now, cursor, worker, store, dispatch, gap>>

-----------------------------------------------------------------------------
(* Collector *)

(* poll, collect_window: open the cursor at the stream's start or resume. *)
Open(w, stream) ==
    LET st    == IF cursor[stream].open THEN cursor[stream]
                 ELSE NewCursor(InitialStart(stream))
        start == WindowStart(stream, st.high)
        end   == WindowEnd(stream, st, start)
    IN  /\ worker[w].pc = "idle"
        /\ cursor' = [cursor EXCEPT ![stream] = st]
        /\ worker' = IF stream = "poll" /\ st.token = NoToken /\ end <= st.high
                     THEN worker                    \* nothing new
                     ELSE [worker EXCEPT ![w] = [IdleCollector EXCEPT !.pc = "window", !.stream = stream, !.st = st,
                                                             !.start = start, !.end = end]]
        /\ UNCHANGED <<now, listing, store, dispatch, gap>>

Gap(w) ==
    /\ gap' = TRUE
    /\ worker' = [worker EXCEPT ![w] = IdleCollector]

(* _fetch: one page as the provider answers it now; data past its age opens *)
(* a gap exception and leaves the cursor where it is.                       *)
Fetch(w) ==
    LET m    == worker[w]
        page == Page(ListedIn(m.start, m.end), m.st.token)
    IN  /\ m.pc = "window"
        /\ IF Expired(page)
           THEN Gap(w)
           ELSE /\ worker' = [worker EXCEPT ![w] = [m EXCEPT !.pc = "page", !.page = page.items,
                                                            !.next = page.next]]
                /\ UNCHANGED gap
        /\ UNCHANGED <<now, listing, cursor, store, dispatch>>

(* The page, its candidates and the cursor in one transaction; a cursor     *)
(* that another collector moved meanwhile abandons the page.                *)
Commit(w) ==
    LET m    == worker[w]
        next == Advanced(m.st, m.next, m.end)
    IN  /\ m.pc = "page"
        /\ \/ /\ cursor[m.stream] = m.st
              /\ StoreObservations("API", m.page)
              /\ cursor' = [cursor EXCEPT ![m.stream] = next]
              /\ worker' = [worker EXCEPT ![w] = IF m.next = NoToken THEN IdleCollector
                                                 ELSE [m EXCEPT !.pc = "window", !.st = next, !.page = {}]]
           \/ /\ cursor[m.stream] # m.st
              /\ worker' = [worker EXCEPT ![w] = IdleCollector]
              /\ UNCHANGED <<cursor, store>>
        /\ UNCHANGED <<now, listing, dispatch, gap>>

(* A rate limit, a transport error or a crash: what was committed stays. *)
Abandon(w) ==
    /\ worker[w].pc # "idle"
    /\ worker' = [worker EXCEPT ![w] = IdleCollector]
    /\ UNCHANGED <<now, listing, cursor, store, dispatch, gap>>

(* verify_webhook: a body of the provider, signed at most MaxSkew ago. *)
Admitted(i) == i \in Pushed /\ now \in AsOf[i] .. AsOf[i] + MaxSkew

(* WebhookReceiver.receive; the provider may send a body again. *)
Webhook(i) ==
    /\ Admitted(i)
    /\ StoreObservations("WEBHOOK", {i})
    /\ UNCHANGED <<now, listing, cursor, worker, dispatch, gap>>

(* request_source_proof: a borrower names the transaction. *)
RequestSourceProof(i) ==
    /\ i \in Paid
    /\ now >= AsOf[i]
    /\ Requested({i})
    /\ UNCHANGED <<now, listing, cursor, worker, raw, dispatch, gap>>

-----------------------------------------------------------------------------
(* dispatch_outbox: the row is locked, published, and marked in one         *)
(* transaction; a crash before the commit leaves it to be sent again.       *)

Sendable(i) ==
    /\ i \in DOMAIN outbox /\ i \notin sending
    /\ ~outbox[i].sent /\ outbox[i].attempt < MaxSends

Send(i) ==
    /\ Sendable(i)
    /\ sending' = sending \cup {i}
    /\ delivered' = delivered \cup {i}
    /\ UNCHANGED <<now, listing, cursor, worker, store, gap>>

MarkEventSent(i) ==
    /\ i \in sending
    /\ outbox' = [outbox EXCEPT ![i] = [sent |-> TRUE, attempt |-> @.attempt + 1]]
    /\ sending' = sending \ {i}
    /\ UNCHANGED <<now, listing, cursor, worker, raw, requests, delivered, gap>>

SendCrash(i) ==
    /\ i \in sending
    /\ sending' = sending \ {i}
    /\ UNCHANGED <<now, listing, cursor, worker, store, delivered, gap>>

SendFails(i) ==
    /\ Sendable(i)
    /\ outbox' = [outbox EXCEPT ![i].attempt = @ + 1]
    /\ UNCHANGED <<now, listing, cursor, worker, raw, requests, dispatch, gap>>

IngestionNext ==
    \/ Tick
    \/ \E i \in Items, at \in 1 .. Cardinality(Listed) + 1 : Publish(i, at)
    \/ \E w \in Workers : (\E s \in Streams : Open(w, s)) \/ Fetch(w) \/ Commit(w) \/ Abandon(w)
    \/ \E i \in Items : Webhook(i) \/ RequestSourceProof(i) \/ Send(i) \/ MarkEventSent(i) \/ SendCrash(i) \/ SendFails(i)

-----------------------------------------------------------------------------
(* No settlement is lost (collector.py: "nothing is skipped"): one the      *)
(* provider lists within the overlap is stored before the polled stream's   *)
(* cursor has left it behind for good, whatever pages shifted, failed or    *)
(* were fetched by two collectors at once.                                  *)
NothingSkipped ==
    \A i \in Listed :
        AsOf[i] < WindowStart("poll", cursor["poll"].high) => <<"API", i>> \in raw

(* Every paid settlement that is stored, from whichever origin, has its     *)
(* proof request with an event that is either still to be published or has  *)
(* reached the publisher.                                                   *)
CandidateReachesPublisher ==
    \A i \in Paid : (\E o \in {"API", "WEBHOOK"} : <<o, i>> \in raw) =>
        /\ i \in requests /\ i \in DOMAIN outbox
        /\ outbox[i].sent => i \in delivered
=============================================================================
