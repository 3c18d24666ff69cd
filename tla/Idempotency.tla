----------------------------- MODULE Idempotency -----------------------------
(***************************************************************************)
(* The idempotency guard of K-Sync: ingestRequest (ksync.service.ts) with  *)
(* checkAndStore and saveResponse (idempotency.service.ts), as any number  *)
(* of concurrent calls over one idempotency_keys table and one Redis       *)
(* cache.                                                                  *)
(*                                                                         *)
(* A step lies between two awaits of the code: one command to Postgres or  *)
(* to Redis.  Redis may fail at any command: a read that fails is a miss,  *)
(* a pipelined write that fails reaches some of its keys.  A call may end  *)
(* at any step by an exception or with its process (Abort): nothing in     *)
(* ingestRequest catches and nothing resumes it.                           *)
(*                                                                         *)
(* Abstracted: the key strings (members of two disjoint sets), the event   *)
(* identifiers (a call IS its event: createCanonicalEvent makes a fresh    *)
(* one every time), the contents of a response (whether there is one), and *)
(* all that lies between acceptance and response (the step Handle).        *)
(***************************************************************************)

CONSTANTS
    Requests,       \* calls of ingestRequest
    PrimaryKeys,    \* "source:sourceRequestId" keys
    FallbackKeys,   \* "source:ubid:service:payloadHash" keys
    PrimaryOf,      \* the primary key of a call, or NoKey
    FallbackOf,     \* the fallback key of a call
    NoKey,          \* a call without sourceRequestId (the poller's)
    NoEntry         \* no cache entry, or nothing read yet

VARIABLES
    row,      \* the idempotency_keys row a call created: none, stored, or
              \* stored with its cachedResult
    redis,    \* the cache: an entry for each key
    pc,       \* where each call is
    copy,     \* the entry or row a call read and found itself a duplicate of
    todo,     \* the writes a call's saveResponse calls still have to make
    status,   \* the status column of the call's canonical event
    handled   \* the calls that went on to conflict detection and delivery

vars == <<row, redis, pc, copy, todo, status, handled>>

Keys == PrimaryKeys \cup FallbackKeys
KeysOf(r) == {PrimaryOf[r], FallbackOf[r]} \ {NoKey}

Entries == [of : Requests, answered : BOOLEAN]

ASSUME KeyAssumption ==
    /\ PrimaryKeys \cap FallbackKeys = {}
    /\ NoKey \notin PrimaryKeys \cup FallbackKeys
    /\ PrimaryOf \in [Requests -> PrimaryKeys \cup {NoKey}]
    /\ FallbackOf \in [Requests -> FallbackKeys]
    /\ NoEntry \notin Entries

Deciding == {"check", "find", "create", "findAgain"}
Refusing == {"fill", "refuse"}
Handling == {"publish", "accept", "handle", "save"}
Ended    == {"answered", "aborted"}
Places   == {"new"} \cup Deciding \cup Refusing \cup Handling \cup Ended

Statuses == {"none", "RECEIVED", "DUPLICATE_DETECTED", "IDEMPOTENCY_ACCEPTED",
             "HANDLED"}

TypeOK ==
    /\ row \in [Requests -> {"none", "stored", "responded"}]
    /\ redis \in [Keys -> Entries \cup {NoEntry}]
    /\ pc \in [Requests -> Places]
    /\ copy \in [Requests -> Entries \cup {NoEntry}]
    /\ todo \in [Requests -> SUBSET (Keys \X {"row", "cache"})]
    /\ status \in [Requests -> Statuses]
    /\ handled \in SUBSET Requests

Init ==
    /\ row = [r \in Requests |-> "none"]
    /\ redis = [k \in Keys |-> NoEntry]
    /\ pc = [r \in Requests |-> "new"]
    /\ copy = [r \in Requests |-> NoEntry]
    /\ todo = [r \in Requests |-> {}]
    /\ status = [r \in Requests |-> "none"]
    /\ handled = {}

-----------------------------------------------------------------------------
(* Rows and cache entries. *)

Stored == {q \in Requests : row[q] # "none"}

\* Mutant of Matches: the request id is not looked up.
MatchesByContent(r) == {q \in Stored : FallbackOf[q] = FallbackOf[r]}

\* The rows findIdempotencyRecord may return for a call, which are also the
\* rows that make its insert break a unique constraint.
Matches(r) ==
    {q \in Stored : \/ FallbackOf[q] = FallbackOf[r]
                    \/ PrimaryOf[r] # NoKey /\ PrimaryOf[q] = PrimaryOf[r]}

\* The keys of a call that the cache has an entry for.
Hits(r) == {k \in KeysOf(r) : redis[k] # NoEntry}

EntryOf(q) == [of |-> q, answered |-> row[q] = "responded"]

\* setRedisPayload: some of the keys when Redis fails, all of them when not.
SetRedisPayload(keys, entry) ==
    \E reached \in SUBSET keys :
        redis' = [k \in Keys |-> IF k \in reached THEN entry ELSE redis[k]]

Goto(r, place) == pc' = [pc EXCEPT ![r] = place]

\* The call r learns from row q that it is a duplicate.
FoundRow(r, q) ==
    /\ copy' = [copy EXCEPT ![r] = EntryOf(q)]
    /\ Goto(r, "fill")

-----------------------------------------------------------------------------
(* checkAndStore. *)

\* createCanonicalEventRecord: the event's row exists before any check.
Receive(r) ==
    /\ pc[r] = "new"
    /\ status' = [status EXCEPT ![r] = "RECEIVED"]
    /\ Goto(r, "check")
    /\ UNCHANGED <<row, redis, copy, todo, handled>>

\* MGET of the primary key, then the fallback key: the first hit is taken.
CheckCacheHit(r) ==
    /\ pc[r] = "check"
    /\ \E k \in Hits(r) :
        /\ k = PrimaryOf[r] \/ PrimaryOf[r] \notin Hits(r)
        /\ copy' = [copy EXCEPT ![r] = redis[k]]
    /\ Goto(r, "refuse")
    /\ UNCHANGED <<row, redis, todo, status, handled>>

\* A miss, or a Redis that is not ready or fails: the database decides.
CheckCacheMiss(r) ==
    /\ pc[r] = "check"
    /\ Goto(r, "find")
    /\ UNCHANGED <<row, redis, copy, todo, status, handled>>

FindRecord(r) ==
    /\ pc[r] = "find"
    /\ \/ \E q \in Matches(r) : FoundRow(r, q)
       \/ Matches(r) = {} /\ Goto(r, "create") /\ UNCHANGED copy
    /\ UNCHANGED <<row, redis, todo, status, handled>>

\* Mutant of CreateRecord: no unique columns.
CreateUnchecked(r) ==
    /\ pc[r] = "create"
    /\ row' = [row EXCEPT ![r] = "stored"]
    /\ Goto(r, "publish")
    /\ UNCHANGED <<redis, copy, todo, status, handled>>

\* The insert: both key columns are unique, so it fails (P2002) when another
\* call stored a row with one of the keys since the lookup.
CreateRecord(r) ==
    /\ pc[r] = "create"
    /\ \/ /\ Matches(r) = {}
          /\ row' = [row EXCEPT ![r] = "stored"]
          /\ Goto(r, "publish")
       \/ /\ Matches(r) # {}
          /\ Goto(r, "findAgain")
          /\ UNCHANGED row
    /\ UNCHANGED <<redis, copy, todo, status, handled>>

FindAgain(r) ==
    /\ pc[r] = "findAgain"
    /\ \E q \in Matches(r) : FoundRow(r, q)
    /\ UNCHANGED <<row, redis, todo, status, handled>>

\* Mutant of FillCache: the duplicate names itself as the original.
FillCacheWithSelf(r) ==
    /\ pc[r] = "fill"
    /\ SetRedisPayload(KeysOf(r), [of |-> r, answered |-> copy[r].answered])
    /\ Goto(r, "refuse")
    /\ UNCHANGED <<row, copy, todo, status, handled>>

\* The duplicate writes what it read under its OWN keys.
FillCache(r) ==
    /\ pc[r] = "fill"
    /\ SetRedisPayload(KeysOf(r), copy[r])
    /\ Goto(r, "refuse")
    /\ UNCHANGED <<row, copy, todo, status, handled>>

PublishRecord(r) ==
    /\ pc[r] = "publish"
    /\ SetRedisPayload(KeysOf(r), [of |-> r, answered |-> FALSE])
    /\ Goto(r, "accept")
    /\ UNCHANGED <<row, copy, todo, status, handled>>

-----------------------------------------------------------------------------
(* The rest of ingestRequest, and saveResponse. *)

\* The duplicate's event is closed and its caller gets the original's answer.
RefuseDuplicate(r) ==
    /\ pc[r] = "refuse"
    /\ status' = [status EXCEPT ![r] = "DUPLICATE_DETECTED"]
    /\ Goto(r, "answered")
    /\ UNCHANGED <<row, redis, copy, todo, handled>>

AcceptEvent(r) ==
    /\ pc[r] = "accept"
    /\ status' = [status EXCEPT ![r] = "IDEMPOTENCY_ACCEPTED"]
    /\ Goto(r, "handle")
    /\ UNCHANGED <<row, redis, copy, todo, handled>>

\* Mutant of Handle: saveResponse starts with the cache.
HandleCacheFirst(r) ==
    /\ pc[r] = "handle"
    /\ handled' = handled \cup {r}
    /\ status' = [status EXCEPT ![r] = "HANDLED"]
    /\ todo' = [todo EXCEPT ![r] = KeysOf(r) \X {"cache"}]
    /\ Goto(r, "save")
    /\ UNCHANGED <<row, redis, copy>>

\* detectAndResolve, routing and enqueueing, which end in one more update of
\* the event; then saveResponse runs for both keys at once (Promise.all).
Handle(r) ==
    /\ pc[r] = "handle"
    /\ handled' = handled \cup {r}
    /\ status' = [status EXCEPT ![r] = "HANDLED"]
    /\ todo' = [todo EXCEPT ![r] = KeysOf(r) \X {"row"}]
    /\ Goto(r, "save")
    /\ UNCHANGED <<row, redis, copy>>

\* Mutant of SaveRow: the update misses the row.
SaveRowNowhere(r, k) ==
    /\ pc[r] = "save"
    /\ <<k, "row">> \in todo[r]
    /\ todo' = [todo EXCEPT ![r] = (@ \ {<<k, "row">>}) \cup {<<k, "cache">>}]
    /\ UNCHANGED <<row, redis, pc, copy, status, handled>>

\* One saveResponse: the row that has the key gets the response ...
SaveRow(r, k) ==
    /\ pc[r] = "save"
    /\ <<k, "row">> \in todo[r]
    /\ row' = [q \in Requests |-> IF q \in Stored /\ k \in KeysOf(q)
                                    THEN "responded" ELSE row[q]]
    /\ todo' = [todo EXCEPT ![r] = (@ \ {<<k, "row">>}) \cup {<<k, "cache">>}]
    /\ UNCHANGED <<redis, pc, copy, status, handled>>

\* Mutant of SaveCache: a response whose cache write was lost is saved again.
SaveCacheAgain(r, k) ==
    /\ pc[r] = "save"
    /\ <<k, "cache">> \in todo[r]
    /\ \E q \in Stored :
        /\ k \in KeysOf(q)
        /\ SetRedisPayload(KeysOf(q), [of |-> q, answered |-> TRUE])
    /\ UNCHANGED <<row, pc, copy, todo, status, handled>>

\* ... and then the cache, under that row's keys.
SaveCache(r, k) ==
    /\ pc[r] = "save"
    /\ <<k, "cache">> \in todo[r]
    /\ \E q \in Stored :
        /\ k \in KeysOf(q)
        /\ SetRedisPayload(KeysOf(q), [of |-> q, answered |-> TRUE])
    /\ todo' = [todo EXCEPT ![r] = @ \ {<<k, "cache">>}]
    /\ UNCHANGED <<row, pc, copy, status, handled>>

Answer(r) ==
    /\ pc[r] = "save"
    /\ todo[r] = {}
    /\ Goto(r, "answered")
    /\ UNCHANGED <<row, redis, copy, todo, status, handled>>

\* An exception leaves ingestRequest, or its process dies.
Abort(r) ==
    /\ pc[r] \in Deciding \cup Refusing \cup Handling
    /\ Goto(r, "aborted")
    /\ UNCHANGED <<row, redis, copy, todo, status, handled>>

Proceed(r) ==
    \/ CheckCacheHit(r) \/ CheckCacheMiss(r)
    \/ FindRecord(r) \/ CreateRecord(r) \/ FindAgain(r)
    \/ FillCache(r) \/ PublishRecord(r)
    \/ RefuseDuplicate(r) \/ AcceptEvent(r) \/ Handle(r)
    \/ \E k \in Keys : SaveRow(r, k) \/ SaveCache(r, k)
    \/ Answer(r)

Next == \E r \in Requests : Receive(r) \/ Proceed(r) \/ Abort(r)

Spec == Init /\ [][Next]_vars

\* A call that is running keeps running: each await resolves.
FairSpec == Spec /\ \A r \in Requests : WF_vars(Proceed(r))

-----------------------------------------------------------------------------
(* What the guard promises: the verdicts of AcceptOnce.  A call is accepted *)
(* once its row is stored, and a duplicate once it has read another's.      *)

ShareKey(q, r) == KeysOf(q) \cap KeysOf(r) # {}

Verdict ==
    [r \in Requests |->
        IF row[r] # "none" THEN "accepted"
        ELSE IF copy[r] # NoEntry THEN "duplicate" ELSE "pending"]

Original == [r \in Requests |-> IF copy[r] # NoEntry THEN copy[r].of ELSE r]

Promise == INSTANCE AcceptOnce WITH verdict <- Verdict, original <- Original

\* The table, the cache and the concurrent handlers give every call one final
\* verdict, and accept no call while an accepted one has a key of it
\* (ingestRequest with checkAndStore).
PromiseKept == Promise!AbstractSpec

\* Two calls that share an idempotency key, by request id or by content, never
\* both reach conflict detection and delivery, however their steps interleave,
\* whatever Redis loses and wherever a call dies.
HandledOnce ==
    \A q, r \in handled : q # r => ~ShareKey(q, r)

\* What a duplicate is told, from the cache or from the table, is backed by the
\* table: its original has a row, and a response is handed out only once that
\* row has it, so losing the cache loses no answer that was given.
AnswersBacked ==
    LET Backed(entry) ==
            entry # NoEntry =>
                /\ row[entry.of] # "none"
                /\ entry.answered => row[entry.of] = "responded"
    IN  /\ \A k \in Keys : Backed(redis[k])
        /\ \A r \in Requests : Backed(copy[r])

\* A call that was received ends: it answers, unless it is aborted.
CallsEnd ==
    \A r \in Requests : pc[r] = "check" ~> pc[r] \in Ended

\* A call that was handled leaves its response in the table for later
\* duplicates, unless it is aborted before saveResponse has run.
ResponsesSaved ==
    \A r \in Requests :
        r \in handled ~> row[r] = "responded" \/ pc[r] = "aborted"

-----------------------------------------------------------------------------
(* Why it holds: the parts of an inductive invariant.                       *)

\* A call owns a row, or has read another's, or is undecided: never two.
CallsConsistent ==
    \A r \in Requests :
        /\ row[r] # "none" => pc[r] \in Handling \cup Ended /\ copy[r] = NoEntry
        /\ pc[r] \in Handling => row[r] # "none"
        /\ copy[r] # NoEntry => pc[r] \in Refusing \cup Ended
        /\ pc[r] \in Refusing => copy[r] # NoEntry

\* The unique columns keep the rows apart.
RowsApart ==
    \A q, r \in Stored : q # r => ~ShareKey(q, r)

\* Every cache entry was put there by a decided call that has its key.
CacheTraced ==
    \A k \in Keys :
        redis[k] # NoEntry =>
            \E q \in Requests :
                /\ k \in KeysOf(q)
                /\ Verdict[q] # "pending"
                /\ Original[q] = redis[k].of

\* saveResponse works on the keys of its own row, the table before the cache.
SavesOwned ==
    \A r \in Requests : \A s \in todo[r] :
        /\ s[1] \in KeysOf(r)
        /\ row[r] # "none"
        /\ s[2] = "cache" => row[r] = "responded"

\* The guard's inductive invariant (checkAndStore and saveResponse together).
GuardInv ==
    /\ TypeOK
    /\ CallsConsistent
    /\ RowsApart
    /\ CacheTraced
    /\ SavesOwned
    /\ AnswersBacked
    /\ handled \subseteq Stored
=============================================================================
