-------------------------- MODULE IdempotencyProofs --------------------------
(***************************************************************************)
(* For every set of calls and keys: the guard's invariant is inductive, no *)
(* two calls that share a key are both handled, every answer is backed by  *)
(* the table, and the guard implements AcceptOnce.  What AcceptOnce says   *)
(* of every behaviour is proved last, and holds of the guard through that.  *)
(***************************************************************************)
EXTENDS Idempotency, TLAPS

\* The rows a lookup or an insert can meet are those that share a key with the
\* call (findIdempotencyRecord's OR, and the two unique columns).
LEMMA MatchesShare ==
    ASSUME NEW r \in Requests
    PROVE  Matches(r) = {q \in Stored : ShareKey(q, r)}
BY KeyAssumption DEF Matches, Stored, ShareKey, KeysOf, Keys

\* A call's keys are keys.
LEMMA KeysOfType ==
    ASSUME NEW r \in Requests
    PROVE  KeysOf(r) \subseteq Keys
BY KeyAssumption DEF KeysOf, Keys

\* Sharing a key is symmetric.
LEMMA ShareSymmetric ==
    ASSUME NEW q \in Requests, NEW r \in Requests
    PROVE  ShareKey(q, r) <=> ShareKey(r, q)
BY DEF ShareKey

\* What a lookup copies from a row is an entry.
LEMMA EntryOfType ==
    ASSUME NEW q \in Requests
    PROVE  EntryOf(q) \in Entries /\ EntryOf(q) # NoEntry
<1>1. EntryOf(q) \in Entries
    BY DEF EntryOf, Entries
<1> QED BY <1>1, KeyAssumption

\* The table and the cache are empty at the start.
LEMMA InitGuard == Init => GuardInv
BY DEF Init, GuardInv, TypeOK, CallsConsistent, RowsApart, CacheTraced,
       SavesOwned, AnswersBacked, Stored, Places, Deciding, Refusing, Handling,
       Ended, Statuses

\* A step keeps the types.
LEMMA TypeStep == TypeOK /\ [Next]_vars => TypeOK'
<1> SUFFICES ASSUME TypeOK, [Next]_vars PROVE TypeOK'
    OBVIOUS
<1> USE DEF TypeOK, Places, Deciding, Refusing, Handling, Ended, Statuses, Goto
<1>1. ASSUME NEW r \in Requests, Receive(r) PROVE TypeOK'
    BY <1>1 DEF Receive
<1>2. ASSUME NEW r \in Requests, CheckCacheHit(r) PROVE TypeOK'
    BY <1>2, KeysOfType DEF CheckCacheHit, Hits
<1>3. ASSUME NEW r \in Requests, CheckCacheMiss(r) PROVE TypeOK'
    BY <1>3 DEF CheckCacheMiss
<1>4. ASSUME NEW r \in Requests, NEW q \in Requests, FoundRow(r, q),
             UNCHANGED <<row, redis, todo, status, handled>>
      PROVE  TypeOK'
    BY <1>4 DEF FoundRow, EntryOf, Entries
<1>5. ASSUME NEW r \in Requests, FindRecord(r) PROVE TypeOK'
    BY <1>4, <1>5 DEF FindRecord, Matches, Stored
<1>6. ASSUME NEW r \in Requests, CreateRecord(r) PROVE TypeOK'
    BY <1>6 DEF CreateRecord
<1>7. ASSUME NEW r \in Requests, FindAgain(r) PROVE TypeOK'
    BY <1>4, <1>7 DEF FindAgain, Matches, Stored
<1>8. ASSUME NEW keys, NEW entry \in Entries \cup {NoEntry},
             SetRedisPayload(keys, entry)
      PROVE  redis' \in [Keys -> Entries \cup {NoEntry}]
    BY <1>8 DEF SetRedisPayload
<1>9. ASSUME NEW r \in Requests, FillCache(r) PROVE TypeOK'
    <2>1. redis' \in [Keys -> Entries \cup {NoEntry}]
        BY <1>8, <1>9 DEF FillCache
    <2> QED BY <1>9, <2>1 DEF FillCache
<1>10. ASSUME NEW r \in Requests, PublishRecord(r) PROVE TypeOK'
    <2>1. redis' \in [Keys -> Entries \cup {NoEntry}]
        BY <1>8, <1>10 DEF PublishRecord, Entries
    <2> QED BY <1>10, <2>1 DEF PublishRecord
<1>11. ASSUME NEW r \in Requests, RefuseDuplicate(r) PROVE TypeOK'
    BY <1>11 DEF RefuseDuplicate
<1>12. ASSUME NEW r \in Requests, AcceptEvent(r) PROVE TypeOK'
    BY <1>12 DEF AcceptEvent
<1>13. ASSUME NEW r \in Requests, Handle(r) PROVE TypeOK'
    BY <1>13, KeysOfType DEF Handle
<1>14. ASSUME NEW r \in Requests, NEW k \in Keys, SaveRow(r, k) PROVE TypeOK'
    BY <1>14 DEF SaveRow
<1>15. ASSUME NEW r \in Requests, NEW k \in Keys, SaveCache(r, k) PROVE TypeOK'
    <2>1. redis' \in [Keys -> Entries \cup {NoEntry}]
        BY <1>8, <1>15 DEF SaveCache, Entries, Stored
    <2> QED BY <1>15, <2>1 DEF SaveCache
<1>16. ASSUME NEW r \in Requests, Answer(r) PROVE TypeOK'
    BY <1>16 DEF Answer
<1>17. ASSUME NEW r \in Requests, Abort(r) PROVE TypeOK'
    BY <1>17 DEF Abort
<1>18. ASSUME UNCHANGED vars PROVE TypeOK'
    BY <1>18 DEF vars
<1> QED
    BY <1>1, <1>2, <1>3, <1>5, <1>6, <1>7, <1>9, <1>10, <1>11, <1>12, <1>13,
       <1>14, <1>15, <1>16, <1>17, <1>18 DEF Next, Proceed

\* Every state of the guard is well typed.
THEOREM TypeCorrect == Spec => []TypeOK
<1>1. Init => TypeOK
    BY InitGuard DEF GuardInv
<1> QED BY <1>1, TypeStep, PTL DEF Spec

-----------------------------------------------------------------------------
(* The guard's invariant. *)

\* Which call moved, and how: the steps of Next, one level down.
LEMMA CallsStep == TypeOK /\ CallsConsistent /\ [Next]_vars => CallsConsistent'
<1> SUFFICES ASSUME TypeOK, CallsConsistent, [Next]_vars PROVE CallsConsistent'
    OBVIOUS
<1> USE DEF CallsConsistent, TypeOK, Deciding, Refusing, Handling, Ended, Goto
<1>1. ASSUME NEW r \in Requests, CheckCacheHit(r) PROVE CallsConsistent'
    BY <1>1, KeysOfType DEF CheckCacheHit, Hits
<1>0. ASSUME NEW r \in Requests, NEW q \in Requests, FoundRow(r, q),
             pc[r] \in Deciding, UNCHANGED row
      PROVE  CallsConsistent'
    BY <1>0, EntryOfType DEF FoundRow
<1>2. ASSUME NEW r \in Requests, FindRecord(r) PROVE CallsConsistent'
    <2>1. CASE \E q \in Matches(r) : FoundRow(r, q)
        BY <1>0, <1>2, <2>1 DEF FindRecord, Matches, Stored
    <2>2. CASE Goto(r, "create") /\ UNCHANGED copy
        BY <1>2, <2>2 DEF FindRecord
    <2> QED BY <1>2, <2>1, <2>2 DEF FindRecord
<1>3. ASSUME NEW r \in Requests, CreateRecord(r) PROVE CallsConsistent'
    BY <1>3 DEF CreateRecord
<1>4. ASSUME NEW r \in Requests, FindAgain(r) PROVE CallsConsistent'
    BY <1>0, <1>4 DEF FindAgain, Matches, Stored
<1>5. ASSUME NEW r \in Requests, NEW k \in Keys, SaveRow(r, k)
      PROVE  CallsConsistent'
    BY <1>5 DEF SaveRow, Stored
<1>6. ASSUME NEW r \in Requests,
             \/ Receive(r) \/ CheckCacheMiss(r) \/ FillCache(r)
             \/ PublishRecord(r) \/ RefuseDuplicate(r) \/ AcceptEvent(r)
             \/ Handle(r) \/ (\E k \in Keys : SaveCache(r, k)) \/ Answer(r)
             \/ Abort(r)
      PROVE  CallsConsistent'
    BY <1>6 DEF Receive, CheckCacheMiss, FillCache, PublishRecord,
                RefuseDuplicate, AcceptEvent, Handle, SaveCache, Answer, Abort
<1>7. ASSUME UNCHANGED vars PROVE CallsConsistent'
    BY <1>7 DEF vars
<1> QED BY <1>1, <1>2, <1>3, <1>4, <1>5, <1>6, <1>7 DEF Next, Proceed

\* A row is never lost, nor its response; a verdict once read is never unread.
LEMMA RowsAndCopiesStay ==
    TypeOK /\ CallsConsistent /\ [Next]_vars =>
        \A q \in Requests :
            /\ row[q] # "none" => row'[q] # "none"
            /\ row[q] = "responded" => row'[q] = "responded"
            /\ copy[q] # NoEntry => copy'[q] = copy[q]
<1> SUFFICES ASSUME TypeOK, CallsConsistent, [Next]_vars, NEW q \in Requests
             PROVE  /\ row[q] # "none" => row'[q] # "none"
                    /\ row[q] = "responded" => row'[q] = "responded"
                    /\ copy[q] # NoEntry => copy'[q] = copy[q]
    OBVIOUS
<1> USE DEF CallsConsistent, TypeOK, Refusing, Handling, Ended, Stored
<1>1. ASSUME NEW r \in Requests, Proceed(r) \/ Receive(r) \/ Abort(r)
      PROVE  /\ row[q] # "none" => row'[q] # "none"
             /\ row[q] = "responded" => row'[q] = "responded"
    BY <1>1 DEF Proceed, CheckCacheHit, CheckCacheMiss, FindRecord, CreateRecord,
        FindAgain, FillCache, PublishRecord, RefuseDuplicate, AcceptEvent,
        Handle, SaveRow, SaveCache, Answer, Receive, Abort
<1>2. ASSUME NEW r \in Requests, Proceed(r) \/ Receive(r) \/ Abort(r)
      PROVE  copy[q] # NoEntry => copy'[q] = copy[q]
    BY <1>2 DEF Proceed, CheckCacheHit, CheckCacheMiss, FindRecord, CreateRecord,
        FindAgain, FillCache, PublishRecord, RefuseDuplicate, AcceptEvent,
        Handle, SaveRow, SaveCache, Answer, Receive, Abort, FoundRow
<1>3. CASE UNCHANGED vars
    BY <1>3 DEF vars
<1> QED BY <1>1, <1>2, <1>3 DEF Next

\* Only an insert adds a row, and only when no row shares a key with it.
LEMMA RowsAppear ==
    ASSUME TypeOK, [Next]_vars
    PROVE  \/ Stored' = Stored
           \/ \E r \in Requests :
                /\ CreateRecord(r)
                /\ Matches(r) = {}
                /\ Stored' = Stored \cup {r}
<1> USE DEF TypeOK, Stored
<1>1. ASSUME NEW r \in Requests, CreateRecord(r)
      PROVE  \/ Stored' = Stored
             \/ Matches(r) = {} /\ Stored' = Stored \cup {r}
    BY <1>1 DEF CreateRecord
<1>2. ASSUME NEW r \in Requests, NEW k \in Keys, SaveRow(r, k)
      PROVE  Stored' = Stored
    BY <1>2 DEF SaveRow
<1>3. CASE UNCHANGED row
    BY <1>3
<1> QED
    BY <1>1, <1>2, <1>3 DEF Next, Proceed, vars, Receive, CheckCacheHit,
        CheckCacheMiss, FindRecord, FindAgain, FillCache, PublishRecord,
        RefuseDuplicate, AcceptEvent, Handle, SaveCache, Answer, Abort

\* The unique columns: a step keeps the rows apart.
LEMMA RowsStep == TypeOK /\ RowsApart /\ [Next]_vars => RowsApart'
<1> SUFFICES ASSUME TypeOK, RowsApart, [Next]_vars PROVE RowsApart'
    OBVIOUS
<1>1. CASE Stored' = Stored
    BY <1>1 DEF RowsApart, ShareKey, KeysOf
<1>2. ASSUME NEW r \in Requests, Matches(r) = {}, Stored' = Stored \cup {r}
      PROVE  RowsApart'
    <2>1. \A q \in Stored : ~ShareKey(q, r) /\ ~ShareKey(r, q)
        BY <1>2, MatchesShare, ShareSymmetric DEF Stored
    <2> QED BY <1>2, <2>1 DEF RowsApart, ShareKey, KeysOf
<1> QED BY <1>1, <1>2, RowsAppear

\* A verdict is final, and a duplicate keeps its original.
LEMMA VerdictsStay ==
    ASSUME TypeOK, CallsConsistent, [Next]_vars, NEW q \in Requests,
           Verdict[q] # "pending"
    PROVE  Verdict'[q] = Verdict[q] /\ Original'[q] = Original[q]
<1>1. CallsConsistent'
    BY CallsStep
<1> QED BY <1>1, RowsAndCopiesStay DEF Verdict, Original, CallsConsistent

\* What a call with a row stands for: itself.
LEMMA StoredVerdict ==
    ASSUME CallsConsistent, NEW q \in Requests, row[q] # "none"
    PROVE  Verdict[q] = "accepted" /\ Original[q] = q
BY DEF CallsConsistent, Verdict, Original

\* A write under a call's keys that names what the call stands for, and the
\* trace of the entries the write leaves alone.
LEMMA TracedWrite ==
    ASSUME TypeOK, CallsConsistent, CacheTraced, [Next]_vars,
           NEW q \in Requests, NEW entry,
           SetRedisPayload(KeysOf(q), entry),
           Verdict[q] # "pending", Original[q] = entry.of
    PROVE  CacheTraced'
<1>1. PICK reached \in SUBSET KeysOf(q) :
        redis' = [k \in Keys |-> IF k \in reached THEN entry ELSE redis[k]]
    BY DEF SetRedisPayload
<1>2. SUFFICES ASSUME NEW k \in Keys, redis'[k] # NoEntry
               PROVE  \E p \in Requests :
                        /\ k \in KeysOf(p)
                        /\ Verdict'[p] # "pending"
                        /\ Original'[p] = redis'[k].of
    BY DEF CacheTraced, KeysOf
<1>3. CASE k \in reached
    BY <1>1, <1>3, VerdictsStay
<1>4. CASE k \notin reached
    <2>1. redis'[k] = redis[k]
        BY <1>1, <1>4
    <2>2. PICK p \in Requests : /\ k \in KeysOf(p)
                                /\ Verdict[p] # "pending"
                                /\ Original[p] = redis[k].of
        BY <1>2, <2>1 DEF CacheTraced
    <2> QED BY <2>1, <2>2, VerdictsStay
<1> QED BY <1>3, <1>4

\* Every entry stays traced to a decided call that has its key.
LEMMA CacheStep ==
    TypeOK /\ CallsConsistent /\ CacheTraced /\ [Next]_vars => CacheTraced'
<1> SUFFICES ASSUME TypeOK, CallsConsistent, CacheTraced, [Next]_vars
             PROVE  CacheTraced'
    OBVIOUS
<1>1. ASSUME NEW r \in Requests, FillCache(r) PROVE CacheTraced'
    <2>1. Verdict[r] # "pending" /\ Original[r] = copy[r].of
        BY <1>1 DEF FillCache, CallsConsistent, Refusing, Verdict, Original
    <2> QED BY <1>1, <2>1, TracedWrite DEF FillCache
<1>2. ASSUME NEW r \in Requests, PublishRecord(r) PROVE CacheTraced'
    <2>1. row[r] # "none"
        BY <1>2 DEF PublishRecord, CallsConsistent, Handling
    <2> QED BY <1>2, <2>1, StoredVerdict, TracedWrite DEF PublishRecord
<1>3. ASSUME NEW r \in Requests, NEW k \in Keys, SaveCache(r, k)
      PROVE  CacheTraced'
    <2>1. PICK q \in Stored :
            SetRedisPayload(KeysOf(q), [of |-> q, answered |-> TRUE])
        BY <1>3 DEF SaveCache
    <2> QED BY <2>1, StoredVerdict, TracedWrite DEF Stored
<1>4. CASE UNCHANGED redis
    BY <1>4, VerdictsStay DEF CacheTraced, KeysOf
<1> QED
    BY <1>1, <1>2, <1>3, <1>4 DEF Next, Proceed, vars, Receive, CheckCacheHit,
        CheckCacheMiss, FindRecord, CreateRecord, FindAgain, RefuseDuplicate,
        AcceptEvent, Handle, SaveRow, Answer, Abort

\* saveResponse keeps to its own row, and to the order table before cache.
LEMMA SavesStep ==
    TypeOK /\ CallsConsistent /\ SavesOwned /\ [Next]_vars => SavesOwned'
<1> SUFFICES ASSUME TypeOK, CallsConsistent, SavesOwned, [Next]_vars,
                    NEW p \in Requests, NEW s \in todo'[p]
             PROVE  /\ s[1] \in KeysOf(p)
                    /\ row'[p] # "none"
                    /\ s[2] = "cache" => row'[p] = "responded"
    BY DEF SavesOwned, KeysOf
<1>1. CASE s \in todo[p]
    BY <1>1, RowsAndCopiesStay DEF SavesOwned
<1>2. CASE s \notin todo[p]
    <2>1. ASSUME NEW r \in Requests, Handle(r)
          PROVE  /\ s[1] \in KeysOf(p)
                 /\ row'[p] # "none"
                 /\ s[2] = "cache" => row'[p] = "responded"
        BY <1>2, <2>1 DEF Handle, TypeOK, CallsConsistent, Handling
    <2>2. ASSUME NEW r \in Requests, NEW k \in Keys, SaveRow(r, k)
          PROVE  /\ s[1] \in KeysOf(p)
                 /\ row'[p] # "none"
                 /\ s[2] = "cache" => row'[p] = "responded"
        <3>1. p = r /\ s = <<k, "cache">> /\ <<k, "row">> \in todo[p]
            BY <1>2, <2>2 DEF SaveRow, TypeOK
        <3>2. k \in KeysOf(p) /\ p \in Stored
            BY <3>1 DEF SavesOwned, Stored
        <3> QED BY <2>2, <3>1, <3>2 DEF SaveRow
    <2>3. ASSUME NEW r \in Requests, NEW k \in Keys, SaveCache(r, k)
          PROVE  FALSE
        BY <1>2, <2>3 DEF SaveCache, TypeOK
    <2>4. CASE UNCHANGED todo
        BY <1>2, <2>4
    <2> QED
        BY <2>1, <2>2, <2>3, <2>4 DEF Next, Proceed, vars, Receive,
            CheckCacheHit, CheckCacheMiss, FindRecord, CreateRecord, FindAgain,
            FillCache, PublishRecord, RefuseDuplicate, AcceptEvent, Answer, Abort
<1> QED BY <1>1, <1>2

\* What backs an entry keeps backing it: rows and their responses stay.
Backed(entry) ==
    entry # NoEntry =>
        /\ row[entry.of] # "none"
        /\ entry.answered => row[entry.of] = "responded"

\* What the table backs it backs for good.
LEMMA BackedStays ==
    ASSUME TypeOK, CallsConsistent, [Next]_vars,
           NEW entry \in Entries \cup {NoEntry}, Backed(entry)
    PROVE  Backed(entry)'
<1>1. CASE entry = NoEntry
    BY <1>1 DEF Backed
<1>2. CASE entry \in Entries
    BY <1>2, RowsAndCopiesStay DEF Backed, Entries
<1> QED BY <1>1, <1>2

\* What is read and what is written to the cache is backed by the table.
LEMMA AnswersStep == GuardInv /\ [Next]_vars => AnswersBacked'
<1> SUFFICES ASSUME GuardInv, [Next]_vars PROVE AnswersBacked'
    OBVIOUS
<1> USE DEF GuardInv
<1>1. /\ \A k \in Keys : Backed(redis[k]) /\ redis[k] \in Entries \cup {NoEntry}
      /\ \A r \in Requests : Backed(copy[r]) /\ copy[r] \in Entries \cup {NoEntry}
    BY DEF AnswersBacked, Backed, TypeOK
<1>2. /\ \A k \in Keys : Backed(redis[k])'  \/ redis'[k] # redis[k]
      /\ \A r \in Requests : Backed(copy[r])' \/ copy'[r] # copy[r]
    <2>1. /\ \A k \in Keys : redis'[k] = redis[k] => Backed(redis[k])'
          /\ \A r \in Requests : copy'[r] = copy[r] => Backed(copy[r])'
        BY <1>1, BackedStays DEF Backed
    <2> QED BY <2>1
<1>3. SUFFICES /\ \A k \in Keys : redis'[k] # redis[k] => Backed(redis[k])'
               /\ \A r \in Requests : copy'[r] # copy[r] => Backed(copy[r])'
    BY <1>2 DEF AnswersBacked, Backed
<1>4. ASSUME NEW keys, NEW entry, SetRedisPayload(keys, entry), Backed(entry)',
             UNCHANGED copy
      PROVE  /\ \A k \in Keys : redis'[k] # redis[k] => Backed(redis[k])'
             /\ \A r \in Requests : copy'[r] # copy[r] => Backed(copy[r])'
    BY <1>4 DEF SetRedisPayload, Backed
<1>5. ASSUME NEW r \in Requests, NEW entry, Backed(entry)',
             copy' = [copy EXCEPT ![r] = entry], UNCHANGED redis
      PROVE  /\ \A k \in Keys : redis'[k] # redis[k] => Backed(redis[k])'
             /\ \A q \in Requests : copy'[q] # copy[q] => Backed(copy[q])'
    BY <1>5 DEF Backed, TypeOK
<1>6. ASSUME NEW r \in Requests, FillCache(r)
      PROVE  /\ \A k \in Keys : redis'[k] # redis[k] => Backed(redis[k])'
             /\ \A q \in Requests : copy'[q] # copy[q] => Backed(copy[q])'
    <2>1. Backed(copy[r])'
        BY <1>2, <1>6 DEF FillCache
    <2> QED BY <1>1, <1>6, <2>1, <1>4, BackedStays DEF FillCache, Backed
<1>7. ASSUME NEW r \in Requests, PublishRecord(r)
      PROVE  /\ \A k \in Keys : redis'[k] # redis[k] => Backed(redis[k])'
             /\ \A q \in Requests : copy'[q] # copy[q] => Backed(copy[q])'
    <2>1. row'[r] # "none"
        BY <1>7 DEF PublishRecord, CallsConsistent, Handling
    <2>2. Backed([of |-> r, answered |-> FALSE])'
        BY <2>1 DEF Backed
    <2> QED BY <1>7, <2>2, <1>4 DEF PublishRecord
<1>8. ASSUME NEW r \in Requests, NEW k \in Keys, SaveCache(r, k)
      PROVE  /\ \A c \in Keys : redis'[c] # redis[c] => Backed(redis[c])'
             /\ \A q \in Requests : copy'[q] # copy[q] => Backed(copy[q])'
    <2>1. PICK q \in Stored :
            /\ k \in KeysOf(q)
            /\ SetRedisPayload(KeysOf(q), [of |-> q, answered |-> TRUE])
        BY <1>8 DEF SaveCache
    <2>2. k \in KeysOf(r) /\ r \in Stored /\ row[r] = "responded"
        BY <1>8 DEF SaveCache, SavesOwned, Stored
    <2>3. q = r
        BY <2>1, <2>2 DEF RowsApart, ShareKey
    <2>4. Backed([of |-> q, answered |-> TRUE])'
        BY <1>8, <2>2, <2>3 DEF SaveCache, Backed
    <2> QED BY <1>8, <2>1, <2>4, <1>4 DEF SaveCache
<1>9. ASSUME NEW r \in Requests, CheckCacheHit(r)
      PROVE  /\ \A k \in Keys : redis'[k] # redis[k] => Backed(redis[k])'
             /\ \A q \in Requests : copy'[q] # copy[q] => Backed(copy[q])'
    <2>1. PICK k \in Keys : copy' = [copy EXCEPT ![r] = redis[k]]
        BY <1>9, KeysOfType DEF CheckCacheHit, Hits
    <2>2. Backed(redis[k])'
        BY <1>9, <1>2 DEF CheckCacheHit
    <2> QED BY <1>9, <2>1, <2>2 DEF CheckCacheHit, Backed, TypeOK
<1>10. ASSUME NEW r \in Requests, NEW q \in Stored, FoundRow(r, q),
              UNCHANGED <<row, redis>>
       PROVE  /\ \A k \in Keys : redis'[k] # redis[k] => Backed(redis[k])'
              /\ \A p \in Requests : copy'[p] # copy[p] => Backed(copy[p])'
    <2>1. Backed(EntryOf(q))'
        BY <1>10 DEF Backed, EntryOf, Stored
    <2> QED BY <1>10, <2>1, <1>5 DEF FoundRow, Backed, EntryOf
<1>11. ASSUME NEW r \in Requests, FindRecord(r) \/ FindAgain(r)
       PROVE  /\ \A k \in Keys : redis'[k] # redis[k] => Backed(redis[k])'
              /\ \A p \in Requests : copy'[p] # copy[p] => Backed(copy[p])'
    BY <1>10, <1>11 DEF FindRecord, FindAgain, Matches
<1>12. CASE UNCHANGED <<redis, copy>>
    BY <1>12
<1> QED
    BY <1>6, <1>7, <1>8, <1>9, <1>11, <1>12 DEF Next, Proceed, vars, Receive,
        CheckCacheMiss, CreateRecord, RefuseDuplicate, AcceptEvent, Handle,
        SaveRow, Answer, Abort

\* Only a call with a row of its own is handled.
LEMMA HandledStep ==
    GuardInv /\ [Next]_vars => (handled \subseteq Stored)'
<1> SUFFICES ASSUME GuardInv, [Next]_vars, NEW q \in handled'
             PROVE  q \in Stored'
    OBVIOUS
<1> USE DEF GuardInv
<1>1. q \in Requests /\ row[q] # "none"
    <2>1. CASE q \in handled
        BY <2>1 DEF Stored
    <2>2. ASSUME NEW r \in Requests, Handle(r) PROVE q \in handled \/ q = r
        BY <2>2 DEF Handle
    <2>3. ASSUME NEW r \in Requests, Handle(r) PROVE row[r] # "none"
        BY <2>3 DEF Handle, CallsConsistent, Handling
    <2>4. CASE UNCHANGED handled
        BY <2>1, <2>4
    <2> QED
        BY <2>1, <2>2, <2>3, <2>4 DEF Next, Proceed, vars, Receive,
            CheckCacheHit, CheckCacheMiss, FindRecord, CreateRecord, FindAgain,
            FillCache, PublishRecord, RefuseDuplicate, AcceptEvent, SaveRow,
            SaveCache, Answer, Abort
<1> QED BY <1>1, RowsAndCopiesStay DEF Stored

\* The guard's invariant holds in every reachable state.
THEOREM GuardInvariant == Spec => []GuardInv
<1>1. GuardInv /\ [Next]_vars => GuardInv'
    BY TypeStep, CallsStep, RowsStep, CacheStep, SavesStep, AnswersStep,
       HandledStep DEF GuardInv
<1> QED BY <1>1, InitGuard, PTL DEF Spec

\* No two calls that share an idempotency key both reach conflict detection
\* and delivery, for any set of calls, keys, interleaving and Redis failure.
THEOREM HandledAtMostOnce == Spec => []HandledOnce
<1>1. GuardInv => HandledOnce
    BY DEF GuardInv, RowsApart, HandledOnce
<1> QED BY <1>1, GuardInvariant, PTL

\* Whatever a duplicate is told is backed by the table.
THEOREM AnswersAlwaysBacked == Spec => []AnswersBacked
<1>1. GuardInv => AnswersBacked
    BY DEF GuardInv
<1> QED BY <1>1, GuardInvariant, PTL

-----------------------------------------------------------------------------
(* The guard implements AcceptOnce: an insert is the step that accepts, a   *)
(* read that finds an entry or a row is the step that refuses, and every    *)
(* other step leaves the verdicts alone.                                    *)

\* No call has a verdict at the start.
LEMMA InitPromise == Init => Promise!AbstractInit
BY DEF Init, Promise!AbstractInit, Verdict, Original

\* An insert that no unique column rejects accepts the call.
LEMMA InsertAccepts ==
    ASSUME GuardInv, [Next]_vars, NEW r \in Requests, CreateRecord(r),
           Matches(r) = {}, row' = [row EXCEPT ![r] = "stored"]
    PROVE  Promise!AcceptRequest(r)
<1> USE DEF GuardInv
<1>1. row[r] = "none" /\ copy[r] = NoEntry /\ copy' = copy
    BY DEF CreateRecord, CallsConsistent, Handling, Refusing, Ended
<1>2. Verdict[r] = "pending"
    BY <1>1 DEF Verdict
<1>3. \A q \in Requests : Verdict[q] = "accepted" => ~ShareKey(q, r)
    BY MatchesShare DEF Verdict, Stored
<1>4. Verdict' = [Verdict EXCEPT ![r] = "accepted"]
    BY <1>1 DEF Verdict, TypeOK
<1>5. UNCHANGED Original
    BY <1>1 DEF Original
<1> QED BY <1>2, <1>3, <1>4, <1>5 DEF Promise!AcceptRequest, Promise!ShareKey, ShareKey

\* A read that finds what a decided call with a key of r stands for refuses r.
LEMMA ReadRefuses ==
    ASSUME GuardInv, NEW r \in Requests, NEW q \in Requests,
           NEW entry \in Entries,
           pc[r] \in Deciding, UNCHANGED row,
           copy' = [copy EXCEPT ![r] = entry],
           ShareKey(q, r), Verdict[q] # "pending", Original[q] = entry.of
    PROVE  Promise!RefuseRequest(r, q)
<1> USE DEF GuardInv
<1>1. row[r] = "none" /\ copy[r] = NoEntry /\ entry # NoEntry
    BY KeyAssumption DEF CallsConsistent, Deciding, Handling, Refusing, Ended
<1>2. Verdict[r] = "pending"
    BY <1>1 DEF Verdict
<1>3. copy'[r] = entry /\ \A p \in Requests : p # r => copy'[p] = copy[p]
    BY DEF TypeOK
<1>4. Verdict' = [Verdict EXCEPT ![r] = "duplicate"]
    BY <1>1, <1>3 DEF Verdict
<1>5. Original' = [Original EXCEPT ![r] = Original[q]]
    <2>1. Original'[r] = entry.of
        BY <1>1, <1>3 DEF Original
    <2>2. \A p \in Requests : p # r => Original'[p] = Original[p]
        BY <1>3 DEF Original
    <2>3. /\ Original = [p \in Requests |-> Original[p]]
          /\ Original' = [p \in Requests |-> Original'[p]]
        BY DEF Original
    <2> QED BY <2>1, <2>2, <2>3
<1> QED
    BY <1>2, <1>4, <1>5 DEF Promise!RefuseRequest, Promise!ShareKey, ShareKey

\* Every step of the guard is a step of AcceptOnce, or changes no verdict.
LEMMA StepPromise ==
    GuardInv /\ [Next]_vars => [Promise!AbstractNext]_(Promise!abstractVars)
<1> SUFFICES ASSUME GuardInv, [Next]_vars
             PROVE  Promise!AbstractNext \/ UNCHANGED <<Verdict, Original>>
    BY DEF Promise!abstractVars
<1> USE DEF GuardInv
<1>1. ASSUME NEW r \in Requests, CreateRecord(r)
      PROVE  Promise!AbstractNext \/ UNCHANGED <<Verdict, Original>>
    <2>1. CASE Matches(r) = {} /\ row' = [row EXCEPT ![r] = "stored"]
        BY <1>1, <2>1, InsertAccepts DEF Promise!AbstractNext
    <2>2. CASE UNCHANGED <<row, copy>>
        BY <2>2 DEF Verdict, Original
    <2> QED BY <1>1, <2>1, <2>2 DEF CreateRecord
<1>2. ASSUME NEW r \in Requests, CheckCacheHit(r)
      PROVE  Promise!AbstractNext
    <2>1. PICK k \in KeysOf(r) : /\ redis[k] # NoEntry
                                 /\ copy' = [copy EXCEPT ![r] = redis[k]]
        BY <1>2 DEF CheckCacheHit, Hits
    <2>2. k \in Keys /\ redis[k] \in Entries
        BY <2>1, KeysOfType DEF TypeOK
    <2>3. PICK q \in Requests : /\ k \in KeysOf(q)
                                /\ Verdict[q] # "pending"
                                /\ Original[q] = redis[k].of
        BY <2>1, <2>2 DEF CacheTraced
    <2>4. ShareKey(q, r)
        BY <2>1, <2>3 DEF ShareKey
    <2>5. Promise!RefuseRequest(r, q)
        BY <1>2, <2>1, <2>2, <2>3, <2>4, ReadRefuses DEF CheckCacheHit, Deciding
    <2> QED BY <2>5 DEF Promise!AbstractNext
<1>3. ASSUME NEW r \in Requests, NEW q \in Matches(r), FoundRow(r, q),
             pc[r] \in Deciding, UNCHANGED row
      PROVE  Promise!AbstractNext
    <2>1. q \in Stored /\ q \in Requests /\ ShareKey(q, r)
        BY MatchesShare DEF Stored
    <2>2. Verdict[q] = "accepted" /\ Original[q] = EntryOf(q).of
        BY <2>1, StoredVerdict DEF Stored, EntryOf
    <2>3. EntryOf(q) \in Entries
        BY <2>1, EntryOfType
    <2>4. Promise!RefuseRequest(r, q)
        BY <1>3, <2>1, <2>2, <2>3, ReadRefuses DEF FoundRow
    <2> QED BY <2>1, <2>4 DEF Promise!AbstractNext
<1>4. ASSUME NEW r \in Requests, FindRecord(r) \/ FindAgain(r)
      PROVE  Promise!AbstractNext \/ UNCHANGED <<Verdict, Original>>
    <2>1. CASE \E q \in Matches(r) : FoundRow(r, q)
        BY <1>3, <1>4, <2>1 DEF FindRecord, FindAgain, Deciding
    <2>2. CASE UNCHANGED <<row, copy>>
        BY <2>2 DEF Verdict, Original
    <2> QED BY <1>4, <2>1, <2>2 DEF FindRecord, FindAgain
<1>5. ASSUME NEW r \in Requests, NEW k \in Keys, SaveRow(r, k)
      PROVE  UNCHANGED <<Verdict, Original>>
    <2>1. copy' = copy /\ \A q \in Requests : row'[q] = "none" <=> row[q] = "none"
        BY <1>5 DEF SaveRow, Stored, TypeOK
    <2> QED BY <2>1 DEF Verdict, Original
<1>6. CASE UNCHANGED <<row, copy>>
    BY <1>6 DEF Verdict, Original
<1> QED
    BY <1>1, <1>2, <1>4, <1>5, <1>6 DEF Next, Proceed, vars, Receive,
        CheckCacheMiss, FillCache, PublishRecord, RefuseDuplicate, AcceptEvent,
        Handle, SaveCache, Answer, Abort

\* The idempotency guard implements AcceptOnce.
THEOREM GuardImplementsPromise == Spec => PromiseKept
<1> QED
    BY InitPromise, StepPromise, GuardInvariant, PTL
       DEF Spec, PromiseKept, Promise!AbstractSpec

-----------------------------------------------------------------------------
(* What the promise is worth. *)

\* Only a refusal gives a call another original than itself.
PendingStandForThemselves ==
    \A r \in Requests : Verdict[r] = "pending" => Original[r] = r

PromiseInv ==
    /\ Promise!AbstractTypeOK
    /\ Promise!AcceptedApart
    /\ Promise!OriginalsAccepted
    /\ PendingStandForThemselves

\* No call has a verdict at the start.
LEMMA PromiseInit == Promise!AbstractInit => PromiseInv
BY DEF Promise!AbstractInit, PromiseInv, Promise!AbstractTypeOK, Promise!Verdicts,
       Promise!AcceptedApart, Promise!OriginalsAccepted, PendingStandForThemselves

\* A verdict given keeps accepted calls apart.
LEMMA PromiseStep == PromiseInv /\ [Promise!AbstractNext]_(Promise!abstractVars) => PromiseInv'
<1> SUFFICES ASSUME PromiseInv, [Promise!AbstractNext]_(Promise!abstractVars) PROVE PromiseInv'
    OBVIOUS
<1> USE DEF PromiseInv, Promise!AbstractTypeOK, Promise!Verdicts
<1>1. ASSUME NEW r \in Requests, Promise!AcceptRequest(r) PROVE PromiseInv'
    <2>1. Promise!AbstractTypeOK'
        BY <1>1 DEF Promise!AcceptRequest
    <2>3. Promise!OriginalsAccepted'
        <3>1. Original' = Original
            BY <1>1 DEF Promise!AcceptRequest
        <3>2. \A p \in Requests : Verdict[p] = "accepted" => Verdict'[p] = "accepted"
            BY <1>1 DEF Promise!AcceptRequest
        <3>3. Original[r] = r
            BY <1>1 DEF Promise!AcceptRequest, PendingStandForThemselves
        <3> QED BY <1>1, <3>1, <3>2, <3>3 DEF Promise!AcceptRequest, Promise!OriginalsAccepted
    <2>2. Promise!AcceptedApart'
        BY <1>1 DEF Promise!AcceptRequest, Promise!AcceptedApart, Promise!ShareKey
    <2>4. PendingStandForThemselves'
        BY <1>1 DEF Promise!AcceptRequest, PendingStandForThemselves
    <2> QED BY <2>1, <2>2, <2>3, <2>4
<1>2. ASSUME NEW r \in Requests, NEW q \in Requests, Promise!RefuseRequest(r, q)
      PROVE  PromiseInv'
    <2>1. Promise!AbstractTypeOK' /\ Promise!OriginalsAccepted'
        BY <1>2 DEF Promise!RefuseRequest, Promise!OriginalsAccepted
    <2>2. Promise!AcceptedApart'
        BY <1>2 DEF Promise!RefuseRequest, Promise!AcceptedApart, Promise!ShareKey
    <2>3. PendingStandForThemselves'
        BY <1>2 DEF Promise!RefuseRequest, PendingStandForThemselves
    <2> QED BY <2>1, <2>2, <2>3
<1>3. CASE UNCHANGED Promise!abstractVars
    BY <1>3 DEF Promise!abstractVars, Promise!AcceptedApart, Promise!OriginalsAccepted,
        Promise!ShareKey, PendingStandForThemselves
<1> QED BY <1>1, <1>2, <1>3 DEF Promise!AbstractNext

\* Whatever keeps the promise never has two accepted calls that share a key, and
\* every duplicate stands for an accepted call.
THEOREM PromiseInvariant ==
    PromiseKept => [](Promise!AcceptedApart /\ Promise!OriginalsAccepted)
<1>1. PromiseInv => Promise!AcceptedApart /\ Promise!OriginalsAccepted
    BY DEF PromiseInv
<1> QED BY <1>1, PromiseInit, PromiseStep, PTL DEF PromiseKept, Promise!AbstractSpec

\* Whatever keeps the promise never takes a verdict back.
THEOREM FinalVerdicts == PromiseKept => Promise!VerdictsFinal
<1>1. PromiseInv /\ [Promise!AbstractNext]_(Promise!abstractVars) =>
        [\A r \in Requests :
            Verdict[r] # "pending" =>
                Verdict'[r] = Verdict[r]
                /\ Original'[r] = Original[r]]_(Promise!abstractVars)
    BY DEF PromiseInv, Promise!AbstractTypeOK, Promise!AbstractNext, Promise!AcceptRequest,
           Promise!RefuseRequest, Promise!abstractVars
<1> QED
    BY <1>1, PromiseInit, PromiseStep, PTL
       DEF PromiseKept, Promise!AbstractSpec, Promise!VerdictsFinal

\* What a caller of the guard may rely on, by way of the refinement: no two calls
\* that share a key have rows, every duplicate is answered with a call that has
\* one, and neither verdict nor answer changes afterwards (checkAndStore).
THEOREM GuardKeepsItsWord ==
    Spec => [](Promise!AcceptedApart /\ Promise!OriginalsAccepted) /\ Promise!VerdictsFinal
BY GuardImplementsPromise, PromiseInvariant, FinalVerdicts
=============================================================================
