-------------------------- MODULE MarketDataProofs --------------------------
(***************************************************************************)
(* The market-data service, for any number of threads and symbols, any     *)
(* clock, freshness, cache time and retries. Every step of a thread gives  *)
(* it a request that is Fine, and stores only observations that Hold; the  *)
(* inductive invariant says so of every request, entry and row.            *)
(***************************************************************************)
EXTENDS MarketData, TLAPS

(* The latest close at any moment of the past is well defined.             *)
ClosesInv ==
  \A r \in 0..now : \E c \in closes : c <= r /\ \A d \in closes : d <= r => d <= c

(* A real price was the latest close when it was retrieved.                *)
Holds(o) ==
  /\ o.retrieved <= now
  /\ o.source = "massive" => \A c \in closes : c <= o.retrieved => c <= o.close

(* Nothing synthetic is kept unless the policy asks for it.                *)
RealOnly == settings.mode = "end_of_day" /\ settings.policy # "explicit_simulator"
Kept(o)  == Holds(o) /\ (RealOnly => o.source = "massive")

CacheInv == \A s \in Symbol : cache[s] # NoObservation => Kept(cache[s])

PersistedInv == \A s \in Symbol : persisted[s] # NoObservation => Holds(persisted[s])

(* What is true of a request on its way, however long it takes.            *)
Carrying == {"keeping", "settling", "recording", "answered"}

Fine(q) ==
  /\ q.asked <= now
  /\ q.row # NoObservation => Holds(q.row)
  /\ q.at \in Carrying =>
       /\ q.seen \in Observation /\ Holds(q.seen)
       /\ settings.mode = "end_of_day" /\ q.seen.source = "simulator" =>
            (q.via = "fallback" /\ settings.policy = "explicit_simulator") \/ q.via = "persisted"
       /\ q.via \in {"cache", "provider"} => q.asked <= q.seen.retrieved + settings.ttl
  /\ q.at \in Carrying \ {"keeping"} /\ q.via # "persisted" /\ ~q.seen.stale =>
       q.asked <= q.seen.close + Freshness
  /\ q.at # "answered" => q.via # "persisted"

RequestInv == \A t \in Thread : Fine(request[t])

IInv == TypeOK /\ ClosesInv /\ CacheInv /\ PersistedInv /\ RequestInv

-----------------------------------------------------------------------------
(* Observations                                                            *)

(* The numbers that the rules compare.                                     *)
LEMMA Numbers ==
  ASSUME TypeOK
  PROVE  /\ now \in Nat /\ now <= now /\ settings.ttl \in Nat /\ Freshness \in Nat
         /\ \A o \in Observation : o.close \in Nat /\ o.retrieved \in Nat
<1>1. Time \subseteq Nat /\ Freshness \in Nat /\ CacheTTL \subseteq Nat
  BY MarketAssumption DEF Time
<1>2. settings.ttl \in CacheTTL
  BY DEF TypeOK, Settings
<1>3. now \in Nat
  BY <1>1 DEF TypeOK
<1>4. now <= now
  BY <1>3
<1>5. \A o \in Observation : o.close \in Time /\ o.retrieved \in Time
  BY DEF Observation
<1>6. \A o \in Observation : o.close \in Nat /\ o.retrieved \in Nat
  BY <1>1, <1>5
<1> QED
  BY <1>1, <1>2, <1>3, <1>4, <1>6

(* At any moment so far there is a latest close.                           *)
LEMMA LastCloseIs ==
  ASSUME TypeOK, ClosesInv
  PROVE  \A r \in 0..now : /\ LastClose(r) \in closes /\ LastClose(r) <= r
                            /\ \A d \in closes : d <= r => d <= LastClose(r)
BY DEF ClosesInv, LastClose

(* What a provider answers at any moment so far holds.                     *)
LEMMA QuoteIs ==
  ASSUME TypeOK, ClosesInv
  PROVE  \A r \in 0..now : \A source \in {"massive", "simulator"} :
           /\ Quote(source, r) \in Observation /\ Holds(Quote(source, r))
           /\ Quote(source, r).source = source /\ Quote(source, r).retrieved = r
<1> SUFFICES ASSUME NEW r \in 0..now, NEW source \in {"massive", "simulator"}
             PROVE  /\ Quote(source, r) \in Observation /\ Holds(Quote(source, r))
                    /\ Quote(source, r).source = source /\ Quote(source, r).retrieved = r
  OBVIOUS
<1>1. closes \subseteq Time /\ r \in Time /\ r <= now
  BY MarketAssumption DEF TypeOK, Time
<1>2. LastClose(r) \in Time
  BY <1>1, LastCloseIs
<1>3. Quote(source, r) \in Observation
  BY <1>1, <1>2 DEF Quote, Observation
<1>4. /\ Quote(source, r).source = source /\ Quote(source, r).retrieved = r
      /\ source = "massive" => Quote(source, r).close = LastClose(r)
  BY DEF Quote
<1>5. Holds(Quote(source, r))
  BY <1>1, <1>4, LastCloseIs DEF Holds
<1> QED
  BY <1>3, <1>4, <1>5

(* A freshness mark changes nothing else, and is right when it is made.    *)
LEMMA StampedIs ==
  ASSUME TypeOK
  PROVE  \A o \in Observation :
           /\ Stamped(o) \in Observation /\ Stamped(o).close = o.close
           /\ Stamped(o).retrieved = o.retrieved /\ Stamped(o).source = o.source
           /\ ~Stamped(o).stale => now <= o.close + Freshness
<1> SUFFICES ASSUME NEW o \in Observation
             PROVE  /\ Stamped(o) \in Observation /\ Stamped(o).close = o.close
                    /\ Stamped(o).retrieved = o.retrieved /\ Stamped(o).source = o.source
                    /\ ~Stamped(o).stale => now <= o.close + Freshness
  OBVIOUS
<1>1. now \in Nat /\ o.close \in Nat /\ Freshness \in Nat
  BY Numbers
<1>2. \A b \in BOOLEAN : [o EXCEPT !.stale = b] \in Observation
  BY DEF Observation
<1>3. (now - o.close > Freshness) \in BOOLEAN
  BY <1>1
<1>4. Stamped(o) \in Observation
  BY <1>2, <1>3 DEF Stamped
<1>5. /\ Stamped(o).close = o.close /\ Stamped(o).retrieved = o.retrieved
      /\ Stamped(o).source = o.source
  BY DEF Stamped, Observation
<1>6. CASE now - o.close > Freshness
  <2>1. Stamped(o) = [o EXCEPT !.stale = TRUE]
    BY <1>6 DEF Stamped
  <2>2. Stamped(o).stale = TRUE
    BY <2>1 DEF Observation
  <2> QED
    BY <1>4, <1>5, <2>2
<1>7. CASE ~(now - o.close > Freshness)
  BY <1>1, <1>4, <1>5, <1>7
<1> QED
  BY <1>6, <1>7

(* A freshness mark leaves an observation as good as it was.               *)
LEMMA StampedHolds ==
  ASSUME TypeOK
  PROVE  \A o \in Observation : /\ Holds(o) => Holds(Stamped(o))
                                /\ Kept(o) => Kept(Stamped(o))
BY StampedIs DEF Holds, Kept

-----------------------------------------------------------------------------
(* What a step leaves behind                                               *)

(* A thread goes on with a fine request, at the same moment.               *)
LEMMA RequestStep ==
  ASSUME TypeOK, RequestInv, UNCHANGED <<now, closes, settings>>,
         NEW t \in Thread, \E q \in Request : Fine(q) /\ Becomes(t, q)
  PROVE  request' \in [Thread -> Request] /\ RequestInv'
<1>1. PICK q \in Request : Fine(q) /\ Becomes(t, q)
  OBVIOUS
<1>2. request' \in [Thread -> Request]
  BY <1>1 DEF TypeOK, Becomes
<1>3. \A u \in Thread : Fine(request'[u])
  BY <1>1 DEF TypeOK, RequestInv, Becomes
<1>4. RequestInv'
  BY <1>3 DEF RequestInv, Fine, Holds
<1> QED
  BY <1>2, <1>4

(* An entry of the cache is replaced by an observation that may be kept.   *)
LEMMA CacheStep ==
  ASSUME TypeOK, CacheInv, UNCHANGED <<now, closes, settings>>,
         cache' = cache \/ (\E s \in Symbol, o \in Observation :
                              Kept(o) /\ cache' = [cache EXCEPT ![s] = o])
  PROVE  cache' \in [Symbol -> Observation \cup {NoObservation}] /\ CacheInv'
<1>1. CASE cache' = cache
  BY <1>1 DEF TypeOK, CacheInv, Kept, Holds, RealOnly
<1>2. ASSUME NEW s \in Symbol, NEW o \in Observation,
             Kept(o), cache' = [cache EXCEPT ![s] = o]
      PROVE  cache' \in [Symbol -> Observation \cup {NoObservation}] /\ CacheInv'
  <2>1. cache' \in [Symbol -> Observation \cup {NoObservation}]
    BY <1>2 DEF TypeOK
  <2>2. \A x \in Symbol : cache'[x] # NoObservation => Kept(cache'[x])
    BY <1>2 DEF TypeOK, CacheInv
  <2>3. CacheInv'
    BY <2>2 DEF CacheInv, Kept, Holds, RealOnly
  <2> QED
    BY <2>1, <2>3
<1> QED
  BY <1>1, <1>2

(* A row is replaced by an observation that holds.                         *)
LEMMA PersistedStep ==
  ASSUME TypeOK, PersistedInv, UNCHANGED <<now, closes, settings>>,
         persisted' = persisted \/
           (\E s \in Symbol, o \in Observation \cup {NoObservation} :
              (o # NoObservation => Holds(o)) /\ persisted' = [persisted EXCEPT ![s] = o])
  PROVE  persisted' \in [Symbol -> Observation \cup {NoObservation}] /\ PersistedInv'
<1>1. CASE persisted' = persisted
  BY <1>1 DEF TypeOK, PersistedInv, Holds
<1>2. ASSUME NEW s \in Symbol, NEW o \in Observation \cup {NoObservation},
             o # NoObservation => Holds(o), persisted' = [persisted EXCEPT ![s] = o]
      PROVE  persisted' \in [Symbol -> Observation \cup {NoObservation}] /\ PersistedInv'
  <2>1. persisted' \in [Symbol -> Observation \cup {NoObservation}]
    BY <1>2 DEF TypeOK
  <2>2. \A x \in Symbol : persisted'[x] # NoObservation => Holds(persisted'[x])
    BY <1>2 DEF TypeOK, PersistedInv
  <2>3. PersistedInv'
    BY <2>2 DEF PersistedInv, Holds
  <2> QED
    BY <2>1, <2>3
<1> QED
  BY <1>1, <1>2

(* A step of a thread keeps the invariant when what it stores may be       *)
(* stored and the request it leaves is fine, whatever the status becomes.  *)
LEMMA QuietStep ==
  ASSUME IInv, NEW t \in Thread, \E q \in Request : Fine(q) /\ Becomes(t, q),
         cache' = cache \/ (\E s \in Symbol, o \in Observation :
                              Kept(o) /\ cache' = [cache EXCEPT ![s] = o]),
         persisted' = persisted \/
           (\E s \in Symbol, o \in Observation \cup {NoObservation} :
              (o # NoObservation => Holds(o)) /\ persisted' = [persisted EXCEPT ![s] = o]),
         UNCHANGED <<now, closes, settings>>,
         last' = last \/ last' \in {"massive", "simulator"},
         degraded' = degraded \/ degraded' \in BOOLEAN
  PROVE  IInv'
<1>1. request' \in [Thread -> Request] /\ RequestInv'
  BY RequestStep DEF IInv
<1>2. cache' \in [Symbol -> Observation \cup {NoObservation}] /\ CacheInv'
  BY CacheStep DEF IInv
<1>3. persisted' \in [Symbol -> Observation \cup {NoObservation}] /\ PersistedInv'
  BY PersistedStep DEF IInv
<1>4. TypeOK'
  BY <1>1, <1>2, <1>3 DEF IInv, TypeOK
<1>5. ClosesInv'
  BY DEF IInv, ClosesInv
<1> QED
  BY <1>1, <1>2, <1>3, <1>4, <1>5 DEF IInv

-----------------------------------------------------------------------------
(* The steps                                                               *)

(* The fields of a request.                                                *)
LEMMA RequestFields ==
  ASSUME IInv, NEW t \in Thread
  PROVE  /\ request[t] \in Request /\ Fine(request[t])
         /\ request[t].symbol \in Symbol /\ request[t].try \in 0..MaxRetries
         /\ request[t].asked \in Time
         /\ request[t].row \in Observation \cup {NoObservation}
         /\ request[t].seen \in Observation \cup {NoObservation}
BY DEF IInv, TypeOK, RequestInv, Request

(* A request that starts has nothing yet.                                  *)
LEMMA BeginKeepsInv ==
  ASSUME IInv, NEW t \in Thread, Begin(t)
  PROVE  IInv'
<1>1. PICK s \in Symbol : Becomes(t, Asking(t, s))
  BY DEF Begin
<1>2. Asking(t, s) \in Request
  BY MarketAssumption DEF IInv, TypeOK, Asking, Request, Place
<1>3. now <= now
  BY Numbers DEF IInv
<1>4. Fine(Asking(t, s))
  BY <1>3 DEF Fine, Asking, Carrying
<1> QED
  BY <1>1, <1>2, <1>4, QuietStep DEF Begin, status

(* A row from the table holds, also when another process recorded it, and  *)
(* prime_cache keeps it only if it comes from the provider in use.         *)
LEMMA PrimeKeepsInv ==
  ASSUME IInv, NEW t \in Thread, Prime(t)
  PROVE  IInv'
<1> DEFINE s == request[t].symbol
           r == request[t]
<1>1. PICK row \in Readable(s) : /\ persisted' = [persisted EXCEPT ![s] = row]
                                 /\ cache' = Primed(s, row)
                                 /\ Becomes(t, [r EXCEPT !.at = "looking", !.row = row])
  BY DEF Prime
<1>2. s \in Symbol /\ r \in Request /\ Fine(r) /\ r.at = "priming"
  BY RequestFields DEF Prime, At
<1>3. row \in Observation \cup {NoObservation} /\ (row # NoObservation => Holds(row))
  BY <1>2, QuoteIs DEF IInv, TypeOK, PersistedInv, Readable, RecordedElsewhere
<1>4. cache' = cache \/ (\E x \in Symbol, o \in Observation :
                           Kept(o) /\ cache' = [cache EXCEPT ![x] = o])
  <2>1. CASE row # NoObservation /\ Usable(row)
    <3>1. row \in Observation /\ Kept(row)
      BY <1>3, <2>1 DEF Kept, RealOnly, Usable, ProviderSource
    <3>2. Stamped(row) \in Observation /\ Kept(Stamped(row))
      BY <3>1, StampedIs, StampedHolds DEF IInv
    <3> QED
      BY <1>1, <1>2, <2>1, <3>2 DEF Primed
  <2>2. CASE ~(row # NoObservation /\ Usable(row))
    BY <1>1, <2>2 DEF Primed
  <2> QED
    BY <2>1, <2>2
<1>5. PICK q : q = [r EXCEPT !.at = "looking", !.row = row]
  OBVIOUS
<1>6. /\ q \in Request /\ q.at = "looking" /\ q.row = row
      /\ q.asked = r.asked /\ q.via = r.via
  BY <1>2, <1>3, <1>5 DEF Request, Place
<1>7. Fine(q)
  BY <1>2, <1>3, <1>6 DEF Fine, Carrying
<1> QED
  BY <1>1, <1>2, <1>3, <1>4, <1>5, <1>6, <1>7, QuietStep DEF Prime, status

(* An entry is used no later than its time after it was retrieved.         *)
LEMMA LookUpKeepsInv ==
  ASSUME IInv, NEW t \in Thread, LookUp(t)
  PROVE  IInv'
<1> DEFINE r == request[t]
           o == cache[r.symbol]
<1>1. r \in Request /\ Fine(r) /\ r.at = "looking" /\ r.symbol \in Symbol
  BY RequestFields DEF LookUp, At
<1>2. CASE o # NoObservation /\ Usable(o)
  <2>1. o \in Observation /\ Kept(o)
    BY <1>1, <1>2 DEF IInv, TypeOK, CacheInv
  <2>2. o.source = "massive" /\ now <= o.retrieved + settings.ttl
    BY <1>2, <2>1, Numbers DEF IInv, Usable, ProviderSource
  <2>3. PICK q : q = [r EXCEPT !.at = "keeping", !.seen = o, !.via = "cache"]
    OBVIOUS
  <2>4. /\ q \in Request /\ q.at = "keeping" /\ q.seen = o /\ q.via = "cache"
        /\ q.asked = r.asked /\ q.row = r.row
    BY <1>1, <2>1, <2>3 DEF Request, Place
  <2>5. r.asked \in Nat /\ r.asked <= now
    BY RequestFields, MarketAssumption DEF Fine, Time
  <2>6. q.asked <= q.seen.retrieved + settings.ttl
    BY <2>1, <2>2, <2>4, <2>5, Numbers DEF IInv
  <2>7. Fine(q)
    BY <1>1, <2>1, <2>2, <2>4, <2>6 DEF Fine, Carrying, Kept
  <2>8. Becomes(t, q)
    BY <1>2, <2>3 DEF LookUp
  <2> QED
    BY <2>4, <2>7, <2>8, QuietStep DEF LookUp, status
<1>3. CASE ~(o # NoObservation /\ Usable(o))
  <2>1. PICK q : q = [r EXCEPT !.at = "calling"]
    OBVIOUS
  <2>2. /\ q \in Request /\ q.at = "calling" /\ q.asked = r.asked
        /\ q.row = r.row /\ q.via = r.via
    BY <1>1, <2>1 DEF Request, Place
  <2>3. Fine(q)
    BY <1>1, <2>2 DEF Fine, Carrying
  <2>4. Becomes(t, q)
    BY <1>3, <2>1 DEF LookUp, Goes
  <2> QED
    BY <2>2, <2>3, <2>4, QuietStep DEF LookUp, status
<1> QED
  BY <1>2, <1>3

(* A provider answers with a price retrieved now.                          *)
LEMMA AnswerKeepsInv ==
  ASSUME IInv, NEW t \in Thread, Answer(t)
  PROVE  IInv'
<1> DEFINE r == request[t]
           o == Quote(ProviderSource, now)
<1>1. r \in Request /\ Fine(r) /\ r.at = "calling"
  BY RequestFields DEF Answer, At
<1>2. now \in 0..now /\ settings.ttl \in Nat /\ now \in Nat
  BY Numbers DEF IInv
<1>3. /\ o \in Observation /\ Holds(o) /\ o.retrieved = now
      /\ settings.mode = "end_of_day" => o.source = "massive"
  BY <1>2, QuoteIs DEF IInv, ProviderSource
<1>4. PICK q : q = [r EXCEPT !.at = "keeping", !.seen = o, !.via = "provider"]
  OBVIOUS
<1>5. /\ q \in Request /\ q.at = "keeping" /\ q.seen = o /\ q.via = "provider"
      /\ q.asked = r.asked /\ q.row = r.row
  BY <1>1, <1>3, <1>4 DEF Request, Place
<1>6. r.asked \in Nat /\ r.asked <= now
  BY RequestFields, MarketAssumption DEF Fine, Time
<1>7. q.asked <= q.seen.retrieved + settings.ttl
  BY <1>2, <1>3, <1>5, <1>6
<1>8. Fine(q)
  BY <1>1, <1>3, <1>5, <1>7 DEF Fine, Carrying
<1>9. Becomes(t, q)
  BY <1>4 DEF Answer
<1> QED
  BY <1>5, <1>8, <1>9, QuietStep DEF Answer, status

(* A further attempt is the same request.                                  *)
LEMMA RetryKeepsInv ==
  ASSUME IInv, NEW t \in Thread, Retry(t)
  PROVE  IInv'
<1> DEFINE r == request[t]
<1>1. r \in Request /\ Fine(r) /\ r.at = "calling"
  BY RequestFields DEF Retry, At
<1>2. r.try + 1 \in 0..MaxRetries
  BY RequestFields, MarketAssumption DEF Retry, MayRetry
<1>3. PICK q : q = [r EXCEPT !.try = @ + 1]
  OBVIOUS
<1>4. /\ q \in Request /\ q.at = "calling" /\ q.via = r.via
      /\ q.asked = r.asked /\ q.row = r.row
  BY <1>1, <1>2, <1>3 DEF Request
<1>5. Fine(q)
  BY <1>1, <1>4 DEF Fine, Carrying
<1>6. Becomes(t, q)
  BY <1>3 DEF Retry
<1> QED
  BY <1>4, <1>5, <1>6, QuietStep DEF Retry, status

(* A failure carries nothing on.                                           *)
LEMMA FailureKeepsInv ==
  ASSUME IInv, NEW t \in Thread, Failure(t)
  PROVE  IInv'
<1> DEFINE r == request[t]
<1>1. r \in Request /\ Fine(r) /\ r.at = "calling"
  BY RequestFields DEF Failure, At
<1>2. PICK q : q = [r EXCEPT !.at = "falling"]
  OBVIOUS
<1>3. /\ q \in Request /\ q.at = "falling" /\ q.via = r.via
      /\ q.asked = r.asked /\ q.row = r.row
  BY <1>1, <1>2 DEF Request, Place
<1>4. Fine(q)
  BY <1>1, <1>3 DEF Fine, Carrying
<1>5. Becomes(t, q)
  BY <1>2 DEF Failure, Goes
<1> QED
  BY <1>3, <1>4, <1>5, QuietStep DEF Failure

(* What observe returns is what it saw.                                    *)
LEMMA ReturnedIs ==
  ASSUME NEW t, NEW q \in Request
  PROVE  /\ Returned(t, q) \in Request /\ Returned(t, q).at \in {"recording", "answered"}
         /\ Returned(t, q).asked = q.asked /\ Returned(t, q).seen = q.seen
         /\ Returned(t, q).via = q.via /\ Returned(t, q).row \in {q.row, NoObservation}
<1>1. CASE t \in Valuing /\ ~ReadOnly
  BY <1>1 DEF Returned, Request, Place
<1>2. CASE ~(t \in Valuing /\ ~ReadOnly)
  <2>1. 0 \in 0..MaxRetries
    BY MarketAssumption
  <2> QED
    BY <1>2, <2>1 DEF Returned, Request, Place
<1> QED
  BY <1>1, <1>2

(* The row is offered as it was stored, or nothing is.                     *)
LEMMA RefusalIs ==
  ASSUME IInv, NEW t \in Thread, At(t, "falling")
  PROVE  /\ Refusal(t) \in Request /\ Fine(Refusal(t))
         /\ Refusal(t).at \in {"refused", "answered"}
<1> DEFINE r == request[t]
<1>1. r \in Request /\ Fine(r) /\ r.at = "falling" /\ 0 \in 0..MaxRetries
  BY RequestFields, MarketAssumption DEF At
<1>2. CASE r.row = NoObservation
  <2>1. PICK q : q = [r EXCEPT !.at = "refused", !.try = 0]
    OBVIOUS
  <2>2. /\ q \in Request /\ q.at = "refused" /\ q.via = r.via
        /\ q.asked = r.asked /\ q.row = r.row
    BY <1>1, <2>1 DEF Request, Place
  <2>3. Fine(q)
    BY <1>1, <2>2 DEF Fine, Carrying
  <2> QED
    BY <1>2, <2>1, <2>2, <2>3 DEF Refusal
<1>3. CASE r.row # NoObservation
  <2>1. r.row \in Observation /\ Holds(r.row)
    BY <1>1, <1>3 DEF Request, Fine
  <2>2. PICK q : q = [r EXCEPT !.at = "answered", !.seen = r.row, !.via = "persisted",
                               !.row = NoObservation, !.try = 0]
    OBVIOUS
  <2>3. /\ q \in Request /\ q.at = "answered" /\ q.via = "persisted"
        /\ q.asked = r.asked /\ q.row = NoObservation /\ q.seen = r.row
    BY <1>1, <2>1, <2>2 DEF Request, Place
  <2>4. Fine(q)
    BY <1>1, <2>1, <2>3 DEF Fine, Carrying
  <2> QED
    BY <1>3, <2>2, <2>3, <2>4 DEF Refusal
<1> QED
  BY <1>2, <1>3

(* The fallback answers with a synthetic price if the policy says so, with *)
(* the entry of the cache marked for its age, or not at all.               *)
LEMMA FallBackKeepsInv ==
  ASSUME IInv, NEW t \in Thread, FallBack(t)
  PROVE  IInv'
<1> DEFINE r == request[t]
           good == cache[r.symbol]
<1>1. r \in Request /\ Fine(r) /\ r.at = "falling" /\ r.symbol \in Symbol
  BY RequestFields DEF FallBack, At
<1>2. At(t, "falling")
  BY DEF FallBack
<1>3. UNCHANGED <<now, closes, settings, cache, last, degraded, persisted>>
  BY DEF FallBack, status
<1>4. SUFFICES \E q \in Request : Fine(q) /\ Becomes(t, q)
  BY <1>3, QuietStep
<1>5. CASE settings.policy = "explicit_simulator"
  <2> DEFINE o == Quote("simulator", now)
  <2>1. o \in Observation /\ Holds(o) /\ o.source = "simulator"
    BY Numbers, QuoteIs DEF IInv
  <2>2. PICK q : q = [r EXCEPT !.at = "keeping", !.seen = o, !.via = "fallback"]
    OBVIOUS
  <2>3. /\ q \in Request /\ q.at = "keeping" /\ q.seen = o /\ q.via = "fallback"
        /\ q.asked = r.asked /\ q.row = r.row
    BY <1>1, <2>1, <2>2 DEF Request, Place
  <2>4. Fine(q)
    BY <1>1, <1>5, <2>1, <2>3 DEF Fine, Carrying
  <2>5. Becomes(t, q)
    BY <1>5, <2>2 DEF FallBack
  <2> QED
    BY <2>3, <2>4, <2>5
<1>6. CASE settings.policy = "last_known_good" /\ good # NoObservation
  <2> DEFINE o == Stamped(good)
  <2>1. good \in Observation /\ Kept(good)
    BY <1>1, <1>6 DEF IInv, TypeOK, CacheInv
  <2>2. /\ o \in Observation /\ Kept(o) /\ o.close = good.close
        /\ ~o.stale => now <= o.close + Freshness
    BY <2>1, StampedIs, StampedHolds DEF IInv
  <2>3. PICK p : p = [r EXCEPT !.seen = o, !.via = "last_good"]
    OBVIOUS
  <2>4. /\ p \in Request /\ p.seen = o /\ p.via = "last_good"
        /\ p.asked = r.asked /\ p.row = r.row
    BY <1>1, <2>2, <2>3 DEF Request
  <2>5. PICK q : q = Returned(t, p)
    OBVIOUS
  <2>6. /\ q \in Request /\ q.at \in {"recording", "answered"} /\ q.seen = o
        /\ q.via = "last_good" /\ q.asked = r.asked /\ q.row \in {r.row, NoObservation}
    BY <2>4, <2>5, ReturnedIs
  <2>7. o.source = "massive" \/ settings.mode # "end_of_day"
    BY <1>6, <2>2 DEF Kept, RealOnly
  <2>8. ~o.stale => q.asked <= o.close + Freshness
    <3>1. /\ now \in Nat /\ o.close \in Nat /\ Freshness \in Nat
          /\ r.asked \in Nat /\ r.asked <= now
      BY <1>1, <2>2, Numbers, RequestFields, MarketAssumption DEF IInv, Fine, Time
    <3> QED
      BY <3>1, <2>2, <2>6
  <2>9. Fine(q)
    BY <1>1, <2>2, <2>6, <2>7, <2>8 DEF Fine, Carrying, Kept
  <2>10. Becomes(t, q)
    BY <1>6, <2>3, <2>5 DEF FallBack
  <2> QED
    BY <2>6, <2>9, <2>10
<1>7. CASE /\ settings.policy # "explicit_simulator"
           /\ ~(settings.policy = "last_known_good" /\ good # NoObservation)
  <2>1. PICK q : q = Refusal(t)
    OBVIOUS
  <2>2. Becomes(t, q)
    BY <1>7, <2>1 DEF FallBack
  <2> QED
    BY <1>2, <2>1, <2>2, RefusalIs
<1> QED
  BY <1>5, <1>6, <1>7

(* A valuation writes what it answers.                                     *)
LEMMA RecordKeepsInv ==
  ASSUME IInv, NEW t \in Thread, Record(t)
  PROVE  IInv'
<1> DEFINE r == request[t]
<1>1. /\ r \in Request /\ Fine(r) /\ r.at = "recording" /\ r.symbol \in Symbol
      /\ 0 \in 0..MaxRetries
  BY RequestFields, MarketAssumption DEF Record, At
<1>2. r.seen \in Observation /\ Holds(r.seen)
  BY <1>1 DEF Fine, Carrying
<1>3. PICK q : q = [r EXCEPT !.at = "answered", !.row = NoObservation, !.try = 0]
  OBVIOUS
<1>4. /\ q \in Request /\ q.at = "answered" /\ q.seen = r.seen /\ q.via = r.via
      /\ q.asked = r.asked /\ q.row = NoObservation
  BY <1>1, <1>3 DEF Request, Place
<1>5. Fine(q)
  BY <1>1, <1>4 DEF Fine, Carrying
<1>6. Becomes(t, q) /\ persisted' = [persisted EXCEPT ![r.symbol] = r.seen]
  BY <1>3 DEF Record, At
<1> QED
  BY <1>1, <1>2, <1>4, <1>5, <1>6, QuietStep DEF Record, status

(* _success keeps what the request carries, marked for its age.            *)
LEMMA KeepKeepsInv ==
  ASSUME IInv, NEW t \in Thread, Keep(t)
  PROVE  IInv'
<1> DEFINE r == request[t]
<1>0. PICK o : o = Stamped(r.seen)
  OBVIOUS
<1>1. r \in Request /\ Fine(r) /\ r.at = "keeping" /\ r.symbol \in Symbol
  BY RequestFields DEF Keep, At
<1>2. /\ r.seen \in Observation /\ Holds(r.seen)
      /\ settings.mode = "end_of_day" /\ r.seen.source = "simulator" =>
           r.via = "fallback" /\ settings.policy = "explicit_simulator"
      /\ r.via \in {"cache", "provider"} => r.asked <= r.seen.retrieved + settings.ttl
  BY <1>1 DEF Fine, Carrying
<1>3. /\ o \in Observation /\ Holds(o) /\ o.source = r.seen.source
      /\ o.retrieved = r.seen.retrieved
      /\ ~o.stale => now <= o.close + Freshness
  BY <1>0, <1>2, StampedIs, StampedHolds DEF IInv
<1>4. o.source \in {"massive", "simulator"}
  BY <1>3 DEF Observation
<1>5. Kept(o)
  BY <1>2, <1>3, <1>4 DEF Kept, RealOnly
<1>6. \E s \in Symbol, x \in Observation : Kept(x) /\ cache' = [cache EXCEPT ![s] = x]
  BY <1>0, <1>1, <1>3, <1>5 DEF Keep
<1>7. PICK q : q = [r EXCEPT !.at = "settling", !.seen = o]
  OBVIOUS
<1>8. /\ q \in Request /\ q.at = "settling" /\ q.seen = o /\ q.via = r.via
      /\ q.asked = r.asked /\ q.row = r.row
  BY <1>1, <1>3, <1>7 DEF Request, Place
<1>9. ~o.stale => q.asked <= o.close + Freshness
  <2>1. /\ now \in Nat /\ o.close \in Nat /\ Freshness \in Nat
        /\ r.asked \in Nat /\ r.asked <= now
    BY <1>1, <1>3, Numbers, RequestFields, MarketAssumption DEF IInv, Fine, Time
  <2> QED
    BY <2>1, <1>3, <1>8
<1>10. Fine(q)
  BY <1>1, <1>2, <1>3, <1>8, <1>9 DEF Fine, Carrying
<1>11. Becomes(t, q) /\ last' = o.source
  BY <1>0, <1>7 DEF Keep
<1> QED
  BY <1>4, <1>6, <1>8, <1>10, <1>11, QuietStep DEF Keep

(* The second assignment: the request goes on as it is.                    *)
LEMMA SettleKeepsInv ==
  ASSUME IInv, NEW t \in Thread, Settle(t)
  PROVE  IInv'
<1> DEFINE r == request[t]
<1>1. r \in Request /\ Fine(r) /\ r.at = "settling"
  BY RequestFields DEF Settle, At
<1>2. PICK q : q = Returned(t, r)
  OBVIOUS
<1>3. /\ q \in Request /\ q.at \in {"recording", "answered"} /\ q.seen = r.seen
      /\ q.via = r.via /\ q.asked = r.asked /\ q.row \in {r.row, NoObservation}
  BY <1>1, <1>2, ReturnedIs
<1>4. Fine(q)
  BY <1>1, <1>3 DEF Fine, Carrying
<1>5. Becomes(t, q)
  BY <1>2 DEF Settle
<1>6. degraded' \in BOOLEAN
  BY DEF Settle, SettlesDegraded
<1> QED
  BY <1>3, <1>4, <1>5, <1>6, QuietStep DEF Settle

(* A new close is later than anything retrieved before it.                 *)
LEMMA TickKeepsInv ==
  ASSUME IInv, Tick
  PROVE  IInv'
<1>1. /\ now \in Nat /\ now' = now + 1 /\ now' \in Time
      /\ closes \subseteq closes' /\ closes' \subseteq closes \cup {now'}
      /\ UNCHANGED <<settings, cache, last, degraded, persisted, request>>
  BY Numbers, MarketAssumption DEF IInv, TypeOK, Tick, Time, status
<1>2. closes \subseteq 0..now /\ closes' \subseteq 0..now'
  BY <1>1 DEF IInv, TypeOK
<1>3. \A o \in Observation : Holds(o) => Holds(o)'
  <2> SUFFICES ASSUME NEW o \in Observation, Holds(o)
               PROVE  Holds(o)'
    OBVIOUS
  <2>1. o.retrieved \in Nat /\ o.retrieved <= now
    BY Numbers DEF IInv, Holds
  <2>2. \A c \in closes' : c <= o.retrieved => c \in closes
    BY <1>1, <1>2, <2>1
  <2> QED
    BY <1>1, <2>1, <2>2 DEF Holds
<1>4. ClosesInv'
  <2> SUFFICES ASSUME NEW r \in 0..now'
               PROVE  \E c \in closes' : c <= r /\ \A d \in closes' : d <= r => d <= c
    BY DEF ClosesInv
  <2>1. CASE r \in 0..now
    <3>1. PICK c \in closes : c <= r /\ \A d \in closes : d <= r => d <= c
      BY <2>1 DEF IInv, ClosesInv
    <3>2. \A d \in closes' : d <= r => d \in closes
      BY <1>1, <1>2, <2>1
    <3> QED
      BY <1>1, <3>1, <3>2
  <2>2. CASE r = now' /\ now' \in closes'
    <3>1. now' <= r /\ \A d \in closes' : d <= r => d <= now'
      BY <2>2, <1>1, <1>2
    <3> QED
      BY <2>2, <3>1
  <2>3. CASE r = now' /\ now' \notin closes'
    <3>1. closes' = closes
      BY <1>1, <2>3
    <3>2. PICK c \in closes : c <= now /\ \A d \in closes : d <= now => d <= c
      BY <1>1 DEF IInv, ClosesInv
    <3> QED
      BY <1>1, <1>2, <2>3, <3>1, <3>2
  <2> QED
    BY <1>1, <2>1, <2>2, <2>3
<1>5. CacheInv' /\ PersistedInv'
  BY <1>1, <1>3 DEF IInv, TypeOK, CacheInv, PersistedInv, Kept, RealOnly
<1>6. RequestInv'
  <2> SUFFICES ASSUME NEW t \in Thread
               PROVE  Fine(request[t])'
    BY DEF RequestInv
  <2>1. Fine(request[t]) /\ request[t].asked \in Nat
    BY RequestFields, MarketAssumption DEF Time
  <2>2. request[t].asked <= now + 1
    BY <1>1, <2>1 DEF Fine
  <2>3. request[t].row # NoObservation => request[t].row \in Observation
    BY RequestFields
  <2> QED
    BY <1>1, <1>3, <2>1, <2>2, <2>3 DEF Fine
<1>7. TypeOK'
  BY <1>1, <1>2 DEF IInv, TypeOK
<1> QED
  BY <1>4, <1>5, <1>6, <1>7 DEF IInv

-----------------------------------------------------------------------------
(* The theorems                                                            *)

(* The first state: one close, nothing cached, recorded or under way.      *)
LEMMA InitIsSound == Init => IInv
<1> SUFFICES ASSUME Init
             PROVE  IInv
  OBVIOUS
<1>1. 0 \in Time /\ 0 \in 0..MaxRetries
  BY MarketAssumption DEF Time
<1>2. PICK s \in Symbol : request = [t \in Thread |-> [Asking(t, s) EXCEPT !.at = "idle"]]
  BY DEF Init
<1>3. \A t \in Thread : /\ request[t] \in Request /\ request[t].at = "idle"
                        /\ request[t].asked = now /\ request[t].row = NoObservation
                        /\ request[t].via = "none"
  BY <1>1, <1>2 DEF Init, Asking, Request, Place
<1>4. request \in [Thread -> Request]
  BY <1>2, <1>3
<1>5. TypeOK
  <2>1. now \in Time /\ closes \subseteq 0..now
    BY <1>1 DEF Init
  <2>2. /\ cache \in [Symbol -> Observation \cup {NoObservation}]
        /\ persisted \in [Symbol -> Observation \cup {NoObservation}]
    BY DEF Init
  <2> QED
    BY <1>4, <2>1, <2>2 DEF Init, TypeOK
<1>6. ClosesInv
  <2>1. \A r \in 0..now : 0 <= r /\ \A d \in closes : d <= r => d <= 0
    BY DEF Init
  <2> QED
    BY <2>1 DEF Init, ClosesInv
<1>7. RequestInv
  BY <1>3, <1>5, Numbers DEF RequestInv, Fine, Carrying
<1>8. CacheInv /\ PersistedInv
  BY DEF Init, CacheInv, PersistedInv
<1> QED
  BY <1>5, <1>6, <1>7, <1>8 DEF IInv

(* Every step of the service keeps the invariant.                          *)
LEMMA NextIsSound == IInv /\ [Next]_vars => IInv'
<1> SUFFICES ASSUME IInv, [Next]_vars
             PROVE  IInv'
  OBVIOUS
<1>1. CASE \E t \in Thread : Begin(t)
  BY <1>1, BeginKeepsInv
<1>2. ASSUME NEW t \in Thread, Step(t)
      PROVE  IInv'
  <2>1. CASE Prime(t)
    BY <2>1, PrimeKeepsInv
  <2>2. CASE LookUp(t)
    BY <2>2, LookUpKeepsInv
  <2>3. CASE Answer(t)
    BY <2>3, AnswerKeepsInv
  <2>4. CASE Retry(t)
    BY <2>4, RetryKeepsInv
  <2>5. CASE Failure(t)
    BY <2>5, FailureKeepsInv
  <2>6. CASE Keep(t)
    BY <2>6, KeepKeepsInv
  <2>7. CASE Settle(t)
    BY <2>7, SettleKeepsInv
  <2>8. CASE FallBack(t)
    BY <2>8, FallBackKeepsInv
  <2>9. CASE Record(t)
    BY <2>9, RecordKeepsInv
  <2> QED
    BY <1>2, <2>1, <2>2, <2>3, <2>4, <2>5, <2>6, <2>7, <2>8, <2>9 DEF Step
<1>3. CASE Tick
  BY <1>3, TickKeepsInv
<1>4. CASE UNCHANGED vars
  BY <1>4 DEF vars, status, IInv, TypeOK, ClosesInv, CacheInv, PersistedInv, RequestInv,
              Kept, Holds, RealOnly, Fine
<1> QED
  BY <1>1, <1>2, <1>3, <1>4 DEF Next

(* So it holds throughout.                                                 *)
LEMMA ServiceIsSound == Spec => []IInv
BY InitIsSound, NextIsSound, PTL DEF Spec

(* The fields keep their types; the attempts stay within the retries.      *)
THEOREM TypeIsSound == Spec => []TypeOK
<1>1. IInv => TypeOK
  BY DEF IInv
<1> QED
  BY <1>1, ServiceIsSound, PTL

(* No price of the provider is older than the close of one TTL before the  *)
(* request, whoever wrote the cache, and in whatever order.                *)
THEOREM RecentClosesAreServed == Spec => []ServesRecentClose
<1>1. IInv => ServesRecentClose
  <2> SUFFICES ASSUME IInv, NEW t \in Thread, At(t, "answered"),
                      request[t].via \in {"cache", "provider"},
                      request[t].seen.source = "massive",
                      NEW c \in closes, c + settings.ttl <= request[t].asked
               PROVE  c <= request[t].seen.close
    BY DEF ServesRecentClose
  <2> DEFINE q == request[t]
  <2>1. /\ q.seen \in Observation /\ Holds(q.seen)
        /\ q.asked <= q.seen.retrieved + settings.ttl
    BY RequestFields DEF Fine, Carrying, At
  <2>2. /\ q.asked \in Nat /\ q.seen.retrieved \in Nat /\ settings.ttl \in Nat
    BY <2>1, RequestFields, Numbers, MarketAssumption DEF IInv, Time
  <2>3. c \in Nat
    BY Numbers DEF IInv, TypeOK
  <2>4. c <= q.seen.retrieved
    BY <2>1, <2>2, <2>3
  <2> QED
    BY <2>1, <2>4 DEF Holds
<1> QED
  BY <1>1, ServiceIsSound, PTL

(* An answer of the service that was stale when asked for says so.         *)
THEOREM StaleIsAlwaysSaid == Spec => []StaleIsSaid
<1>1. IInv => StaleIsSaid
  BY RequestFields DEF StaleIsSaid, Fine, Carrying, At
<1> QED
  BY <1>1, ServiceIsSound, PTL

(* A synthetic price is the answer of the service to a failure of this     *)
(* very request, under the policy that asks for it, or of the table.       *)
THEOREM SyntheticIsExcused == Spec => []SyntheticNeedsFailure
<1>1. IInv => SyntheticNeedsFailure
  BY RequestFields DEF SyntheticNeedsFailure, Fine, Carrying, At
<1> QED
  BY <1>1, ServiceIsSound, PTL
=============================================================================
