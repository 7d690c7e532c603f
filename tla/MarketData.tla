------------------------------ MODULE MarketData ------------------------------
(***************************************************************************)
(* The market-data service of one process (backend/market): the threads of *)
(* the API, or of a trader process, observe prices through one shared      *)
(* MarketService with its cache, its status and its fallback policy, and   *)
(* the API values holdings on top of it, with the market_observations      *)
(* table of the database as its own fallback (holdings_detail). A thread   *)
(* may be switched between two assignments to shared fields. Prices are    *)
(* left out: a close is its market_timestamp.                              *)
(***************************************************************************)
EXTENDS Naturals

CONSTANTS
  Thread, Symbol,
  Valuing,      (* the threads that value holdings; the others just observe *)
  MaxTime,      (* bound of the model: the last instant of its clock       *)
  Freshness,    (* freshness_threshold_seconds                             *)
  CacheTTL,     (* the cache_ttl_seconds to try; 0 turns the cache off     *)
  MaxRetries,   (* MARKET_DATA_MAX_RETRIES                                 *)
  ReadOnly,     (* the API of the demo writes no observations              *)
  NoObservation

Time == 0..MaxTime
Observation == [close : Time, retrieved : Time, source : {"massive", "simulator"},
                stale : BOOLEAN]

(* MarketSettings.validate_capabilities: a fallback only for end_of_day.   *)
Settings ==
  {s \in [mode : {"end_of_day", "simulated"}, ttl : CacheTTL,
          policy : {"fail_closed", "explicit_simulator", "last_known_good"}] :
     s.mode = "simulated" => s.policy = "fail_closed"}

ASSUME MarketAssumption ==
  /\ MaxTime \in Nat /\ Freshness \in Nat \ {0} /\ MaxRetries \in Nat
  /\ Valuing \subseteq Thread /\ CacheTTL \subseteq Nat /\ ReadOnly \in BOOLEAN
  /\ NoObservation \notin Observation

VARIABLES
  now,        (* the clock of the machine                                  *)
  closes,     (* the closes published so far, by their timestamps          *)
  settings,
  cache,      (* _last_good_by_symbol                                      *)
  last,       (* the source of _last_success                               *)
  degraded,   (* _degraded                                                 *)
  persisted,  (* the latest recorded row of market_observations per symbol *)
  request     (* what each thread is doing                                 *)

status == <<last, degraded>>
vars == <<now, closes, settings, cache, status, persisted, request>>

Place == {"idle", "priming", "looking", "calling", "keeping", "settling",
          "falling", "recording", "answered", "refused"}

(* A request: when it was made, the persisted row it read, the attempt, the *)
(* observation and its origin.                                             *)
Request == [at : Place, symbol : Symbol, asked : Time,
            row : Observation \cup {NoObservation}, try : 0..MaxRetries,
            seen : Observation \cup {NoObservation},
            via : {"none", "cache", "provider", "fallback", "last_good", "persisted"}]

Asking(t, s) ==
  [at |-> IF t \in Valuing THEN "priming" ELSE "looking", symbol |-> s, asked |-> now,
   row |-> NoObservation, try |-> 0, seen |-> NoObservation, via |-> "none"]

Init ==
  /\ now = 0 /\ closes = {0} /\ settings \in Settings
  /\ cache = [s \in Symbol |-> NoObservation]
  /\ last = "none" /\ degraded = FALSE
  /\ persisted = [s \in Symbol |-> NoObservation]
  /\ request \in {[t \in Thread |-> [Asking(t, s) EXCEPT !.at = "idle"]] : s \in Symbol}

At(t, place) == request[t].at = place

(* The thread goes on with its request changed to r.                       *)
Becomes(t, r) == request' = [request EXCEPT ![t] = r]
Goes(t, place) == Becomes(t, [request[t] EXCEPT !.at = place])

-----------------------------------------------------------------------------
(* Providers                                                               *)

ProviderSource == IF settings.mode = "simulated" THEN "simulator" ELSE "massive"

LastClose(time) == CHOOSE c \in closes : c <= time /\ \A d \in closes : d <= time => d <= c

(* The answer of a provider at a time: the previous close, or a synthetic  *)
(* price.                                                                  *)
Quote(source, time) ==
  [close |-> IF source = "massive" THEN LastClose(time) ELSE time, retrieved |-> time,
   source |-> source, stale |-> FALSE]

(* Defect: the age is that of the request, not that of the close.          *)
StampedByRetrieval(o) == [o EXCEPT !.stale = now - o.retrieved > Freshness]

(* Defect: a use of an observation renews it.                              *)
StampedAnew(o) == [o EXCEPT !.stale = now - o.close > Freshness, !.retrieved = now]

(* _with_freshness                                                         *)
Stamped(o) == [o EXCEPT !.stale = now - o.close > Freshness]

(* Defect: the source of the observation is not looked at.                 *)
UsableAnySource(o) ==
  /\ settings.mode = "end_of_day" /\ settings.ttl > 0
  /\ now - o.retrieved <= settings.ttl

(* The rule of _cached_observation and of prime_cache.                     *)
Usable(o) ==
  /\ settings.mode = "end_of_day" /\ settings.ttl > 0
  /\ o.source = ProviderSource
  /\ now - o.retrieved <= settings.ttl

-----------------------------------------------------------------------------
(* holdings_detail, before it observes                                     *)

Begin(t) ==
  /\ request[t].at \in {"idle", "answered", "refused"}
  /\ \E s \in Symbol : Becomes(t, Asking(t, s))
  /\ UNCHANGED <<now, closes, settings, cache, status, persisted>>

(* What processes with caches of their own may have recorded: it may be    *)
(* older than the row before it, and synthetic.                            *)
RecordedElsewhere == {Quote(source, r) : source \in {"massive", "simulator"}, r \in 0..now}

(* read_latest_market_observation. The table has no other reader here, so  *)
(* what other processes record is recorded in the model when it is read.   *)
Readable(s) == {persisted[s]} \cup RecordedElsewhere

(* prime_cache asks nothing of what the cache holds.                       *)
Primed(s, row) ==
  IF row # NoObservation /\ Usable(row) THEN [cache EXCEPT ![s] = Stamped(row)] ELSE cache

Prime(t) ==
  /\ At(t, "priming")
  /\ LET s == request[t].symbol IN
       \E row \in Readable(s) :
         /\ persisted' = [persisted EXCEPT ![s] = row]
         /\ cache' = Primed(s, row)
         /\ Becomes(t, [request[t] EXCEPT !.at = "looking", !.row = row])
  /\ UNCHANGED <<now, closes, settings, status>>

-----------------------------------------------------------------------------
(* observe                                                                 *)

LookUp(t) ==
  /\ At(t, "looking")
  /\ LET o == cache[request[t].symbol] IN
       IF o # NoObservation /\ Usable(o)
       THEN Becomes(t, [request[t] EXCEPT !.at = "keeping", !.seen = o, !.via = "cache"])
       ELSE Goes(t, "calling")
  /\ UNCHANGED <<now, closes, settings, cache, status, persisted>>

(* The provider answers; MassiveEodProvider reads the clock last.          *)
Answer(t) ==
  /\ At(t, "calling")
  /\ Becomes(t, [request[t] EXCEPT !.at = "keeping", !.seen = Quote(ProviderSource, now),
                                   !.via = "provider"])
  /\ UNCHANGED <<now, closes, settings, cache, status, persisted>>

(* Defect: one attempt too many.                                           *)
MayRetryOnceMore(t) == request[t].try <= MaxRetries

MayRetry(t) == request[t].try < MaxRetries

(* A timeout, a 429 or a 5xx is tried again after a pause.                 *)
Retry(t) ==
  /\ At(t, "calling") /\ settings.mode = "end_of_day" /\ MayRetry(t)
  /\ Becomes(t, [request[t] EXCEPT !.try = @ + 1])
  /\ UNCHANGED <<now, closes, settings, cache, status, persisted>>

(* The last of these, or at any attempt another failure: authentication,   *)
(* entitlement, an empty day, a malformed payload, an invalid observation. *)
Failure(t) ==
  /\ At(t, "calling") /\ settings.mode = "end_of_day"
  /\ degraded' = TRUE
  /\ Goes(t, "falling")
  /\ UNCHANGED <<now, closes, settings, cache, last, persisted>>

(* The end of observe; a valuation writes its observation.                 *)
Returned(t, q) ==
  IF t \in Valuing /\ ~ReadOnly THEN [q EXCEPT !.at = "recording"]
  ELSE [q EXCEPT !.at = "answered", !.row = NoObservation, !.try = 0]

(* _success: the cache and _last_success, then _degraded.                  *)
Keep(t) ==
  /\ At(t, "keeping")
  /\ LET o == Stamped(request[t].seen) IN
       /\ cache' = [cache EXCEPT ![request[t].symbol] = o]
       /\ last' = o.source
       /\ Becomes(t, [request[t] EXCEPT !.at = "settling", !.seen = o])
  /\ UNCHANGED <<now, closes, settings, degraded, persisted>>

SettlesDegraded(t) == request[t].via = "fallback"

Settle(t) ==
  /\ At(t, "settling")
  /\ degraded' = SettlesDegraded(t)
  /\ Becomes(t, Returned(t, request[t]))
  /\ UNCHANGED <<now, closes, settings, cache, last, persisted>>

(* What the request gets when the service raises MarketDataError: nothing, *)
(* or, in a valuation, the row it read before, as it was stored.           *)
Refusal(t) ==
  IF request[t].row = NoObservation
  THEN [request[t] EXCEPT !.at = "refused", !.try = 0]
  ELSE [request[t] EXCEPT !.at = "answered", !.seen = request[t].row, !.via = "persisted",
                          !.row = NoObservation, !.try = 0]

FallBack(t) ==
  /\ At(t, "falling")
  /\ LET good == cache[request[t].symbol] IN
       CASE settings.policy = "explicit_simulator" ->
              Becomes(t, [request[t] EXCEPT !.at = "keeping", !.seen = Quote("simulator", now),
                                            !.via = "fallback"])
         [] settings.policy = "last_known_good" /\ good # NoObservation ->
              Becomes(t, Returned(t, [request[t] EXCEPT !.seen = Stamped(good),
                                                        !.via = "last_good"]))
         [] OTHER -> Becomes(t, Refusal(t))
  /\ UNCHANGED <<now, closes, settings, cache, status, persisted>>

(* write_market_observation                                                *)
Record(t) ==
  /\ At(t, "recording")
  /\ persisted' = [persisted EXCEPT ![request[t].symbol] = request[t].seen]
  /\ Becomes(t, [request[t] EXCEPT !.at = "answered", !.row = NoObservation, !.try = 0])
  /\ UNCHANGED <<now, closes, settings, cache, status>>

-----------------------------------------------------------------------------
(* The world                                                               *)

(* Time passes; a trading day may end.                                     *)
Tick ==
  /\ now < MaxTime /\ now' = now + 1
  /\ closes' \in {closes, closes \cup {now'}}
  /\ UNCHANGED <<settings, cache, status, persisted, request>>

Step(t) ==
  \/ Prime(t) \/ LookUp(t)
  \/ Answer(t) \/ Retry(t) \/ Failure(t)
  \/ Keep(t) \/ Settle(t)
  \/ FallBack(t) \/ Record(t)

Next ==
  \/ \E t \in Thread : Begin(t) \/ Step(t)
  \/ Tick

Spec == Init /\ [][Next]_vars

-----------------------------------------------------------------------------
(* Properties                                                              *)

TypeOK ==
  /\ now \in Time /\ closes \subseteq 0..now /\ settings \in Settings
  /\ cache \in [Symbol -> Observation \cup {NoObservation}]
  /\ last \in {"none", "massive", "simulator"}
  /\ degraded \in BOOLEAN
  /\ persisted \in [Symbol -> Observation \cup {NoObservation}]
  /\ request \in [Thread -> Request]

(* In whatever order the threads and prime_cache write the cache, a real   *)
(* price from it or from the provider is at least the close that was the   *)
(* latest one TTL before the request: "a new provider request is made      *)
(* after expiry" (README), however often the entry was used or replaced.   *)
ServesRecentClose ==
  \A t \in Thread : LET q == request[t] IN
    At(t, "answered") /\ q.via \in {"cache", "provider"} /\ q.seen.source = "massive" =>
      \A c \in closes : c + settings.ttl <= q.asked => c <= q.seen.close

(* An answer that does not say it is stale was fresh when it was asked     *)
(* for, also out of the cache and as last known good. The exception is the *)
(* persisted row of holdings_detail: its flag is the one it was stored     *)
(* with, whatever its age is now.                                          *)
StaleIsSaid ==
  \A t \in Thread : LET q == request[t] IN
    At(t, "answered") /\ q.via # "persisted" /\ ~q.seen.stale =>
      q.asked <= q.seen.close + Freshness

(* Under end_of_day the service itself answers with a synthetic price only *)
(* when the provider failed this very request and the policy says so:      *)
(* neither the fallback nor another process puts one in the way of a real  *)
(* price ("never presents synthetic data as market data", build-plan.md).  *)
SyntheticNeedsFailure ==
  settings.mode = "end_of_day" =>
    \A t \in Thread : LET q == request[t] IN
      At(t, "answered") /\ q.seen.source = "simulator" =>
        \/ q.via = "fallback" /\ settings.policy = "explicit_simulator"
        \/ q.via = "persisted"
=============================================================================
