--------------------------- MODULE ListingProofs ----------------------------
(***************************************************************************)
(* The listing in our own database and the copies of it that the           *)
(* marketplaces have. Each component is proved about by itself; they share *)
(* the module and no state.                                                *)
(***************************************************************************)
EXTENDS Catalogue, Marketplaces, FiniteSetTheorems, TLAPS

-----------------------------------------------------------------------------
(***************************************************************************)
(* Catalogue for any number of images, requests and failures: the breaker  *)
(* of RedisService has a timer whenever it is open, a search that is lost  *)
(* after its answer is lost for a known reason, an analysis stays in its   *)
(* listing, and the cached copies are those of the row. The first two do   *)
(* not depend on the listings, nor the last two on anything else.          *)
(***************************************************************************)

\* The counters; the bound of the model is theirs, too.
Counters ==
    /\ requests \in 0 .. MaxRequests
    /\ redis \in [failures : Nat, isOpen : BOOLEAN]
    /\ timers \in Nat /\ intervals \in Nat /\ failed \in Nat
    /\ early \in BOOLEAN
    /\ requests + failed + intervals <= MaxEvents
    /\ redis.failures <= failed /\ timers <= failed

\* What is known of a search: its answer comes before its place in the cache.
Tracked(s, n) ==
    /\ s \in Search
    /\ s.stage \in {"fire", "searching"} => ~ s.answered
    /\ s.stage = "failed" /\ s.answered =>
        \/ s.params = "long" /\ s.refused = "key"
        \/ s.refused = "exec"
        \/ s.refused = "open" /\ n >= THRESHOLD

SearchInv ==
    /\ found \subseteq Params /\ breaker \in BreakerState
    /\ DOMAIN search \subseteq 1 .. requests
    /\ \A r \in DOMAIN search : Tracked(search[r], failed)

\* The inductive invariant of RedisService and SearchService.
RInv == Counters /\ BreakerTimed /\ SearchInv

LEMMA RInit == CatalogueInit => RInv
  <1> SUFFICES ASSUME CatalogueInit PROVE RInv
    OBVIOUS
  <1>1. Counters
    <2>1. /\ requests = 0 /\ timers = 0 /\ intervals = 0 /\ failed = 0
          /\ redis = [failures |-> 0, isOpen |-> FALSE] /\ early = FALSE
      BY DEF CatalogueInit
    <2>2. redis \in [failures : Nat, isOpen : BOOLEAN] /\ redis.failures = 0
      BY <2>1
    <2>3. early \in BOOLEAN
      BY <2>1
    <2>4. 0 + 0 + 0 <= MaxEvents /\ 0 \in 0 .. MaxRequests
      BY CatalogueAssumption
    <2> QED BY <2>1, <2>2, <2>3, <2>4 DEF Counters
  <1>2. BreakerTimed
    BY CatalogueAssumption DEF CatalogueInit, BreakerTimed
  <1>3. SearchInv
    BY DEF CatalogueInit, SearchInv, BreakerState
  <1> QED BY <1>1, <1>2, <1>3 DEF RInv

-----------------------------------------------------------------------------
\* RedisService.

LEMMA FailureStep ==
    ASSUME Counters, BreakerTimed, UpdateCircuitBreaker,
           UNCHANGED <<early, intervals, requests>>
    PROVE  Counters' /\ BreakerTimed'
  <1> DEFINE n == redis.failures + 1
  <1>1. n \in Nat /\ n <= failed + 1
    BY DEF Counters
  <1>2. /\ redis' = [failures |-> n, isOpen |-> redis.isOpen \/ n >= THRESHOLD]
        /\ timers' = (IF n >= THRESHOLD THEN timers + 1 ELSE timers)
        /\ failed' = failed + 1 /\ Possible
    BY DEF UpdateCircuitBreaker
  <1>3. redis.isOpen \in BOOLEAN /\ THRESHOLD \in Nat
    BY CatalogueAssumption DEF Counters
  <1>4. Counters'
    BY <1>1, <1>2, <1>3, CatalogueAssumption DEF Counters, Possible
  <1>5. /\ redis'.isOpen <=> redis.isOpen \/ n >= THRESHOLD
        /\ redis'.failures = n /\ early' = early
    BY <1>2
  <1>6. redis.isOpen => n >= THRESHOLD
    BY <1>3 DEF Counters, BreakerTimed
  <1>7. timers \in Nat
    BY DEF Counters
  <1>8. BreakerTimed'
    <2>1. CASE n >= THRESHOLD
      BY <2>1, <1>2, <1>5, <1>7 DEF BreakerTimed
    <2>2. CASE ~ (n >= THRESHOLD)
      BY <2>2, <1>2, <1>5, <1>6, <1>7 DEF BreakerTimed
    <2> QED BY <2>1, <2>2
  <1> QED BY <1>4, <1>8

LEMMA RedisStep ==
    ASSUME Counters, BreakerTimed, UNCHANGED requests,
           ClientError \/ Ready \/ HealthCheckFails \/ TimerFires
    PROVE  Counters' /\ BreakerTimed' /\ failed' >= failed
  <1>1. CASE ClientError \/ HealthCheckFails
    <2>1. UpdateCircuitBreaker /\ UNCHANGED <<early, intervals>>
      BY <1>1 DEF ClientError, HealthCheckFails
    <2> QED BY <2>1, FailureStep DEF UpdateCircuitBreaker, Counters
  <1>2. CASE Ready
    BY <1>2, CatalogueAssumption DEF Ready, Counters, BreakerTimed, Possible
  <1>3. CASE TimerFires
    BY <1>3, CatalogueAssumption DEF TimerFires, Counters, BreakerTimed
  <1> QED BY <1>1, <1>2, <1>3

-----------------------------------------------------------------------------
\* Searches.

\* A request more, for a search or for a listing.
LEMMA RequestStep ==
    ASSUME Counters, BreakerTimed, requests < MaxRequests, Possible,
           requests' = requests + 1, UNCHANGED redisVars
    PROVE  Counters' /\ BreakerTimed'
  BY CatalogueAssumption DEF Counters, BreakerTimed, Possible, redisVars

\* One search moves.
LEMMA SearchMoves ==
    ASSUME SearchInv, NEW r \in DOMAIN search,
           search' = [search EXCEPT ![r] = search'[r]],
           Tracked(search'[r], failed'),
           found' \subseteq Params, breaker' \in BreakerState,
           UNCHANGED <<requests, failed>>
    PROVE  SearchInv'
  <1>1. DOMAIN search' = DOMAIN search
    OBVIOUS
  <1>2. \A q \in DOMAIN search \ {r} : search'[q] = search[q]
    OBVIOUS
  <1>3. \A q \in DOMAIN search \ {r} : Tracked(search'[q], failed')
    BY <1>2 DEF SearchInv, Tracked
  <1> QED BY <1>1, <1>3 DEF SearchInv

LEMMA SearchStep ==
    ASSUME RInv, UNCHANGED redisVars,
           \/ \E p \in Params : SearchListings(p) \/ Expire(p)
           \/ \E r \in Requests : Fire(r) \/ ExecuteSearch(r) \/ Set(r) \/ Exec(r)
           \/ Reset
    PROVE  RInv'
  <1> USE DEF RInv
  <1>0. failed' = failed /\ redis' = redis
    BY DEF redisVars
  <1>1. ASSUME NEW p \in Params, SearchListings(p)
        PROVE  RInv'
    <2>0. PICK stage \in {IF p \in found THEN "done" ELSE "fire", "failed"} :
            New(search, [params |-> p, stage |-> stage,
                         answered |-> FALSE, refused |-> "no"])
      BY <1>1 DEF SearchListings
    <2> DEFINE s == [params |-> p, stage |-> stage, answered |-> FALSE, refused |-> "no"]
    <2>1. /\ requests < MaxRequests /\ Possible /\ requests' = requests + 1
          /\ search' = [r \in DOMAIN search \cup {requests'} |->
                            IF r = requests' THEN s ELSE search[r]]
          /\ UNCHANGED <<found, breaker>>
      BY <1>1, <2>0 DEF SearchListings, New
    <2>2. Tracked(s, failed')
      BY DEF Tracked, Search
    <2>3. requests' \in 1 .. requests' /\ 1 .. requests \subseteq 1 .. requests'
      BY <2>1 DEF Counters
    <2> HIDE DEF s
    <2>4. DOMAIN search' = DOMAIN search \cup {requests'}
      BY <2>1
    <2>5. \A r \in DOMAIN search' : search'[r] = IF r = requests' THEN s ELSE search[r]
      BY <2>1
    <2>6. \A r \in DOMAIN search' : Tracked(search'[r], failed')
      BY <2>2, <2>4, <2>5, <1>0 DEF SearchInv, Tracked
    <2>7. SearchInv'
      BY <2>1, <2>3, <2>4, <2>6 DEF SearchInv
    <2> QED BY <2>1, <2>7, RequestStep
  <1>2. ASSUME NEW p \in Params, Expire(p)
        PROVE  RInv'
    <2>1. UNCHANGED <<requests, search, breaker>> /\ found' \subseteq found
      BY <1>2 DEF Expire
    <2>2. Counters' /\ BreakerTimed'
      BY <2>1 DEF Counters, BreakerTimed, redisVars
    <2>3. SearchInv'
      BY <2>1, <1>0 DEF SearchInv, Tracked
    <2> QED BY <2>2, <2>3
  <1>3. ASSUME NEW r \in Requests, Fire(r) \/ ExecuteSearch(r) \/ Set(r) \/ Exec(r)
        PROVE  RInv'
    <2>1. UNCHANGED requests /\ r \in DOMAIN search
      BY <1>3 DEF Fire, ExecuteSearch, Set, Exec, At
    <2>2. Counters' /\ BreakerTimed'
      BY <2>1 DEF Counters, BreakerTimed, redisVars
    <2>3. search[r] \in Search /\ Tracked(search[r], failed)
      BY <2>1 DEF SearchInv, Tracked
    <2>4. CASE Fire(r)
      <3>1. search[r].stage = "fire"
        BY <2>4 DEF Fire, At
      <3>2. PICK st \in {"searching", "failed"} :
                search' = [search EXCEPT ![r].stage = st]
        BY <2>4 DEF Fire, Goto
      <3>3. found' \subseteq Params /\ breaker' \in BreakerState
        BY <2>4 DEF Fire, SearchInv, OnFire, BreakerState
      <3>4. Tracked(search'[r], failed')
        BY <3>1, <3>2, <2>1, <2>3 DEF Tracked, Search
      <3>5. search' = [search EXCEPT ![r] = search'[r]]
        BY <3>2, <2>1
      <3> QED BY <3>3, <3>4, <3>5, <2>1, <2>2, <1>0, SearchMoves
    <2>5. CASE ExecuteSearch(r)
      <3>1. search[r].stage = "searching"
        BY <2>5 DEF ExecuteSearch, At
      <3>2. \/ search' = [search EXCEPT ![r].stage = "set", ![r].answered = TRUE]
            \/ search' = [search EXCEPT ![r].stage = "failed"]
        BY <2>5 DEF ExecuteSearch, Goto
      <3>3. found' \subseteq Params /\ breaker' \in BreakerState
        BY <2>5 DEF ExecuteSearch, SearchInv, OnFailure, OnSuccess, BreakerState
      <3>4. Tracked(search'[r], failed')
        <4>1. CASE search' = [search EXCEPT ![r].stage = "set", ![r].answered = TRUE]
          <5>1. search'[r] \in Search /\ search'[r].stage = "set"
            BY <4>1, <2>1, <2>3 DEF Search
          <5> QED BY <5>1 DEF Tracked
        <4>2. CASE search' = [search EXCEPT ![r].stage = "failed"]
          BY <4>2, <3>1, <2>1, <2>3 DEF Tracked, Search
        <4> QED BY <3>2, <4>1, <4>2
      <3>5. search' = [search EXCEPT ![r] = search'[r]]
        BY <3>2, <2>1
      <3> QED BY <3>3, <3>4, <3>5, <2>1, <2>2, <1>0, SearchMoves
    <2>6. CASE Set(r)
      <3>1. search[r].stage = "set"
        BY <2>6 DEF Set, At
      <3>2. \/ search' = [search EXCEPT ![r].stage = "exec"]
            \/ /\ search' = [search EXCEPT ![r].stage = "failed", ![r].refused = "open"]
               /\ redis.isOpen
            \/ /\ search' = [search EXCEPT ![r].stage = "failed", ![r].refused = "key"]
               /\ search[r].params = "long"
        BY <2>6 DEF Set, Goto
      <3>3. found' \subseteq Params /\ breaker' \in BreakerState
        BY <2>6 DEF Set, SearchInv
      <3>4. redis.isOpen => failed >= THRESHOLD
        BY CatalogueAssumption DEF Counters, BreakerTimed
      <3>5. Tracked(search'[r], failed')
        <4>1. CASE search' = [search EXCEPT ![r].stage = "exec"]
          BY <4>1, <2>1, <2>3 DEF Tracked, Search
        <4>2. CASE /\ search' = [search EXCEPT ![r].stage = "failed", ![r].refused = "open"]
                   /\ redis.isOpen
          <5>1. search'[r] \in Search /\ search'[r].stage = "failed"
                /\ search'[r].refused = "open"
            BY <4>2, <2>1, <2>3 DEF Search
          <5> QED BY <5>1, <4>2, <3>4, <1>0 DEF Tracked
        <4>3. CASE /\ search' = [search EXCEPT ![r].stage = "failed", ![r].refused = "key"]
                   /\ search[r].params = "long"
          <5>1. search'[r] \in Search /\ search'[r].stage = "failed"
                /\ search'[r].refused = "key" /\ search'[r].params = "long"
            BY <4>3, <2>1, <2>3 DEF Search
          <5> QED BY <5>1 DEF Tracked
        <4> QED BY <3>2, <4>1, <4>2, <4>3
      <3>6. search' = [search EXCEPT ![r] = search'[r]]
        BY <3>2, <2>1
      <3> QED BY <3>3, <3>5, <3>6, <2>1, <2>2, <1>0, SearchMoves
    <2>7. CASE Exec(r)
      <3>1. search[r].stage = "exec"
        BY <2>7 DEF Exec, At
      <3>2. \/ search' = [search EXCEPT ![r].stage = "done"]
            \/ search' = [search EXCEPT ![r].stage = "failed", ![r].refused = "exec"]
        BY <2>7 DEF Exec, Goto
      <3>3. found' \subseteq Params /\ breaker' \in BreakerState
        BY <2>7, <2>3 DEF Exec, SearchInv, Search
      <3>4. Tracked(search'[r], failed')
        <4>1. CASE search' = [search EXCEPT ![r].stage = "done"]
          BY <4>1, <2>1, <2>3 DEF Tracked, Search
        <4>2. CASE search' = [search EXCEPT ![r].stage = "failed", ![r].refused = "exec"]
          <5>1. search'[r] \in Search /\ search'[r].stage = "failed"
                /\ search'[r].refused = "exec"
            BY <4>2, <2>1, <2>3 DEF Search
          <5> QED BY <5>1 DEF Tracked
        <4> QED BY <3>2, <4>1, <4>2
      <3>5. search' = [search EXCEPT ![r] = search'[r]]
        BY <3>2, <2>1
      <3> QED BY <3>3, <3>4, <3>5, <2>1, <2>2, <1>0, SearchMoves
    <2> QED BY <1>3, <2>4, <2>5, <2>6, <2>7
  <1>4. ASSUME Reset
        PROVE  RInv'
    <2>1. UNCHANGED <<requests, search, found>> /\ breaker' \in BreakerState
      BY <1>4 DEF Reset, BreakerState
    <2>2. Counters' /\ BreakerTimed'
      BY <2>1 DEF Counters, BreakerTimed, redisVars
    <2>3. SearchInv'
      BY <2>1, <1>0 DEF SearchInv, Tracked
    <2> QED BY <2>2, <2>3
  <1> QED BY <1>1, <1>2, <1>3, <1>4

-----------------------------------------------------------------------------
\* Listings.

LType ==
    /\ listings \in [Ids -> Row \cup {None}] /\ listings[0] # None
    /\ cached \in [Ids -> Row \cup {None}]
    /\ cachedImages \in [Ids -> (SUBSET Images) \cup {None}]
    /\ crossed \subseteq Ids
    /\ DOMAIN handler \subseteq 1 .. requests
    /\ handler \in [DOMAIN handler -> Handler]

\* Where a handler stands tells what it has done.
Staged(h, r) ==
    /\ h.kind = "create" => h.on = r
    /\ h.kind = "update" /\ h.stage = "images" => h.read # None
    /\ IF h.saved THEN h.copy # None ELSE h.writes = {}
    /\ h.stage \in {"read", "images"} => ~ h.saved
    /\ h.stage = "sync" =>
         h.saved /\ h.syncs /\ h.writes = Keys /\ (h.kind = "create" => ~ h.copy.synced)
    /\ h.stage = "cache" => h.saved /\ h.writes # {}
    /\ h.stage = "done" => h.saved /\ h.writes = {}

\* A handler updates a listing whose creation is over; what it saved is there.
Linked(h) ==
    /\ h.kind = "update" =>
         \/ h.on = 0
         \/ /\ h.on \in DOMAIN handler
            /\ handler[h.on].kind = "create" /\ handler[h.on].stage = "done"
    /\ h.saved => listings[h.on] # None

Active(r, l) ==
    r \in DOMAIN handler /\ handler[r].on = l /\ handler[r].stage \in {"sync", "cache"}

Broken(l) ==
    \E r \in DOMAIN handler :
        handler[r].on = l /\ handler[r].saved /\ handler[r].stage = "failed"

\* The copy differs from its row in what a creation told the marketplaces.
Agrees(c, l) ==
    c = IF Updated(l) THEN listings[l] ELSE [listings[l] EXCEPT !.synced = FALSE]

\* Of the handlers of a listing that nobody crossed and none of which was
\* stopped, one at most is between its row and its copies.
Copies(l) ==
    l \notin crossed /\ listings[l] # None /\ ~ Broken(l) =>
        /\ \A q, r \in DOMAIN handler : Active(q, l) /\ Active(r, l) => q = r
        /\ \A r \in DOMAIN handler : Active(r, l) =>
             /\ Agrees(handler[r].copy, l)
             /\ "listing" \notin handler[r].writes => cached[l] = handler[r].copy
             /\ "images" \notin handler[r].writes => cachedImages[l] = handler[r].copy.images
        /\ (\A r \in DOMAIN handler : ~ Active(r, l)) =>
             /\ cachedImages[l] \in {None, listings[l].images}
             /\ cached[l] # None => Agrees(cached[l], l)

\* The inductive invariant of ListingService.
LInv ==
    /\ LType
    /\ \A r \in DOMAIN handler : Staged(handler[r], r) /\ Linked(handler[r])
    /\ \A l \in Ids : Copies(l)

LEMMA LInit == CatalogueInit => LInv
  <1> SUFFICES ASSUME CatalogueInit PROVE LInv
    OBVIOUS
  <1>1. PICK old \in {x \in Row : x.images = x.ai} :
            listings = [l \in Ids |-> IF l = 0 THEN old ELSE None]
    BY DEF CatalogueInit
  <1>2. 0 \in Ids
    BY CatalogueAssumption DEF Ids
  <1>3. listings \in [Ids -> Row \cup {None}] /\ listings[0] # None
    BY <1>1, <1>2, NoneIsNoValue
  <1>4. DOMAIN handler = {} /\ handler \in [DOMAIN handler -> Handler]
    <2>1. handler = << >>
      BY DEF CatalogueInit
    <2> QED BY <2>1
  <1>5. LType
    BY <1>3, <1>4 DEF CatalogueInit, LType
  <1>6. ASSUME NEW l \in Ids PROVE Copies(l)
    BY <1>4 DEF CatalogueInit, Copies
  <1> QED BY <1>4, <1>5, <1>6 DEF LInv

\* A handler more.
LEMMA NewHandlerIs ==
    ASSUME LInv, Counters, NEW kind \in {"create", "update"}, NEW on \in Ids,
           NEW want \in SUBSET Images, NEW syncs \in BOOLEAN,
           kind = "create" => on = requests + 1,
           kind = "update" =>
               \/ on = 0
               \/ /\ on \in DOMAIN handler
                  /\ handler[on].kind = "create" /\ handler[on].stage = "done",
           New(handler, NewHandler(kind, on, want, syncs)),
           UNCHANGED <<listings, cached, cachedImages, crossed>>
    PROVE  LInv'
  <1> DEFINE h == NewHandler(kind, on, want, syncs)
             n == requests + 1
  <1>1. /\ h \in Handler /\ h.kind = kind /\ h.on = on
        /\ ~ h.saved /\ h.writes = {}
        /\ h.stage = IF kind = "create" THEN "images" ELSE "read"
    BY DEF NewHandler, Handler, Keys
  <1>2. /\ requests' = n
        /\ handler' = [r \in DOMAIN handler \cup {n} |-> IF r = n THEN h ELSE handler[r]]
    BY DEF New
  <1> HIDE DEF h
  <1>3. n \notin DOMAIN handler /\ n \in 1 .. n /\ 1 .. requests \subseteq 1 .. n
    BY DEF LInv, LType, Counters
  <1>4. /\ DOMAIN handler' = DOMAIN handler \cup {n}
        /\ handler'[n] = h /\ \A r \in DOMAIN handler : handler'[r] = handler[r]
    BY <1>2, <1>3
  <1>5. LType'
    BY <1>1, <1>2, <1>3, <1>4 DEF LInv, LType
  <1>6. \A r \in DOMAIN handler' : Staged(handler'[r], r)
    BY <1>1, <1>4 DEF LInv, Staged
  <1>7. ASSUME NEW r \in DOMAIN handler' PROVE Linked(handler[r])'
    <2>1. CASE r = n
      BY <1>1, <1>4, <2>1 DEF Linked
    <2>2. CASE r \in DOMAIN handler
      BY <1>4, <2>2 DEF LInv, Linked
    <2> QED BY <1>4, <2>1, <2>2
  <1>8. ASSUME NEW l \in Ids PROVE Copies(l)'
    <2>1. Broken(l)' <=> Broken(l)
      BY <1>1, <1>4 DEF Broken
    <2>2. \A r \in DOMAIN handler' : Active(r, l)' <=> r \in DOMAIN handler /\ Active(r, l)
      BY <1>1, <1>3, <1>4 DEF Active
    <2>3. Updated(l)' <=> Updated(l)
      BY <1>1, <1>3, <1>4 DEF Updated
    <2>4. \A c : Agrees(c, l) => Agrees(c, l)'
      BY <2>3 DEF Agrees
    <2> QED BY <1>4, <2>1, <2>2, <2>4 DEF LInv, Copies
  <1> QED BY <1>5, <1>6, <1>7, <1>8 DEF LInv

\* What no step of a handler changes.
Kept(g, h) ==
    g.kind = h.kind /\ g.on = h.on /\ g.want = h.want /\ g.syncs = h.syncs

\* One handler moves.
LEMMA HandlerMoves ==
    ASSUME LInv, NEW r \in DOMAIN handler, NEW h \in Handler,
           handler' = [handler EXCEPT ![r] = h], UNCHANGED requests
    PROVE  /\ DOMAIN handler' = DOMAIN handler
           /\ handler' \in [DOMAIN handler' -> Handler]
           /\ DOMAIN handler' \subseteq 1 .. requests'
           /\ handler'[r] = h
           /\ \A q \in DOMAIN handler \ {r} :
                handler'[q] = handler[q] /\ Staged(handler'[q], q)
  BY DEF LInv, LType

\* Its listing is updated when an update of it has saved the row.
LEMMA SameUpdated ==
    ASSUME LInv, NEW r \in DOMAIN handler, NEW h \in Handler,
           handler' = [handler EXCEPT ![r] = h], UNCHANGED requests,
           Kept(h, handler[r]), NEW l \in Ids,
           l # h.on \/ h.saved = handler[r].saved
    PROVE  Updated(l)' <=> Updated(l)
  <1>1. /\ DOMAIN handler' = DOMAIN handler /\ handler'[r] = h
        /\ \A q \in DOMAIN handler \ {r} : handler'[q] = handler[q]
    BY HandlerMoves
  <1> QED BY <1>1 DEF Updated, Kept

\* A step before the row is written, or after a failure: no other handler and no
\* copy is concerned.
LEMMA QuietStep ==
    ASSUME LInv, NEW r \in DOMAIN handler, NEW h \in Handler,
           handler' = [handler EXCEPT ![r] = h],
           Kept(h, handler[r]), Staged(h, r),
           h.saved = handler[r].saved, h.writes = handler[r].writes,
           h.copy = handler[r].copy,
           handler[r].stage \in {"read", "images", "failed"},
           h.stage \in {"images", "failed"},
           handler[r].stage = "failed" => h.stage = "failed",
           UNCHANGED <<requests, listings, cached, cachedImages, crossed>>
    PROVE  LInv'
  <1>1. /\ DOMAIN handler' = DOMAIN handler
        /\ handler' \in [DOMAIN handler' -> Handler]
        /\ DOMAIN handler' \subseteq 1 .. requests'
        /\ handler'[r] = h
        /\ \A q \in DOMAIN handler \ {r} :
             handler'[q] = handler[q] /\ Staged(handler'[q], q)
    BY HandlerMoves
  <1>2. LType'
    BY <1>1 DEF LInv, LType
  <1>3. ASSUME NEW q \in DOMAIN handler' PROVE Staged(handler'[q], q) /\ Linked(handler[q])'
    <2>1. q \in DOMAIN handler /\ Linked(handler[q])
      BY <1>1 DEF LInv
    <2>2. Kept(handler'[q], handler[q]) /\ handler'[q].saved = handler[q].saved
      BY <1>1, <2>1 DEF Kept
    <2>3. \A k \in DOMAIN handler : handler[k].stage = "done" => handler'[k].stage = "done"
      BY <1>1
    <2>4. Linked(handler[q])'
      BY <1>1, <2>1, <2>2, <2>3 DEF Linked, Kept
    <2> QED BY <1>1, <2>1, <2>4
  <1>4. ASSUME NEW l \in Ids PROVE Copies(l)'
    <2>1. Staged(handler[r], r)
      BY DEF LInv
    <2>2. Broken(l)' <=> Broken(l)
      BY <1>1, <2>1 DEF Broken, Kept, Staged
    <2>3. \A q \in DOMAIN handler : Active(q, l)' <=> Active(q, l)
      BY <1>1 DEF Active, Kept
    <2>4. \A q \in DOMAIN handler : Active(q, l) => q # r
      BY DEF Active
    <2>5. \A c : Agrees(c, l)' <=> Agrees(c, l)
      BY SameUpdated DEF Agrees
    <2> QED BY <1>1, <2>2, <2>3, <2>4, <2>5 DEF LInv, Copies
  <1> QED BY <1>2, <1>3, <1>4, <1>1 DEF LInv

LEMMA QuietSteps ==
    ASSUME LInv, NEW r \in Requests,
           GetListingById(r) \/ \E i \in Images : ProcessListingImage(r, i)
    PROVE  LInv'
  <1>0. r \in DOMAIN handler
    BY DEF GetListingById, ProcessListingImage, Stage
  <1>1. handler[r] \in Handler /\ Staged(handler[r], r) /\ Linked(handler[r])
    BY <1>0 DEF LInv, LType
  <1>2. CASE GetListingById(r)
    <2>1. handler[r].stage = "read" /\ handler[r].on \in Ids
      BY <1>2, <1>1 DEF GetListingById, Stage, Handler
    <2>2. UNCHANGED <<requests, listings, cached, cachedImages, crossed>>
      BY <1>2 DEF GetListingById
    <2>3. listings[handler[r].on] \in Row \cup {None}
      BY <2>1 DEF LInv, LType
    <2>4. CASE handler' = [handler EXCEPT ![r].read = listings[handler[r].on],
                                          ![r].stage = "images"]
      <3> DEFINE h == [handler[r] EXCEPT !.read = listings[handler[r].on],
                                         !.stage = "images"]
      <3>1. /\ h \in Handler /\ Kept(h, handler[r]) /\ h.stage = "images"
            /\ h.saved = handler[r].saved /\ h.writes = handler[r].writes
            /\ h.copy = handler[r].copy /\ h.read = listings[handler[r].on]
        BY <1>1, <2>1, <2>3 DEF Handler, Kept
      <3>2. handler' = [handler EXCEPT ![r] = h]
        BY <2>4
      <3>3. handler[r].kind = "update" => listings[handler[r].on] # None
        <4>1. CASE handler[r].on = 0
          BY <4>1 DEF LInv, LType
        <4>2. CASE /\ handler[r].on \in DOMAIN handler
                   /\ handler[handler[r].on].kind = "create"
                   /\ handler[handler[r].on].stage = "done"
          <5> DEFINE k == handler[r].on
          <5>1. handler[k] \in Handler /\ Staged(handler[k], k) /\ Linked(handler[k])
            BY <4>2 DEF LInv, LType
          <5>2. handler[k].saved
            BY <4>2, <5>1 DEF Staged
          <5> QED BY <5>1, <5>2, <4>2 DEF Staged, Linked
        <4> QED BY <4>1, <4>2, <1>1 DEF Linked
      <3>4. Staged(h, r)
        BY <1>1, <2>1, <3>1, <3>3 DEF Staged, Kept
      <3> HIDE DEF h
      <3> QED BY <1>0, <2>1, <2>2, <2>3, <3>1, <3>2, <3>4, QuietStep
    <2>5. CASE handler' = [handler EXCEPT ![r].stage = "failed", ![r].left = {}]
      <3> DEFINE h == [handler[r] EXCEPT !.stage = "failed", !.left = {}]
      <3>1. /\ h \in Handler /\ Kept(h, handler[r]) /\ h.stage = "failed"
            /\ h.saved = handler[r].saved /\ h.writes = handler[r].writes
            /\ h.copy = handler[r].copy
        BY <1>1 DEF Handler, Kept
      <3>2. handler' = [handler EXCEPT ![r] = h]
        BY <2>5
      <3>3. Staged(h, r)
        BY <1>1, <3>1 DEF Staged, Kept
      <3> HIDE DEF h
      <3> QED BY <1>0, <2>1, <2>2, <2>3, <3>1, <3>2, <3>3, QuietStep
    <2> QED BY <1>2, <2>4, <2>5 DEF GetListingById
  <1>3. ASSUME NEW i \in Images, ProcessListingImage(r, i)
        PROVE  LInv'
    <2>1. /\ handler[r].stage \in {"images", "failed"}
          /\ UNCHANGED <<requests, listings, cached, cachedImages, crossed>>
      BY <1>3 DEF ProcessListingImage, Stage
    <2>2. ASSUME NEW h \in Handler, handler' = [handler EXCEPT ![r] = h],
                 Kept(h, handler[r]), h.stage \in {handler[r].stage, "failed"},
                 h.saved = handler[r].saved, h.writes = handler[r].writes,
                 h.copy = handler[r].copy, h.read = handler[r].read
          PROVE  LInv'
      <3>1. Staged(h, r)
        BY <1>1, <2>1, <2>2 DEF Staged, Kept
      <3> QED BY <1>0, <2>1, <2>2, <3>1, QuietStep
    <2>3. CASE handler' = [handler EXCEPT ![r].left = @ \ {i}]
      <3> DEFINE h == [handler[r] EXCEPT !.left = handler[r].left \ {i}]
      <3>1. /\ h \in Handler /\ Kept(h, handler[r]) /\ h.stage = handler[r].stage
            /\ h.saved = handler[r].saved /\ h.writes = handler[r].writes
            /\ h.copy = handler[r].copy /\ h.read = handler[r].read
        BY <1>1 DEF Handler, Kept
      <3>2. handler' = [handler EXCEPT ![r] = h]
        BY <2>3
      <3> HIDE DEF h
      <3> QED BY <3>1, <3>2, <2>2
    <2>4. CASE handler' = [handler EXCEPT ![r].left = @ \ {i}, ![r].stage = "failed"]
      <3> DEFINE h == [handler[r] EXCEPT !.left = handler[r].left \ {i},
                                         !.stage = "failed"]
      <3>1. /\ h \in Handler /\ Kept(h, handler[r]) /\ h.stage = "failed"
            /\ h.saved = handler[r].saved /\ h.writes = handler[r].writes
            /\ h.copy = handler[r].copy /\ h.read = handler[r].read
        BY <1>1 DEF Handler, Kept
      <3>2. handler' = [handler EXCEPT ![r] = h]
        BY <2>4
      <3> HIDE DEF h
      <3> QED BY <3>1, <3>2, <2>2
    <2> QED BY <1>3, <2>3, <2>4 DEF ProcessListingImage
  <1> QED BY <1>2, <1>3

-----------------------------------------------------------------------------
\* The row and its copies.

\* The listing of a handler that has read or written it is there.
LEMMA ListingIsThere ==
    ASSUME LInv, NEW r \in DOMAIN handler, handler[r].kind = "update" \/ handler[r].saved
    PROVE  handler[r].on \in Ids /\ listings[handler[r].on] \in Row
  <1>1. handler[r] \in Handler /\ Staged(handler[r], r) /\ Linked(handler[r])
    BY DEF LInv, LType
  <1>2. handler[r].on \in Ids
    BY <1>1 DEF Handler
  <1>3. listings[handler[r].on] \in Row \cup {None}
    BY <1>2 DEF LInv, LType
  <1>4. CASE handler[r].saved
    BY <1>1, <1>2, <1>3, <1>4 DEF Linked
  <1>5. CASE handler[r].kind = "update" /\ handler[r].on = 0
    BY <1>2, <1>3, <1>5 DEF LInv, LType
  <1>6. CASE handler[r].kind = "update" /\ handler[r].on # 0
    <2> DEFINE k == handler[r].on
    <2>1. k \in DOMAIN handler /\ handler[k].kind = "create" /\ handler[k].stage = "done"
      BY <1>1, <1>6 DEF Linked
    <2>2. Staged(handler[k], k) /\ Linked(handler[k])
      BY <2>1 DEF LInv
    <2>3. listings[k] # None
      BY <2>1, <2>2 DEF Staged, Linked
    <2> QED BY <1>2, <1>3, <2>3
  <1> QED BY <1>4, <1>5, <1>6

\* The listings of other handlers.
LEMMA OtherCopies ==
    ASSUME LInv, NEW r \in DOMAIN handler, NEW h \in Handler,
           handler' = [handler EXCEPT ![r] = h], UNCHANGED requests,
           Kept(h, handler[r]), NEW l \in Ids, l # h.on, crossed \subseteq crossed',
           listings'[l] = listings[l], cached'[l] = cached[l],
           cachedImages'[l] = cachedImages[l]
    PROVE  Copies(l)'
  <1>1. /\ DOMAIN handler' = DOMAIN handler /\ handler'[r] = h
        /\ \A q \in DOMAIN handler \ {r} : handler'[q] = handler[q]
    BY HandlerMoves
  <1>2. Broken(l)' <=> Broken(l)
    BY <1>1 DEF Broken, Kept
  <1>3. \A q \in DOMAIN handler : Active(q, l)' <=> Active(q, l)
    BY <1>1 DEF Active, Kept
  <1>4. \A q \in DOMAIN handler : Active(q, l) => q # r
    BY DEF Active, Kept
  <1>5. \A c : Agrees(c, l)' <=> Agrees(c, l)
    BY SameUpdated DEF Agrees
  <1> QED BY <1>1, <1>2, <1>3, <1>4, <1>5 DEF LInv, Copies

\* A handler whose creation is not over is the only one of its listing.
LEMMA CreatesAlone ==
    ASSUME LInv, NEW r \in DOMAIN handler, handler[r].kind = "create",
           handler[r].stage # "done",
           NEW q \in DOMAIN handler, handler[q].on = handler[r].on
    PROVE  q = r
  <1>1. Staged(handler[r], r) /\ Staged(handler[q], q) /\ Linked(handler[q])
    BY DEF LInv
  <1>2. handler[q].on = r /\ r # 0
    BY <1>1 DEF Staged, LInv, LType
  <1>3. handler[q].kind # "update"
    BY <1>1, <1>2 DEF Linked
  <1>4. handler[q].kind = "create"
    BY <1>3 DEF LInv, LType, Handler
  <1> QED BY <1>1, <1>2, <1>4 DEF Staged

LEMMA SaveStep ==
    ASSUME LInv, NEW r \in Requests, SaveListing(r)
    PROVE  LInv'
  <1> DEFINE g == handler[r]
             W == SavedRow(handler[r])
  <1>0. r \in DOMAIN handler /\ g.stage = "images"
    BY DEF SaveListing, Stage
  <1>1. g \in Handler /\ Staged(g, r) /\ Linked(g) /\ ~ g.saved /\ g.writes = {}
    BY <1>0 DEF LInv, LType, Staged
  <1>2. UNCHANGED <<requests, cached, cachedImages>>
    BY DEF SaveListing
  <1>3. CASE /\ handler' = [handler EXCEPT ![r].stage = "failed"]
             /\ UNCHANGED <<listings, crossed>>
    <2> DEFINE h == [handler[r] EXCEPT !.stage = "failed"]
    <2>1. /\ h \in Handler /\ Kept(h, handler[r]) /\ h.stage = "failed"
          /\ h.saved = handler[r].saved /\ h.writes = handler[r].writes
          /\ h.copy = handler[r].copy
      BY <1>1 DEF Handler, Kept
    <2>2. handler' = [handler EXCEPT ![r] = h]
      BY <1>3
    <2>3. Staged(h, r)
      BY <1>1, <2>1 DEF Staged, Kept
    <2> HIDE DEF h
    <2> QED BY <1>0, <1>2, <1>3, <2>1, <2>2, <2>3, QuietStep
  <1>4. CASE /\ listings' = [listings EXCEPT ![g.on] = W]
             /\ handler' = [handler EXCEPT ![r].copy = W, ![r].saved = TRUE,
                    ![r].writes = Keys, ![r].stage = IF g.syncs THEN "sync" ELSE "cache"]
             /\ crossed' = IF Crosses(r) THEN crossed \cup {g.on} ELSE crossed
    <2> DEFINE h == [handler[r] EXCEPT !.copy = W, !.saved = TRUE, !.writes = Keys,
                                       !.stage = IF g.syncs THEN "sync" ELSE "cache"]
               l0 == handler[r].on
    <2>1. l0 \in Ids /\ g.want \subseteq Images /\ g.syncs \in BOOLEAN
      BY <1>1 DEF Handler
    <2>2. g.kind = "update" => listings[l0] \in Row /\ g.read \in Row
      BY <1>0, <1>1, ListingIsThere DEF Staged, Handler
    <2>3. W \in Row /\ (g.kind = "create" => ~ W.synced)
      <3>1. CASE g.kind = "create"
        BY <2>1, <3>1 DEF SavedRow, Row
      <3>2. CASE g.kind = "update" /\ g.want = {}
        BY <2>1, <2>2, <3>2 DEF SavedRow
      <3>3. CASE g.kind = "update" /\ g.want # {}
        BY <2>1, <2>2, <3>3 DEF SavedRow, Row
      <3> QED BY <1>1, <3>1, <3>2, <3>3 DEF Handler
    <2> HIDE DEF W
    <2>4. /\ h \in Handler /\ Kept(h, handler[r]) /\ h.saved /\ h.writes = Keys
          /\ h.copy = W /\ h.stage = (IF g.syncs THEN "sync" ELSE "cache")
          /\ h.on = l0
      BY <1>1, <2>1, <2>3 DEF Handler, Kept, Keys
    <2>5. handler' = [handler EXCEPT ![r] = h]
      BY <1>4
    <2> HIDE DEF h
    <2>6. /\ DOMAIN handler' = DOMAIN handler
          /\ handler' \in [DOMAIN handler' -> Handler]
          /\ DOMAIN handler' \subseteq 1 .. requests'
          /\ handler'[r] = h
          /\ \A q \in DOMAIN handler \ {r} :
               handler'[q] = handler[q] /\ Staged(handler'[q], q)
      BY <1>0, <1>2, <2>4, <2>5, HandlerMoves
    <2>7. /\ listings' \in [Ids -> Row \cup {None}] /\ listings'[l0] = W
          /\ \A l \in Ids \ {l0} : listings'[l] = listings[l]
          /\ W # None
      BY <1>4, <2>1, <2>3, NoneIsNoValue DEF LInv, LType
    <2>8. crossed' \subseteq Ids /\ crossed \subseteq crossed'
          /\ (l0 \notin crossed' => ~ Crosses(r))
      BY <1>4, <2>1 DEF LInv, LType
    <2>9. 0 \in Ids
      BY CatalogueAssumption DEF Ids
    <2>10. LType'
      BY <1>2, <2>6, <2>7, <2>8, <2>9 DEF LInv, LType
    <2>11. Staged(h, r)
      BY <1>1, <2>1, <2>3, <2>4, <2>7 DEF Staged, Kept, Keys
    <2>12. ASSUME NEW q \in DOMAIN handler' PROVE Linked(handler[q])'
      <3>1. q \in DOMAIN handler /\ Linked(handler[q]) /\ handler[q] \in Handler
        BY <2>6 DEF LInv, LType
      <3>2. handler[q].on \in Ids
        BY <3>1 DEF Handler
      <3>3. \A k \in DOMAIN handler : handler[k].stage = "done" => handler'[k] = handler[k]
        BY <1>0, <2>6
      <3>4. listings[handler[q].on] # None => listings'[handler[q].on] # None
        BY <2>7, <3>2
      <3>5. CASE q = r
        BY <2>4, <2>6, <2>7, <3>1, <3>3, <3>5 DEF Linked, Kept
      <3>6. CASE q # r
        BY <2>6, <3>1, <3>3, <3>4, <3>6 DEF Linked
      <3> QED BY <3>5, <3>6
    <2>13. ASSUME NEW l \in Ids PROVE Copies(l)'
      <3>1. CASE l # l0
        BY <1>0, <1>2, <2>4, <2>5, <2>7, <2>8, <3>1, OtherCopies
      <3>2. CASE l = l0
        <4>1. Agrees(handler[r].copy, l)'
          <5>1. handler'[r].copy = W /\ listings'[l] = W
            BY <2>4, <2>6, <2>7, <3>2
          <5>2. CASE g.kind = "update"
            <6>1. Updated(l)'
              BY <1>0, <2>4, <2>6, <3>2, <5>2 DEF Updated, Kept
            <6> QED BY <5>1, <6>1 DEF Agrees
          <5>3. CASE g.kind = "create"
            <6>1. \A q \in DOMAIN handler : handler[q].on = l => q = r
              BY <1>0, <3>2, <5>3, CreatesAlone
            <6>2. ~ Updated(l)'
              BY <2>4, <2>6, <5>3, <6>1 DEF Updated, Kept
            <6>3. W = [W EXCEPT !.synced = FALSE]
              BY <2>3, <5>3 DEF Row
            <6> QED BY <5>1, <6>2, <6>3 DEF Agrees
          <5> QED BY <1>1, <5>2, <5>3 DEF Handler
        <4>2. Active(r, l)'
          BY <1>0, <2>1, <2>4, <2>6, <3>2 DEF Active
        <4>3. ASSUME NEW q \in DOMAIN handler', Active(q, l)', q # r
              PROVE  l \in crossed'
          <5>1. /\ q \in DOMAIN handler /\ handler[q].on = l0
                /\ handler[q].stage \in {"sync", "cache"} /\ Staged(handler[q], q)
            BY <2>6, <3>2, <4>3 DEF Active, LInv
          <5>2. handler[q].saved /\ handler[q].writes # {}
            BY <5>1 DEF Staged, Keys
          <5>3. Crosses(r)
            BY <5>1, <5>2, <4>3 DEF Crosses
          <5> QED BY <5>3, <2>8, <3>2
        <4>4. "listing" \in handler'[r].writes /\ "images" \in handler'[r].writes
          BY <2>4, <2>6 DEF Keys
        <4> QED BY <1>0, <2>6, <4>1, <4>2, <4>3, <4>4 DEF Copies
      <3> QED BY <3>1, <3>2
    <2> QED BY <2>6, <2>10, <2>11, <2>12, <2>13 DEF LInv
  <1> QED BY <1>3, <1>4 DEF SaveListing

\* A handler that had saved its row ends in an error: its listing is broken.
LEMMA BreakingStep ==
    ASSUME LInv, NEW r \in DOMAIN handler, NEW h \in Handler,
           handler' = [handler EXCEPT ![r] = h], Kept(h, handler[r]), Staged(h, r),
           handler[r].saved, h.saved, h.stage = "failed",
           handler[r].stage \in {"sync", "cache", "failed"},
           UNCHANGED <<requests, listings, crossed>>,
           cached' \in [Ids -> Row \cup {None}],
           cachedImages' \in [Ids -> (SUBSET Images) \cup {None}],
           \A l \in Ids \ {h.on} : /\ cached'[l] = cached[l]
                                  /\ cachedImages'[l] = cachedImages[l]
    PROVE  LInv'
  <1>1. /\ DOMAIN handler' = DOMAIN handler
        /\ handler' \in [DOMAIN handler' -> Handler]
        /\ DOMAIN handler' \subseteq 1 .. requests'
        /\ handler'[r] = h
        /\ \A q \in DOMAIN handler \ {r} :
             handler'[q] = handler[q] /\ Staged(handler'[q], q)
    BY HandlerMoves
  <1>2. LType'
    BY <1>1 DEF LInv, LType
  <1>3. ASSUME NEW q \in DOMAIN handler' PROVE Linked(handler[q])'
    <2>1. q \in DOMAIN handler /\ Linked(handler[q])
      BY <1>1 DEF LInv
    <2>2. Kept(handler'[q], handler[q]) /\ (handler'[q].saved => handler[q].saved)
      BY <1>1, <2>1 DEF Kept
    <2>3. \A k \in DOMAIN handler : handler[k].stage = "done" => handler'[k] = handler[k]
      BY <1>1
    <2> QED BY <1>1, <2>1, <2>2, <2>3 DEF Linked, Kept
  <1>4. ASSUME NEW l \in Ids PROVE Copies(l)'
    <2>1. CASE l # h.on
      BY <2>1, OtherCopies
    <2>2. CASE l = h.on
      <3>1. Broken(l)'
        BY <1>1, <2>2 DEF Broken
      <3> QED BY <3>1 DEF Copies
    <2> QED BY <2>1, <2>2
  <1> QED BY <1>1, <1>2, <1>3, <1>4 DEF LInv

LEMMA SyncStep ==
    ASSUME LInv, NEW r \in Requests, SyncWithMarketplaces(r)
    PROVE  LInv'
  <1> DEFINE g == handler[r]
             l0 == handler[r].on
  <1>0. r \in DOMAIN handler /\ g.stage = "sync"
    BY DEF SyncWithMarketplaces, Stage
  <1>1. /\ g \in Handler /\ Staged(g, r) /\ Linked(g) /\ g.saved /\ g.syncs
        /\ g.writes = Keys /\ g.copy \in Row /\ (g.kind = "create" => ~ g.copy.synced)
    BY <1>0 DEF LInv, LType, Staged, Handler
  <1>2. UNCHANGED <<requests, cached, cachedImages, crossed>>
    BY DEF SyncWithMarketplaces
  <1>3. l0 \in Ids /\ listings[l0] \in Row
    BY <1>0, <1>1, ListingIsThere
  <1>4. CASE /\ handler' = [handler EXCEPT ![r].stage = "failed", ![r].writes = {}]
             /\ UNCHANGED listings
    <2> DEFINE h == [handler[r] EXCEPT !.stage = "failed", !.writes = {}]
    <2>1. /\ h \in Handler /\ Kept(h, handler[r]) /\ h.stage = "failed"
          /\ h.saved /\ h.writes = {} /\ h.copy = handler[r].copy
      BY <1>1 DEF Handler, Kept
    <2>2. handler' = [handler EXCEPT ![r] = h]
      BY <1>4
    <2>3. Staged(h, r)
      BY <1>1, <2>1 DEF Staged, Kept
    <2>4. /\ cached' \in [Ids -> Row \cup {None}]
          /\ cachedImages' \in [Ids -> (SUBSET Images) \cup {None}]
      BY <1>2 DEF LInv, LType
    <2> HIDE DEF h
    <2> QED BY <1>0, <1>1, <1>2, <1>4, <2>1, <2>2, <2>3, <2>4, BreakingStep
  <1>5. CASE /\ handler' = [handler EXCEPT ![r].stage = "cache"]
             /\ listings' = [listings EXCEPT ![l0].synced = @ \/ g.kind = "create"]
    <2> DEFINE h == [handler[r] EXCEPT !.stage = "cache"]
               W == [listings[l0] EXCEPT !.synced = @ \/ g.kind = "create"]
    <2>1. /\ h \in Handler /\ Kept(h, handler[r]) /\ h.stage = "cache"
          /\ h.saved /\ h.writes = Keys /\ h.copy = g.copy /\ h.on = l0
      BY <1>1 DEF Handler, Kept
    <2>2. handler' = [handler EXCEPT ![r] = h]
      BY <1>5
    <2>3. /\ W \in Row /\ W # None
          /\ W.synced = (listings[l0].synced \/ g.kind = "create")
      BY <1>3, NoneIsNoValue DEF Row
    <2>4. listings' = [listings EXCEPT ![l0] = W]
      BY <1>5
    <2>5. Agrees(g.copy, l0) =>
            g.copy = IF Updated(l0) THEN W ELSE [W EXCEPT !.synced = FALSE]
      <3>1. CASE g.kind = "create"
        <4>1. \A q \in DOMAIN handler : handler[q].on = l0 => q = r
          BY <1>0, <3>1, CreatesAlone
        <4>2. ~ Updated(l0)
          BY <3>1, <4>1 DEF Updated
        <4>3. [W EXCEPT !.synced = FALSE] = [listings[l0] EXCEPT !.synced = FALSE]
          BY <1>3 DEF Row
        <4> QED BY <4>2, <4>3 DEF Agrees
      <3>2. CASE g.kind # "create"
        <4>1. W = listings[l0]
          BY <1>3, <3>2 DEF Row
        <4> QED BY <4>1 DEF Agrees
      <3> QED BY <3>1, <3>2
    <2> HIDE DEF h, W
    <2>6. /\ DOMAIN handler' = DOMAIN handler
          /\ handler' \in [DOMAIN handler' -> Handler]
          /\ DOMAIN handler' \subseteq 1 .. requests'
          /\ handler'[r] = h
          /\ \A q \in DOMAIN handler \ {r} :
               handler'[q] = handler[q] /\ Staged(handler'[q], q)
      BY <1>0, <1>2, <2>1, <2>2, HandlerMoves
    <2>7. /\ listings' \in [Ids -> Row \cup {None}] /\ listings'[l0] = W
          /\ \A l \in Ids \ {l0} : listings'[l] = listings[l]
      BY <1>3, <2>3, <2>4 DEF LInv, LType
    <2>8. 0 \in Ids
      BY CatalogueAssumption DEF Ids
    <2>9. LType'
      BY <1>2, <2>3, <2>6, <2>7, <2>8 DEF LInv, LType
    <2>10. Staged(h, r)
      BY <1>1, <2>1 DEF Staged, Kept, Keys
    <2>11. ASSUME NEW q \in DOMAIN handler' PROVE Linked(handler[q])'
      <3>1. q \in DOMAIN handler /\ Linked(handler[q]) /\ handler[q] \in Handler
        BY <2>6 DEF LInv, LType
      <3>2. handler[q].on \in Ids
        BY <3>1 DEF Handler
      <3>3. Kept(handler'[q], handler[q]) /\ (handler'[q].saved => handler[q].saved)
        BY <1>1, <2>1, <2>6, <3>1 DEF Kept
      <3>4. \A k \in DOMAIN handler : handler[k].stage = "done" => handler'[k] = handler[k]
        BY <1>0, <2>6
      <3>5. listings[handler[q].on] # None => listings'[handler[q].on] # None
        BY <2>3, <2>7, <3>2
      <3> QED BY <1>2, <2>6, <3>1, <3>3, <3>4, <3>5 DEF Linked, Kept
    <2>12. ASSUME NEW l \in Ids PROVE Copies(l)'
      <3>1. CASE l # l0
        BY <1>0, <1>2, <2>1, <2>2, <2>7, <3>1, OtherCopies
      <3>2. CASE l = l0
        <4>1. Broken(l)' <=> Broken(l)
          BY <1>0, <2>1, <2>6, <3>2 DEF Broken, Kept
        <4>2. \A q \in DOMAIN handler : Active(q, l)' <=> Active(q, l)
          BY <1>0, <2>1, <2>6, <3>2 DEF Active, Kept
        <4>3. Active(r, l)
          BY <1>0, <3>2 DEF Active
        <4>4. Agrees(g.copy, l) => Agrees(handler[r].copy, l)'
          <5>1. handler'[r].copy = g.copy
            BY <2>1, <2>6
          <5>2. Updated(l)' <=> Updated(l)
            BY <1>0, <1>1, <1>2, <2>1, <2>2, <3>2, SameUpdated
          <5> QED BY <2>5, <2>7, <3>2, <5>1, <5>2 DEF Agrees
        <4>5. "listing" \in handler'[r].writes /\ "images" \in handler'[r].writes
          BY <2>1, <2>6 DEF Keys
        <4>6. listings[l] # None
          BY <1>3, <3>2, NoneIsNoValue
        <4>7. l \notin crossed /\ ~ Broken(l) =>
                  /\ \A q \in DOMAIN handler : Active(q, l) => q = r
                  /\ Agrees(g.copy, l)
          BY <1>0, <4>3, <4>6 DEF LInv, Copies
        <4> QED BY <1>0, <1>2, <2>6, <4>1, <4>2, <4>3, <4>4, <4>5, <4>7 DEF Copies
      <3> QED BY <3>1, <3>2
    <2> QED BY <2>6, <2>9, <2>10, <2>11, <2>12 DEF LInv
  <1> QED BY <1>4, <1>5 DEF SyncWithMarketplaces

LEMMA CacheStep ==
    ASSUME LInv, NEW r \in Requests, NEW key \in Keys, CacheListingData(r, key)
    PROVE  LInv'
  <1> DEFINE g == handler[r]
             l0 == handler[r].on
             rest == handler[r].writes \ {key}
  <1>0. /\ r \in DOMAIN handler /\ g.stage \in {"cache", "failed"} /\ key \in g.writes
        /\ UNCHANGED <<requests, listings, crossed>>
    BY DEF CacheListingData, Stage
  <1>1. /\ g \in Handler /\ Staged(g, r) /\ Linked(g) /\ g.saved
        /\ g.copy \in Row /\ rest \in SUBSET Keys
    BY <1>0 DEF LInv, LType, Staged, Handler
  <1>2. l0 \in Ids /\ listings[l0] \in Row
    BY <1>0, <1>1, ListingIsThere
  <1>3. CASE /\ handler' = [handler EXCEPT ![r].writes = rest, ![r].stage = "failed"]
             /\ UNCHANGED <<cached, cachedImages>>
    <2> DEFINE h == [handler[r] EXCEPT !.writes = rest, !.stage = "failed"]
    <2>1. /\ h \in Handler /\ Kept(h, handler[r]) /\ h.stage = "failed"
          /\ h.saved /\ h.copy = handler[r].copy
      BY <1>1 DEF Handler, Kept
    <2>2. handler' = [handler EXCEPT ![r] = h]
      BY <1>3
    <2>3. Staged(h, r)
      BY <1>1, <2>1 DEF Staged, Kept
    <2>4. /\ cached' \in [Ids -> Row \cup {None}]
          /\ cachedImages' \in [Ids -> (SUBSET Images) \cup {None}]
      BY <1>3 DEF LInv, LType
    <2> HIDE DEF h
    <2> QED BY <1>0, <1>1, <1>3, <2>1, <2>2, <2>3, <2>4, BreakingStep
  <1>4. CASE /\ IF key = "listing"
                   THEN cached' = [cached EXCEPT ![l0] = g.copy] /\ UNCHANGED cachedImages
                   ELSE cachedImages' = [cachedImages EXCEPT ![l0] = g.copy.images]
                        /\ UNCHANGED cached
             /\ handler' = [handler EXCEPT ![r].writes = rest,
                    ![r].stage = IF @ = "cache" /\ rest = {} THEN "done" ELSE @]
    <2> DEFINE st == IF g.stage = "cache" /\ rest = {} THEN "done" ELSE g.stage
               h == [handler[r] EXCEPT !.writes = rest, !.stage = st]
    <2>1. st \in {"cache", "done", "failed"} /\ (st = "failed" <=> g.stage = "failed")
          /\ (st = "done" <=> g.stage = "cache" /\ rest = {})
      BY <1>0
    <2>2. handler' = [handler EXCEPT ![r] = h]
      BY <1>4
    <2> HIDE DEF st
    <2>3. /\ h \in Handler /\ Kept(h, handler[r]) /\ h.stage = st
          /\ h.saved /\ h.copy = g.copy /\ h.writes = rest /\ h.on = l0
      BY <1>1, <2>1 DEF Handler, Kept
    <2> HIDE DEF h
    <2>4. Staged(h, r)
      BY <1>0, <1>1, <2>1, <2>3 DEF Staged, Kept
    <2>5. /\ cached' \in [Ids -> Row \cup {None}]
          /\ cachedImages' \in [Ids -> (SUBSET Images) \cup {None}]
          /\ \A l \in Ids \ {l0} : /\ cached'[l] = cached[l]
                                 /\ cachedImages'[l] = cachedImages[l]
      <3>1. g.copy.images \in SUBSET Images
        BY <1>1 DEF Row
      <3> QED BY <1>1, <1>2, <1>4, <3>1 DEF LInv, LType
    <2>6. CASE g.stage = "failed"
      BY <1>0, <1>1, <2>1, <2>2, <2>3, <2>4, <2>5, <2>6, BreakingStep
    <2>7. CASE g.stage = "cache"
      <3>1. /\ DOMAIN handler' = DOMAIN handler
            /\ handler' \in [DOMAIN handler' -> Handler]
            /\ DOMAIN handler' \subseteq 1 .. requests'
            /\ handler'[r] = h
            /\ \A q \in DOMAIN handler \ {r} :
                 handler'[q] = handler[q] /\ Staged(handler'[q], q)
        BY <1>0, <2>2, <2>3, HandlerMoves
      <3>2. LType'
        BY <1>0, <2>5, <3>1 DEF LInv, LType
      <3>3. ASSUME NEW q \in DOMAIN handler' PROVE Linked(handler[q])'
        <4>1. q \in DOMAIN handler /\ Linked(handler[q])
          BY <3>1 DEF LInv
        <4>2. Kept(handler'[q], handler[q]) /\ (handler'[q].saved => handler[q].saved)
          BY <1>1, <2>3, <3>1, <4>1 DEF Kept
        <4>3. \A k \in DOMAIN handler : handler[k].stage = "done" => handler'[k] = handler[k]
          BY <2>7, <3>1
        <4> QED BY <1>0, <3>1, <4>1, <4>2, <4>3 DEF Linked, Kept
      <3>4. ASSUME NEW l \in Ids PROVE Copies(l)'
        <4>1. CASE l # l0
          BY <1>0, <2>2, <2>3, <2>5, <4>1, OtherCopies
        <4>2. CASE l = l0 /\ l \notin crossed /\ ~ Broken(l)
          <5>1. Active(r, l) /\ listings[l] # None
            BY <1>0, <1>2, <2>7, <4>2, NoneIsNoValue DEF Active
          <5>2. /\ \A q \in DOMAIN handler : Active(q, l) => q = r
                /\ Agrees(g.copy, l)
                /\ "listing" \notin g.writes => cached[l] = g.copy
                /\ "images" \notin g.writes => cachedImages[l] = g.copy.images
            BY <1>0, <4>2, <5>1 DEF LInv, Copies
          <5>3. /\ "listing" \notin rest => cached'[l] = g.copy
                /\ "images" \notin rest => cachedImages'[l] = g.copy.images
            BY <1>1, <1>2, <1>4, <4>2, <5>2 DEF Keys, LInv, LType
          <5>4. \A q \in DOMAIN handler' : Active(q, l)' => q = r
            BY <3>1, <5>2 DEF Active
          <5>5. Active(r, l)' <=> st = "cache"
            BY <1>0, <2>1, <2>3, <3>1, <4>2 DEF Active
          <5>6. g.copy = IF Updated(l)' THEN listings'[l]
                         ELSE [listings'[l] EXCEPT !.synced = FALSE]
            <6>1. Updated(l)' <=> Updated(l)
              BY <1>0, <1>1, <2>2, <2>3, <4>2, SameUpdated
            <6> QED BY <1>0, <5>2, <6>1 DEF Agrees
          <5>7. g.copy.images = listings'[l].images
            BY <1>0, <1>2, <4>2, <5>6 DEF Row
          <5>8. CASE st = "cache"
            <6>1. Agrees(handler[r].copy, l)'
              BY <2>3, <3>1, <5>6 DEF Agrees
            <6> QED BY <1>0, <2>3, <3>1, <5>3, <5>4, <5>5, <5>8, <6>1 DEF Copies
          <5>9. CASE st = "done"
            <6>1. cached'[l] = g.copy /\ cachedImages'[l] = g.copy.images
              BY <2>1, <5>3, <5>9
            <6>2. Agrees(cached[l], l)'
              BY <5>6, <6>1 DEF Agrees
            <6>3. \A q \in DOMAIN handler' : ~ Active(q, l)'
              BY <5>4, <5>5, <5>9
            <6> QED BY <5>7, <6>1, <6>2, <6>3 DEF Copies
          <5> QED BY <2>1, <2>7, <5>8, <5>9
        <4>3. CASE l = l0 /\ (l \in crossed \/ Broken(l))
          <5>1. Broken(l) => Broken(l)'
            <6> SUFFICES ASSUME Broken(l) PROVE Broken(l)'
              OBVIOUS
            <6>1. PICK q \in DOMAIN handler :
                    handler[q].on = l /\ handler[q].saved /\ handler[q].stage = "failed"
              BY DEF Broken
            <6>2. handler'[q] = handler[q]
              BY <2>7, <3>1, <6>1
            <6> QED BY <3>1, <6>1, <6>2 DEF Broken
          <5> QED BY <1>0, <4>3, <5>1 DEF Copies
        <4> QED BY <4>1, <4>2, <4>3
      <3> QED BY <2>4, <3>1, <3>2, <3>3, <3>4 DEF LInv
    <2> QED BY <1>0, <2>6, <2>7
  <1> QED BY <1>3, <1>4 DEF CacheListingData

-----------------------------------------------------------------------------
\* What the rows, their copies and what the handlers hold of them are about.

DInv ==
    /\ \A l \in Ids :
        /\ Derived(listings[l], l) /\ Derived(cached[l], l)
        /\ listings[l] # None \/ cached[l] # None => l = 0 \/ l \in DOMAIN handler
    /\ \A r \in DOMAIN handler :
        Derived(handler[r].read, handler[r].on) /\ Derived(handler[r].copy, handler[r].on)

LEMMA DInit == CatalogueInit => DInv
  <1> SUFFICES ASSUME CatalogueInit PROVE DInv
    OBVIOUS
  <1>1. DOMAIN handler = {}
    <2>1. handler = << >>
      BY DEF CatalogueInit
    <2> QED BY <2>1
  <1>2. \A l \in Ids : listings[l] # None => l = 0 /\ listings[l].ai = listings[l].images
    BY DEF CatalogueInit
  <1> QED BY <1>1, <1>2 DEF CatalogueInit, DInv, Derived

\* A handler writes on its own listing only.
LEMMA OwnListing ==
    ASSUME LInv, NEW r \in DOMAIN handler
    PROVE  /\ handler[r].on \in Ids
           /\ handler[r].on = 0 \/ handler[r].on \in DOMAIN handler
  <1>1. handler[r] \in Handler /\ Staged(handler[r], r) /\ Linked(handler[r])
    BY DEF LInv, LType
  <1> QED BY <1>1 DEF Handler, Staged, Linked

\* A handler more: nothing is there under the id that it may insert.
LEMMA NewDerived ==
    ASSUME LInv, DInv, Counters, NEW kind \in {"create", "update"}, NEW on \in Ids,
           NEW want \in SUBSET Images, NEW syncs \in BOOLEAN,
           New(handler, NewHandler(kind, on, want, syncs)),
           UNCHANGED <<listings, cached>>
    PROVE  DInv'
  <1> DEFINE h == NewHandler(kind, on, want, syncs)
             n == requests + 1
  <1>1. h.read = None /\ h.copy = None
    BY DEF NewHandler
  <1>2. handler' = [r \in DOMAIN handler \cup {n} |-> IF r = n THEN h ELSE handler[r]]
    BY DEF New
  <1> HIDE DEF h
  <1>3. n \notin DOMAIN handler /\ n # 0
    BY DEF LInv, LType, Counters
  <1>4. /\ DOMAIN handler' = DOMAIN handler \cup {n}
        /\ handler'[n] = h /\ \A r \in DOMAIN handler : handler'[r] = handler[r]
    BY <1>2, <1>3
  <1>5. \A x, l : l # n => (Derived(x, l)' <=> Derived(x, l))
    BY <1>4 DEF Derived
  <1>6. \A x, l : x = None => Derived(x, l)'
    BY DEF Derived
  <1>7. ASSUME NEW l \in Ids
        PROVE  /\ Derived(listings[l], l)' /\ Derived(cached[l], l)'
               /\ listings'[l] # None \/ cached'[l] # None => l = 0 \/ l \in DOMAIN handler'
    <2>1. CASE l = n
      BY <1>3, <1>4, <1>6, <2>1 DEF DInv
    <2>2. CASE l # n
      BY <1>4, <1>5, <2>2 DEF DInv
    <2> QED BY <2>1, <2>2
  <1>8. ASSUME NEW r \in DOMAIN handler'
        PROVE  /\ Derived(handler[r].read, handler[r].on)'
               /\ Derived(handler[r].copy, handler[r].on)'
    <2>1. CASE r = n
      BY <1>1, <1>4, <1>6, <2>1
    <2>2. CASE r \in DOMAIN handler
      <3>1. handler[r].on # n
        BY <1>3, <2>2, OwnListing
      <3> QED BY <1>4, <1>5, <2>2, <3>1 DEF DInv
    <2> QED BY <1>4, <2>1, <2>2
  <1> QED BY <1>7, <1>8 DEF DInv

LEMMA DerivedStep ==
    ASSUME LInv, DInv, NEW r \in DOMAIN handler, NEW h \in Handler,
           handler' = [handler EXCEPT ![r] = h], UNCHANGED requests,
           Kept(h, handler[r]), Derived(h.read, h.on), Derived(h.copy, h.on),
           NEW W, Derived(W, h.on),
           listings' = listings \/ listings' = [listings EXCEPT ![h.on] = W],
           NEW C, Derived(C, h.on),
           cached' = cached \/ cached' = [cached EXCEPT ![h.on] = C]
    PROVE  DInv'
  <1>1. /\ DOMAIN handler' = DOMAIN handler /\ handler'[r] = h
        /\ \A q \in DOMAIN handler \ {r} : handler'[q] = handler[q]
    BY HandlerMoves
  <1>2. \A x, l : Derived(x, l)' <=> Derived(x, l)
    BY <1>1 DEF Derived, Kept
  <1>3. h.on \in Ids /\ (h.on = 0 \/ h.on \in DOMAIN handler)
    BY OwnListing DEF Kept
  <1>4. ASSUME NEW l \in Ids
        PROVE  /\ Derived(listings'[l], l) /\ Derived(cached'[l], l)
               /\ listings'[l] # None \/ cached'[l] # None => l = 0 \/ l \in DOMAIN handler'
    <2>1. CASE l # h.on
      <3>1. listings'[l] = listings[l] /\ cached'[l] = cached[l]
        BY <2>1 DEF LInv, LType
      <3> QED BY <1>1, <3>1 DEF DInv
    <2>2. CASE l = h.on
      <3>1. listings'[l] = listings[l] \/ listings'[l] = W
        BY <2>2 DEF LInv, LType
      <3>2. cached'[l] = cached[l] \/ cached'[l] = C
        BY <2>2 DEF LInv, LType
      <3> QED BY <1>1, <1>3, <2>2, <3>1, <3>2 DEF DInv
    <2> QED BY <2>1, <2>2
  <1>5. ASSUME NEW q \in DOMAIN handler'
        PROVE  /\ Derived(handler'[q].read, handler'[q].on)
               /\ Derived(handler'[q].copy, handler'[q].on)
    <2>1. CASE q = r
      BY <1>1, <2>1
    <2>2. CASE q # r
      BY <1>1, <2>2 DEF DInv
    <2> QED BY <2>1, <2>2
  <1> QED BY <1>2, <1>4, <1>5 DEF DInv

LEMMA DerivedNext ==
    ASSUME LInv, DInv, NEW r \in Requests,
           \/ GetListingById(r) \/ SaveListing(r) \/ SyncWithMarketplaces(r)
           \/ \E i \in Images : ProcessListingImage(r, i)
           \/ \E key \in Keys : CacheListingData(r, key)
    PROVE  DInv'
  <1> DEFINE g == handler[r]
  <1>0. r \in DOMAIN handler /\ UNCHANGED requests
    BY DEF GetListingById, SaveListing, SyncWithMarketplaces, ProcessListingImage,
           CacheListingData, Stage
  <1>1. /\ g \in Handler /\ Staged(g, r) /\ Linked(g)
        /\ Derived(g.read, g.on) /\ Derived(g.copy, g.on)
    BY <1>0 DEF LInv, LType, DInv
  <1>2. /\ g.on \in Ids /\ Derived(listings[g.on], g.on) /\ Derived(None, g.on)
        /\ listings[g.on] \in Row \cup {None}
    BY <1>0, OwnListing DEF DInv, Derived, LInv, LType
  <1>3. ASSUME NEW h \in Handler, handler' = [handler EXCEPT ![r] = h], Kept(h, g),
               h.read \in {g.read, listings[g.on]}, h.copy = g.copy,
               UNCHANGED listings,
               cached' = cached \/ cached' = [cached EXCEPT ![g.on] = g.copy]
        PROVE  DInv'
    <2>1. h.on = g.on
      BY <1>3 DEF Kept
    <2> QED BY <1>0, <1>1, <1>2, <1>3, <2>1, DerivedStep
  <1>4. CASE GetListingById(r)
    <2>1. UNCHANGED <<listings, cached>>
      BY <1>4 DEF GetListingById
    <2>2. CASE handler' = [handler EXCEPT ![r].read = listings[handler[r].on],
                                          ![r].stage = "images"]
      <3> DEFINE h == [handler[r] EXCEPT !.read = listings[handler[r].on],
                                         !.stage = "images"]
      <3>1. /\ h \in Handler /\ Kept(h, g) /\ h.read = listings[g.on]
            /\ h.copy = g.copy
        BY <1>1, <1>2 DEF Handler, Kept
      <3>2. handler' = [handler EXCEPT ![r] = h]
        BY <2>2
      <3> HIDE DEF h
      <3> QED BY <1>3, <2>1, <3>1, <3>2
    <2>3. CASE handler' = [handler EXCEPT ![r].stage = "failed", ![r].left = {}]
      <3> DEFINE h == [handler[r] EXCEPT !.stage = "failed", !.left = {}]
      <3>1. h \in Handler /\ Kept(h, g) /\ h.read = g.read /\ h.copy = g.copy
        BY <1>1 DEF Handler, Kept
      <3>2. handler' = [handler EXCEPT ![r] = h]
        BY <2>3
      <3> HIDE DEF h
      <3> QED BY <1>3, <2>1, <3>1, <3>2
    <2> QED BY <1>4, <2>2, <2>3 DEF GetListingById
  <1>5. ASSUME NEW i \in Images, ProcessListingImage(r, i)
        PROVE  DInv'
    <2>1. UNCHANGED <<listings, cached>>
      BY <1>5 DEF ProcessListingImage
    <2>2. PICK st \in {g.stage, "failed"} :
            handler' = [handler EXCEPT ![r].left = @ \ {i}, ![r].stage = st]
      <3>1. CASE handler' = [handler EXCEPT ![r].left = @ \ {i}]
        <4>1. handler' = [handler EXCEPT ![r].left = @ \ {i}, ![r].stage = g.stage]
          BY <1>0, <1>1, <3>1 DEF Handler, LInv, LType
        <4> QED BY <4>1
      <3>2. CASE handler' = [handler EXCEPT ![r].left = @ \ {i}, ![r].stage = "failed"]
        BY <3>2
      <3> QED BY <1>5, <3>1, <3>2 DEF ProcessListingImage
    <2> DEFINE h == [handler[r] EXCEPT !.left = handler[r].left \ {i}, !.stage = st]
    <2>3. h \in Handler /\ Kept(h, g) /\ h.read = g.read /\ h.copy = g.copy
      BY <1>1 DEF Handler, Kept
    <2>4. handler' = [handler EXCEPT ![r] = h]
      BY <2>2
    <2> HIDE DEF h
    <2> QED BY <1>3, <2>1, <2>3, <2>4
  <1>6. CASE SaveListing(r)
    <2> DEFINE W == SavedRow(handler[r])
    <2>1. UNCHANGED cached /\ g.stage = "images"
      BY <1>6 DEF SaveListing, Stage
    <2>2. CASE handler' = [handler EXCEPT ![r].stage = "failed"] /\ UNCHANGED listings
      <3> DEFINE h == [handler[r] EXCEPT !.stage = "failed"]
      <3>1. h \in Handler /\ Kept(h, g) /\ h.read = g.read /\ h.copy = g.copy
        BY <1>1 DEF Handler, Kept
      <3>2. handler' = [handler EXCEPT ![r] = h]
        BY <2>2
      <3> HIDE DEF h
      <3> QED BY <1>3, <2>1, <2>2, <3>1, <3>2
    <2>3. CASE /\ listings' = [listings EXCEPT ![g.on] = W]
               /\ handler' = [handler EXCEPT ![r].copy = W, ![r].saved = TRUE,
                      ![r].writes = Keys, ![r].stage = IF g.syncs THEN "sync" ELSE "cache"]
      <3> DEFINE h == [handler[r] EXCEPT !.copy = W, !.saved = TRUE, !.writes = Keys,
                                         !.stage = IF g.syncs THEN "sync" ELSE "cache"]
      <3>1. g.kind = "update" => listings[g.on] \in Row /\ g.read \in Row
        BY <1>0, <1>1, <2>1, ListingIsThere DEF Staged, Handler
      <3>2. W \in Row /\ Derived(W, g.on)
        <4>1. CASE g.kind = "create"
          <5>1. /\ W \in Row /\ W.ai = W.images /\ W.priced = g.want /\ g.on = r
            BY <1>1, <4>1 DEF SavedRow, Row, Handler, Staged
          <5> HIDE DEF W
          <5> QED BY <5>1 DEF Derived
        <4>2. CASE g.kind = "update" /\ g.want = {}
          <5>1. W = listings[g.on]
            BY <4>2 DEF SavedRow
          <5> HIDE DEF W
          <5> QED BY <1>2, <3>1, <4>2, <5>1
        <4>3. CASE g.kind = "update" /\ g.want # {}
          <5>1. /\ W \in Row /\ W.ai = W.images /\ W.priced = g.read.priced
            BY <1>1, <3>1, <4>3 DEF SavedRow, Row, Handler
          <5> HIDE DEF W
          <5> QED BY <1>1, <3>1, <4>3, <5>1, NoneIsNoValue DEF Derived
        <4> QED BY <1>1, <4>1, <4>2, <4>3 DEF Handler
      <3> HIDE DEF W
      <3>3. h \in Handler /\ Kept(h, g) /\ h.read = g.read /\ h.copy = W /\ h.on = g.on
        BY <1>1, <3>2 DEF Handler, Kept, Keys
      <3>4. handler' = [handler EXCEPT ![r] = h]
        BY <2>3
      <3> HIDE DEF h
      <3> QED BY <1>0, <1>1, <1>2, <2>1, <2>3, <3>2, <3>3, <3>4, DerivedStep
    <2> QED BY <1>6, <2>2, <2>3 DEF SaveListing
  <1>7. CASE SyncWithMarketplaces(r)
    <2>1. UNCHANGED cached /\ g.saved
      BY <1>1, <1>7 DEF SyncWithMarketplaces, Stage, Staged
    <2>2. CASE handler' = [handler EXCEPT ![r].stage = "failed", ![r].writes = {}]
               /\ UNCHANGED listings
      <3> DEFINE h == [handler[r] EXCEPT !.stage = "failed", !.writes = {}]
      <3>1. h \in Handler /\ Kept(h, g) /\ h.read = g.read /\ h.copy = g.copy
        BY <1>1 DEF Handler, Kept
      <3>2. handler' = [handler EXCEPT ![r] = h]
        BY <2>2
      <3> HIDE DEF h
      <3> QED BY <1>3, <2>1, <2>2, <3>1, <3>2
    <2>3. CASE /\ handler' = [handler EXCEPT ![r].stage = "cache"]
               /\ listings' = [listings EXCEPT ![g.on].synced = @ \/ g.kind = "create"]
      <3> DEFINE h == [handler[r] EXCEPT !.stage = "cache"]
                 W == [listings[g.on] EXCEPT !.synced = @ \/ g.kind = "create"]
      <3>1. listings[g.on] \in Row
        BY <1>0, <2>1, ListingIsThere
      <3>2. Derived(W, g.on)
        BY <1>2, <3>1, NoneIsNoValue DEF Derived, Row
      <3>3. listings' = [listings EXCEPT ![g.on] = W]
        BY <2>3
      <3> HIDE DEF W
      <3>4. /\ h \in Handler /\ Kept(h, g) /\ h.read = g.read /\ h.copy = g.copy
            /\ h.on = g.on
        BY <1>1 DEF Handler, Kept
      <3>5. handler' = [handler EXCEPT ![r] = h]
        BY <2>3
      <3> HIDE DEF h
      <3> QED BY <1>0, <1>1, <1>2, <2>1, <3>2, <3>3, <3>4, <3>5, DerivedStep
    <2> QED BY <1>7, <2>2, <2>3 DEF SyncWithMarketplaces
  <1>8. ASSUME NEW key \in Keys, CacheListingData(r, key)
        PROVE  DInv'
    <2>1. /\ UNCHANGED listings
          /\ cached' = cached \/ cached' = [cached EXCEPT ![g.on] = g.copy]
      BY <1>8 DEF CacheListingData
    <2>2. PICK st \in {g.stage, "done", "failed"} :
            handler' = [handler EXCEPT ![r].writes = g.writes \ {key}, ![r].stage = st]
      BY <1>8 DEF CacheListingData
    <2> DEFINE h == [handler[r] EXCEPT !.writes = g.writes \ {key}, !.stage = st]
    <2>3. h \in Handler /\ Kept(h, g) /\ h.read = g.read /\ h.copy = g.copy
      BY <1>1 DEF Handler, Kept
    <2>4. handler' = [handler EXCEPT ![r] = h]
      BY <2>2
    <2> HIDE DEF h
    <2> QED BY <1>3, <2>1, <2>3, <2>4
  <1> QED BY <1>4, <1>5, <1>6, <1>7, <1>8

-----------------------------------------------------------------------------
\* The theorems.

CatalogueInv == RInv /\ LInv /\ DInv

LEMMA CatalogueNextInv == CatalogueInv /\ [CatalogueNext]_catalogueVars => CatalogueInv'
  <1> SUFFICES ASSUME CatalogueInv, [CatalogueNext]_catalogueVars PROVE CatalogueInv'
    OBVIOUS
  <1> USE DEF CatalogueInv
  <1>1. ASSUME NEW want \in SUBSET Images, NEW syncs \in BOOLEAN,
               CreateListing(want, syncs), UNCHANGED <<searchVars, redisVars>>
        PROVE  CatalogueInv'
    <2>1. /\ New(handler, NewHandler("create", requests + 1, want, syncs))
          /\ UNCHANGED <<listings, cached, cachedImages, crossed>>
      BY <1>1 DEF CreateListing
    <2>2. /\ requests + 1 \in Ids /\ requests < MaxRequests /\ Possible
          /\ requests' = requests + 1
      BY <2>1, CatalogueAssumption DEF New, Ids, RInv, Counters
    <2>3. LInv'
      BY <2>1, <2>2, NewHandlerIs DEF RInv
    <2>6. DInv'
      BY <2>1, <2>2, NewDerived DEF RInv
    <2>4. Counters' /\ BreakerTimed'
      BY <1>1, <2>2, RequestStep DEF RInv
    <2>5. SearchInv'
      BY <1>1, <2>2 DEF RInv, Counters, SearchInv, Tracked, searchVars, redisVars
    <2> QED BY <2>3, <2>4, <2>5, <2>6 DEF RInv
  <1>2. ASSUME NEW on \in Ids, NEW want \in SUBSET Images, NEW syncs \in BOOLEAN,
               UpdateListing(on, want, syncs), UNCHANGED <<searchVars, redisVars>>
        PROVE  CatalogueInv'
    <2>1. /\ New(handler, NewHandler("update", on, want, syncs))
          /\ UNCHANGED <<listings, cached, cachedImages, crossed>>
          /\ \/ on = 0
             \/ /\ on \in DOMAIN handler
                /\ handler[on].kind = "create" /\ handler[on].stage = "done"
      BY <1>2 DEF UpdateListing, Stage
    <2>2. requests < MaxRequests /\ Possible /\ requests' = requests + 1
      BY <2>1 DEF New
    <2>3. LInv'
      BY <2>1, NewHandlerIs DEF RInv
    <2>6. DInv'
      BY <2>1, NewDerived DEF RInv
    <2>4. Counters' /\ BreakerTimed'
      BY <1>2, <2>2, RequestStep DEF RInv
    <2>5. SearchInv'
      BY <1>2, <2>2 DEF RInv, Counters, SearchInv, Tracked, searchVars, redisVars
    <2> QED BY <2>3, <2>4, <2>5, <2>6 DEF RInv
  <1>3. ASSUME UNCHANGED <<requests, searchVars, redisVars>>
        PROVE  RInv'
    BY <1>3 DEF RInv, Counters, BreakerTimed, SearchInv, Tracked, searchVars, redisVars
  <1>4. ASSUME NEW r \in Requests, UNCHANGED <<searchVars, redisVars>>,
               \/ GetListingById(r) \/ SaveListing(r) \/ SyncWithMarketplaces(r)
               \/ \E i \in Images : ProcessListingImage(r, i)
               \/ \E key \in Keys : CacheListingData(r, key)
        PROVE  CatalogueInv'
    <2>1. UNCHANGED requests
      BY <1>4 DEF GetListingById, SaveListing, SyncWithMarketplaces,
                  ProcessListingImage, CacheListingData
    <2>2. LInv'
      BY <1>4, QuietSteps, SaveStep, SyncStep, CacheStep
    <2>3. RInv'
      BY <1>3, <1>4, <2>1
    <2>4. DInv'
      BY <1>4, DerivedNext
    <2> QED BY <2>2, <2>3, <2>4
  <1>5. ASSUME UNCHANGED listingVars, requests' \in Nat, requests' >= requests
        PROVE  LInv' /\ DInv'
    <2>1. UNCHANGED <<listings, cached, cachedImages, handler, crossed>>
      BY <1>5 DEF listingVars
    <2>2. 1 .. requests \subseteq 1 .. requests'
      BY <1>5 DEF RInv, Counters
    <2>3. LType'
      BY <2>1, <2>2 DEF LInv, LType
    <2>4. \A r \in DOMAIN handler' : Staged(handler'[r], r) /\ Linked(handler[r])'
      BY <2>1 DEF LInv, Linked
    <2>5. ASSUME NEW l \in Ids PROVE Copies(l)'
      BY <2>1 DEF LInv, Copies, Active, Broken, Agrees, Updated
    <2>6. DInv'
      BY <2>1 DEF DInv, Derived
    <2> QED BY <2>3, <2>4, <2>5, <2>6 DEF LInv
  <1>6. ASSUME \/ \E p \in Params : SearchListings(p) \/ Expire(p)
               \/ \E r \in Requests : Fire(r) \/ ExecuteSearch(r) \/ Set(r) \/ Exec(r)
               \/ Reset,
               UNCHANGED <<listingVars, redisVars>>
        PROVE  CatalogueInv'
    <2>1. RInv'
      BY <1>6, SearchStep
    <2>2. requests' \in Nat /\ requests' >= requests
      <3>1. ASSUME NEW p \in Params, SearchListings(p)
            PROVE  requests' = requests + 1
        BY <3>1 DEF SearchListings, New
      <3>2. ASSUME NEW p \in Params, Expire(p)
            PROVE  requests' = requests
        BY <3>2 DEF Expire
      <3>3. ASSUME NEW r \in Requests, Fire(r) \/ ExecuteSearch(r) \/ Set(r) \/ Exec(r)
            PROVE  requests' = requests
        BY <3>3 DEF Fire, ExecuteSearch, Set, Exec
      <3>4. ASSUME Reset
            PROVE  requests' = requests
        BY <3>4 DEF Reset
      <3>5. requests' = requests \/ requests' = requests + 1
        BY <1>6, <3>1, <3>2, <3>3, <3>4
      <3> QED BY <3>5 DEF RInv, Counters
    <2> QED BY <1>5, <1>6, <2>1, <2>2
  <1>7. ASSUME ClientError \/ Ready \/ HealthCheckFails \/ TimerFires,
               UNCHANGED <<requests, listingVars, searchVars>>
        PROVE  CatalogueInv'
    <2>1. Counters' /\ BreakerTimed' /\ failed' >= failed
      BY <1>7, RedisStep DEF RInv
    <2>2. \A s : Tracked(s, failed) => Tracked(s, failed')
      BY <2>1, CatalogueAssumption DEF Tracked, RInv, Counters
    <2>3. SearchInv'
      BY <1>7, <2>2 DEF RInv, SearchInv, searchVars
    <2>4. LInv' /\ DInv'
      BY <1>5, <1>7 DEF RInv, Counters
    <2> QED BY <2>1, <2>3, <2>4 DEF RInv
  <1>8. ASSUME UNCHANGED catalogueVars
        PROVE  CatalogueInv'
    <2>1. UNCHANGED <<requests, searchVars, redisVars>> /\ UNCHANGED listingVars
      BY <1>8 DEF catalogueVars
    <2> QED BY <1>3, <1>5, <2>1 DEF RInv, Counters
  <1> QED BY <1>1, <1>2, <1>4, <1>6, <1>7, <1>8 DEF CatalogueNext

\* The inductive invariant holds in every state.
THEOREM CatalogueInvariance == CatalogueSpec => []CatalogueInv
  <1>1. CatalogueInit => CatalogueInv
    BY RInit, LInit, DInit DEF CatalogueInv
  <1> QED BY <1>1, CatalogueNextInv, PTL DEF CatalogueSpec

\* The variables keep their shape: failures, timers and health checks stay
\* within what happened to the client.
THEOREM CatalogueTypeCorrect == CatalogueSpec => []CatalogueTypeOK
  <1>1. CatalogueInv => CatalogueTypeOK
    <2> SUFFICES ASSUME CatalogueInv PROVE CatalogueTypeOK
      OBVIOUS
    <2>1. /\ requests \in 0 .. MaxRequests /\ 1 .. requests \subseteq Requests
          /\ requests \in Nat /\ failed \in Nat /\ intervals \in Nat /\ timers \in Nat
          /\ requests + failed + intervals <= MaxEvents
          /\ redis \in [failures : Nat, isOpen : BOOLEAN]
          /\ redis.failures <= failed /\ timers <= failed
      BY CatalogueAssumption DEF CatalogueInv, RInv, Counters, Requests
    <2>2. /\ failed \in 0 .. MaxEvents /\ intervals \in 0 .. MaxEvents
          /\ timers \in 0 .. MaxEvents /\ redis.failures \in 0 .. MaxEvents
      BY <2>1, CatalogueAssumption
    <2>3. redis \in [failures : 0 .. MaxEvents, isOpen : BOOLEAN]
      BY <2>1, <2>2
    <2>4. /\ DOMAIN search \subseteq Requests
          /\ \A r \in DOMAIN search : search[r] \in Search
          /\ found \subseteq Params /\ breaker \in BreakerState
      BY <2>1 DEF CatalogueInv, RInv, SearchInv, Tracked
    <2>5. /\ DOMAIN handler \subseteq Requests
          /\ \A r \in DOMAIN handler : handler[r] \in Handler
      BY <2>1 DEF CatalogueInv, LInv, LType
    <2> QED
      BY <2>1, <2>2, <2>3, <2>4, <2>5 DEF CatalogueTypeOK, CatalogueInv, RInv, Counters, LInv, LType
  <1> QED BY <1>1, CatalogueInvariance, PTL

\* The breaker of RedisService is open from the failure that reaches the
\* threshold on and never without a timer, whatever the timers of earlier
\* failures do to it.
THEOREM BreakerIsTimed == CatalogueSpec => []BreakerTimed
  <1>1. CatalogueInv => BreakerTimed
    BY DEF CatalogueInv, RInv
  <1> QED BY <1>1, CatalogueInvariance, PTL

\* An answered search fails for its key, for Redis at that moment, or for
\* THRESHOLD failures before.
THEOREM LostSearchesAreExplained == CatalogueSpec => []SearchLostExplained
  <1>1. CatalogueInv => SearchLostExplained
    BY DEF CatalogueInv, RInv, SearchInv, Tracked, SearchLostExplained, At
  <1> QED BY <1>1, CatalogueInvariance, PTL

\* The analysis that a listing and its cached copy hold is the one of the images
\* they show, however updates cross; its price stays the one of its creation.
THEOREM AnalysesAreOfTheImages == CatalogueSpec => []AnalysisOfImages
  <1>1. CatalogueInv => AnalysisOfImages
    BY DEF CatalogueInv, DInv, AnalysisOfImages
  <1> QED BY <1>1, CatalogueInvariance, PTL

\* The cached copies are those of the row, without its marketplaces until the
\* first update, but for the handlers between the two.
THEOREM ListingCacheIsExplained == CatalogueSpec => []ListingCacheExplained
  <1>1. CatalogueInv => ListingCacheExplained
    <2> SUFFICES ASSUME CatalogueInv, NEW l \in Ids, listings[l] # None, l \notin crossed,
                        ~ \E r \in DOMAIN handler :
                            handler[r].on = l /\ handler[r].saved /\ ~ Stage(r, "done")
                 PROVE  /\ cachedImages[l] \in {None, listings[l].images}
                        /\ cached[l] # None =>
                            cached[l] = IF Updated(l) THEN listings[l]
                                        ELSE [listings[l] EXCEPT !.synced = FALSE]
      BY DEF ListingCacheExplained
    <2>1. ~ Broken(l)
      BY DEF Broken, Stage
    <2>2. \A r \in DOMAIN handler : ~ Active(r, l)
      BY DEF Active, Stage, CatalogueInv, LInv, Staged
    <2>3. Copies(l)
      BY DEF CatalogueInv, LInv
    <2> QED BY <2>1, <2>2, <2>3 DEF Copies, Agrees
  <1> QED BY <1>1, CatalogueInvariance, PTL

-----------------------------------------------------------------------------
(***************************************************************************)
(* Marketplaces: how often the retry loops create what a job asks for, who *)
(* is told of it, and in which order quantities arrive, for any number of  *)
(* jobs, retries, deliveries and crashes.                                  *)
(***************************************************************************)

LoopState == [state : {"off", "ready", "posted", "done", "failed", "dead"},
              outer : 0 .. MAX_RETRIES, inner : Nat]

\* How many attempts a service repeats.
Inner(p) == IF p = "AMAZON" THEN MAX_RETRIES
            ELSE IF p \in Supplies THEN USPS_ATTEMPTS - 1 ELSE 0

\* The attempt of a loop in state s that has the numbers o and i is over, or has
\* created something.
Past(s, o, i) ==
    \/ s.state \in {"done", "failed", "dead"}
    \/ s.state \in {"ready", "posted"} /\ o < s.outer
    \/ s.state = "ready" /\ o = s.outer /\ i < s.inner
    \/ s.state = "posted" /\ o = s.outer /\ i <= s.inner

\* The attempts that a job has for a target, and those that have been made.
Tries(j, p) == (1 .. MaxDeliveries) \X ((0 .. Outer(j)) \X (0 .. Inner(p)))
Made(j, p) == {a \in Tries(j, p) : Past(loop[<<j, p, a[1]>>], a[2][1], a[2][2])}

LoopInv(j, p, d) ==
    LET s == loop[<<j, p, d>>] IN
    /\ s.state = "off" => s = Off
    /\ s.state # "off" => p \in request[j].targets /\ d <= deliveries[j]
    /\ s.outer <= Outer(j) /\ s.inner <= Inner(p)
    /\ s.state \in {"posted", "done"} => entries[<<j, p>>] > 0

\* Without a crash a message is delivered again only after one of its loops has
\* failed, and a loop that has failed stays so.
JobInv(j) ==
    /\ message[j] = "none" <=> request[j].kind # "sync"
    /\ request[j].kind # "sync" => deliveries[j] <= 1
    /\ message[j] = "handling" => deliveries[j] > 0
    /\ crashes = 0 => \A d \in 1 .. deliveries[j] :
            d < deliveries[j] \/ message[j] = "queued"
                => \E p \in Targets : loop[<<j, p, d>>].state = "failed"

\* Every entry has an attempt of its own.  As long as nobody has lost one, the
\* loop that has created it knows of it.
EntryInv(j, p) ==
    /\ entries[<<j, p>>] <= Cardinality(Made(j, p))
    /\ entries[<<j, p>>] > 0 /\ lost[<<j, p>>] = 0 /\ crashes = 0 =>
            \E d \in 1 .. MaxDeliveries : loop[<<j, p, d>>].state \in {"posted", "done"}

\* A quantity that is older than one that has been handed out, one that may
\* still arrive or the one that the marketplace has, is set and acknowledged, or
\* raced with a newer one.
StockInv ==
    \A u, v \in 1 .. Updates :
        u < v /\ (update[v] # "queued" \/ quantity = v \/ late[v] > 0) =>
            update[u] = "acked" \/ u \in raced

MarketplacesInv ==
    /\ MarketplacesTypeOK
    /\ \A j \in Jobs, p \in Targets, d \in 1 .. MaxDeliveries : LoopInv(j, p, d)
    /\ \A j \in Jobs : JobInv(j)
    /\ \A j \in Jobs, p \in Targets : EntryInv(j, p)
    /\ StockInv /\ AnswersTrue /\ DuplicatesExplained

\* The steps of one retry loop: what an attempt, or the work on its answer, does.
Turn(j, p, d, s) ==
    LET was == loop[<<j, p, d>>] IN
    /\ was.state \in {"ready", "posted"} /\ s.state \in {"ready", "posted", "done", "failed"}
    /\ s \in LoopState /\ s.outer <= Outer(j) /\ s.inner <= Inner(p)
    /\ loop' = [loop EXCEPT ![<<j, p, d>>] = s]
    /\ \A o, i \in Nat : Past(was, o, i) => Past(s, o, i)
    /\ \/ entries' = entries /\ s.state # "posted"
       \/ /\ was.state = "ready" /\ Past(s, was.outer, was.inner)
          /\ entries' = [entries EXCEPT ![<<j, p>>] = @ + 1]
          /\ s.state # "posted" => lost' = [lost EXCEPT ![<<j, p>>] = @ + 1]
    /\ was.state = "posted" /\ s.state # "done" => lost' = [lost EXCEPT ![<<j, p>>] = @ + 1]
    /\ lost' = lost \/ lost' = [lost EXCEPT ![<<j, p>>] = @ + 1]
    /\ s.state = "done" => was.state = "posted"
    /\ \/ told' = told \/ Answer(<<j, p>>, "failed")
       \/ s.state = "done" /\ Answer(<<j, p>>, "ok")

LEMMA OuterInner ==
    ASSUME MarketplacesTypeOK, NEW j \in Jobs, NEW p \in Targets
    PROVE  /\ Outer(j) \in 0 .. MAX_RETRIES /\ Outer(j) \in Nat
           /\ Inner(p) \in Nat
  BY MarketplacesAssumption DEF Outer, Inner, MarketplacesTypeOK

LEMMA StateSet ==
    ASSUME NEW s \in LoopState, NEW a
    PROVE  [s EXCEPT !.state = a] = [state |-> a, outer |-> s.outer, inner |-> s.inner]
  BY SMT DEF LoopState

LEMMA InnerSet ==
    ASSUME NEW s \in LoopState, NEW i
    PROVE  [s EXCEPT !.inner = i] = [state |-> s.state, outer |-> s.outer, inner |-> i]
  BY SMT DEF LoopState

LEMMA OffSet ==
    ASSUME MAX_RETRIES \in Nat, NEW a
    PROVE  [Off EXCEPT !.state = a] = [state |-> a, outer |-> 0, inner |-> 0]
  <1>1. Off \in LoopState /\ Off.outer = 0 /\ Off.inner = 0
    BY DEF Off, LoopState
  <1> QED BY <1>1, StateSet

LEMMA RetryTurns ==
    ASSUME MarketplacesTypeOK, NEW j \in Jobs, NEW p \in Targets,
           NEW d \in 1 .. MaxDeliveries, Retry(<<j, p, d>>, Inner(p)),
           LoopInv(j, p, d), loop[<<j, p, d>>].state \in {"ready", "posted"}
    PROVE  \E s \in LoopState :
              /\ s.state \in {"ready", "failed"}
              /\ s.outer <= Outer(j) /\ s.inner <= Inner(p)
              /\ loop' = [loop EXCEPT ![<<j, p, d>>] = s]
              /\ \A o, i \in Nat :
                    \/ o < loop[<<j, p, d>>].outer
                    \/ o = loop[<<j, p, d>>].outer /\ i <= loop[<<j, p, d>>].inner
                    => Past(s, o, i)
              /\ told' = told \/ Answer(<<j, p>>, "failed")
  <1> DEFINE l == <<j, p, d>>
             was == loop[l]
  <1>1. l \in Loops /\ was \in LoopState /\ Job(l) = j /\ Target(l) = <<j, p>>
    BY DEF Loops, MarketplacesTypeOK, LoopState, Job, Target
  <1>2. Outer(j) \in 0 .. MAX_RETRIES /\ Inner(p) \in Nat /\ MAX_RETRIES \in Nat
    BY OuterInner, MarketplacesAssumption
  <1>3. was.outer \in Nat /\ was.inner \in Nat /\ was.outer <= Outer(j) /\ was.inner <= Inner(p)
    BY <1>1 DEF LoopInv, LoopState
  <1> HIDE DEF l
  <1>4. CASE /\ was.inner < Inner(p) /\ UNCHANGED told
             /\ loop' = [loop EXCEPT ![l] = [was EXCEPT !.state = "ready", !.inner = @ + 1]]
    <2> DEFINE s == [state |-> "ready", outer |-> was.outer, inner |-> was.inner + 1]
    <2>1. [was EXCEPT !.state = "ready", !.inner = @ + 1] = s
      <3> DEFINE r == [was EXCEPT !.state = "ready"]
      <3>1. r = [state |-> "ready", outer |-> was.outer, inner |-> was.inner]
        BY <1>1, StateSet
      <3>2. /\ r \in LoopState /\ r.state = "ready" /\ r.outer = was.outer
        BY <1>1, <3>1 DEF LoopState
      <3> HIDE DEF r
      <3>3. [r EXCEPT !.inner = was.inner + 1]
                = [state |-> r.state, outer |-> r.outer, inner |-> was.inner + 1]
        BY <3>2, InnerSet
      <3>4. [r EXCEPT !.inner = was.inner + 1] = s
        BY <3>2, <3>3
      <3> USE DEF r
      <3> QED BY <3>4, Zenon
    <2>2. s \in LoopState
      BY <1>1, <1>3 DEF LoopState
    <2>3. s.outer <= Outer(j) /\ s.inner <= Inner(p)
      BY <1>2, <1>3, <1>4
    <2>4. \A o, i \in Nat : o < was.outer \/ (o = was.outer /\ i <= was.inner) => Past(s, o, i)
      BY <1>3 DEF Past
    <2>5. loop' = [loop EXCEPT ![l] = s]
      BY <1>4, <2>1
    <2> QED BY <1>4, <2>2, <2>3, <2>4, <2>5 DEF l
  <1>5. CASE /\ was.outer < Outer(j) /\ UNCHANGED told
             /\ loop' = [loop EXCEPT ![l] =
                            [state |-> "ready", outer |-> was.outer + 1, inner |-> 0]]
    <2> DEFINE s == [state |-> "ready", outer |-> was.outer + 1, inner |-> 0]
    <2>1. s \in LoopState
      BY <1>2, <1>3, <1>5 DEF LoopState
    <2>2. s.outer <= Outer(j) /\ s.inner <= Inner(p)
      BY <1>2, <1>3, <1>5
    <2>3. \A o, i \in Nat : o < was.outer \/ (o = was.outer /\ i <= was.inner) => Past(s, o, i)
      BY <1>3 DEF Past
    <2> QED BY <1>5, <2>1, <2>2, <2>3 DEF l
  <1>6. CASE Ends(l, "failed", "failed")
    <2> DEFINE s == [state |-> "failed", outer |-> 0, inner |-> 0]
    <2>1. s \in LoopState /\ s.outer <= Outer(j) /\ s.inner <= Inner(p)
      BY <1>2 DEF LoopState
    <2>2. loop' = [loop EXCEPT ![l] = s] /\ Answer(<<j, p>>, "failed")
      BY <1>1, <1>2, <1>6, OffSet DEF Ends
    <2> QED BY <2>1, <2>2 DEF Past, l
  <1> QED BY <1>1, <1>4, <1>5, <1>6 DEF Retry, l

\* An attempt that starts.
LEMMA AttemptTurns ==
    ASSUME MarketplacesTypeOK, NEW j \in Jobs, NEW p \in Targets,
           NEW d \in 1 .. MaxDeliveries, LoopInv(j, p, d),
           Refused(<<j, p, d>>, Inner(p)) \/ Created(<<j, p, d>>, Inner(p))
    PROVE  \E s \in LoopState : Turn(j, p, d, s)
  <1> DEFINE l == <<j, p, d>>
             was == loop[l]
  <1>1. l \in Loops /\ was \in LoopState /\ Target(l) = <<j, p>> /\ was.state = "ready"
    BY DEF Loops, MarketplacesTypeOK, LoopState, Target, Refused, Created
  <1>2. was.outer \in Nat /\ was.inner \in Nat
    BY <1>1 DEF LoopState
  <1>3. CASE Retry(l, Inner(p))
    <2>1. PICK s \in LoopState :
              /\ s.state \in {"ready", "failed"}
              /\ s.outer <= Outer(j) /\ s.inner <= Inner(p)
              /\ loop' = [loop EXCEPT ![l] = s]
              /\ \A o, i \in Nat :
                    o < was.outer \/ (o = was.outer /\ i <= was.inner) => Past(s, o, i)
              /\ told' = told \/ Answer(<<j, p>>, "failed")
      BY <1>1, <1>3, RetryTurns
    <2>2. \A o, i \in Nat : Past(was, o, i) => Past(s, o, i)
      BY <1>1, <1>2, <2>1 DEF Past
    <2>3. Past(s, was.outer, was.inner)
      BY <1>2, <2>1
    <2>4. \/ UNCHANGED <<entries, lost>>
          \/ /\ entries' = [entries EXCEPT ![<<j, p>>] = @ + 1]
             /\ lost' = [lost EXCEPT ![<<j, p>>] = @ + 1]
      <3>1. loop'[l] = s
        BY <1>1, <2>1 DEF MarketplacesTypeOK
      <3>2. loop' # [loop EXCEPT ![l].state = "posted"]
        BY <1>1, <2>1, <3>1 DEF MarketplacesTypeOK
      <3> QED BY <1>1, <3>2 DEF Refused, Created
    <2> QED BY <1>1, <2>1, <2>2, <2>3, <2>4 DEF Turn
  <1>4. CASE ~ Retry(l, Inner(p))
    <2> DEFINE s == [was EXCEPT !.state = "posted"]
    <2>1. /\ loop' = [loop EXCEPT ![l].state = "posted"]
          /\ entries' = [entries EXCEPT ![<<j, p>>] = @ + 1]
          /\ UNCHANGED <<told, lost>>
      BY <1>1, <1>4 DEF Refused, Created
    <2>2. /\ s \in LoopState /\ s.state = "posted"
          /\ s.outer = was.outer /\ s.inner = was.inner
      BY <1>1 DEF LoopState
    <2>3. loop' = [loop EXCEPT ![l] = s]
      BY <1>1, <2>1 DEF MarketplacesTypeOK
    <2>4. /\ \A o, i \in Nat : Past(was, o, i) => Past(s, o, i)
          /\ Past(s, was.outer, was.inner)
      BY <1>1, <1>2, <2>2 DEF Past
    <2> QED BY <1>1, <2>1, <2>2, <2>3, <2>4 DEF Turn, LoopInv
  <1> QED BY <1>3, <1>4

\* The work on an answer.
LEMMA AnswerTurns ==
    ASSUME MarketplacesTypeOK, NEW j \in Jobs, NEW p \in Targets,
           NEW d \in 1 .. MaxDeliveries, LoopInv(j, p, d),
           loop[<<j, p, d>>].state = "posted",
           \/ Completed(<<j, p, d>>)
           \/ Undone(<<j, p, d>>, Inner(p))
           \/ /\ lost' = [lost EXCEPT ![<<j, p>>] = @ + 1]
              /\ Ends(<<j, p, d>>, "failed", "failed")
              /\ UNCHANGED entries
    PROVE  \E s \in LoopState : Turn(j, p, d, s)
  <1> DEFINE l == <<j, p, d>>
             was == loop[l]
  <1>1. l \in Loops /\ was \in LoopState /\ Target(l) = <<j, p>>
    BY DEF Loops, MarketplacesTypeOK, LoopState, Target
  <1>2. was.outer \in Nat /\ was.inner \in Nat
    BY <1>1 DEF LoopState
  <1>3. Outer(j) \in Nat /\ Inner(p) \in Nat /\ MAX_RETRIES \in Nat
    BY OuterInner, MarketplacesAssumption
  <1>4. CASE Undone(l, Inner(p))
    <2>1. PICK s \in LoopState :
              /\ s.state \in {"ready", "failed"}
              /\ s.outer <= Outer(j) /\ s.inner <= Inner(p)
              /\ loop' = [loop EXCEPT ![l] = s]
              /\ \A o, i \in Nat :
                    o < was.outer \/ (o = was.outer /\ i <= was.inner) => Past(s, o, i)
              /\ told' = told \/ Answer(<<j, p>>, "failed")
      BY <1>1, <1>4, RetryTurns DEF Undone
    <2>2. \A o, i \in Nat : Past(was, o, i) => Past(s, o, i)
      BY <1>1, <1>2, <2>1 DEF Past
    <2> QED BY <1>1, <1>4, <2>1, <2>2 DEF Turn, Undone
  <1>5. ASSUME NEW c \in {"done", "failed"},
               loop' = [loop EXCEPT ![l] = [Off EXCEPT !.state = c]],
               UNCHANGED entries,
               IF c = "done" THEN Answer(<<j, p>>, "ok") /\ UNCHANGED lost
               ELSE Answer(<<j, p>>, "failed") /\ lost' = [lost EXCEPT ![<<j, p>>] = @ + 1]
        PROVE  \E s \in LoopState : Turn(j, p, d, s)
    <2> DEFINE s == [state |-> c, outer |-> 0, inner |-> 0]
    <2>1. s \in LoopState /\ s.outer <= Outer(j) /\ s.inner <= Inner(p)
      BY <1>3 DEF LoopState
    <2>2. loop' = [loop EXCEPT ![l] = s]
      BY <1>3, <1>5, OffSet
    <2>3. \A o, i \in Nat : Past(s, o, i)
      BY DEF Past
    <2> QED BY <1>5, <2>1, <2>2, <2>3 DEF Turn
  <1> QED BY <1>1, <1>4, <1>5 DEF Completed, Ends

LEMMA LoopsTurn ==
    ASSUME MarketplacesTypeOK, NEW l \in Loops,
           \A j \in Jobs, p \in Targets, d \in 1 .. MaxDeliveries : LoopInv(j, p, d),
           \/ AmazonAttempt(l) \/ AmazonVerification(l) \/ EbayAttempt(l)
           \/ EbayRecord(l) \/ WalmartAttempt(l) \/ WalmartInventory(l)
           \/ UspsAttempt(l) \/ Label(l) \/ Pickup(l) \/ Box(l)
    PROVE  /\ UNCHANGED <<request, message, deliveries, stock, crashes>>
           /\ \E j \in Jobs, p \in Targets, d \in 1 .. MaxDeliveries :
                \E s \in LoopState : Turn(j, p, d, s)
  <1>1. PICK j \in Jobs, p \in Targets, d \in 1 .. MaxDeliveries : l = <<j, p, d>>
    BY DEF Loops
  <1>2. l[2] = p /\ Target(l) = <<j, p>> /\ LoopInv(j, p, d)
    BY <1>1 DEF Target
  <1>3. UNCHANGED <<request, message, deliveries, stock, crashes>>
    BY DEF AmazonAttempt, AmazonVerification, EbayAttempt, EbayRecord, WalmartAttempt,
           WalmartInventory, UspsAttempt, Label, Pickup, Box, Checked, Attempts
  <1>4. \/ Refused(l, Inner(p)) \/ Created(l, Inner(p))
        \/ /\ loop[l].state = "posted"
           /\ \/ Completed(l) \/ Undone(l, Inner(p))
              \/ /\ lost' = [lost EXCEPT ![<<j, p>>] = @ + 1]
                 /\ Ends(l, "failed", "failed")
                 /\ UNCHANGED entries
    BY <1>2 DEF AmazonAttempt, AmazonVerification, EbayAttempt, EbayRecord, WalmartAttempt,
           WalmartInventory, UspsAttempt, Label, Pickup, Box, Checked, Inner, Supplies
  <1>5. \E s \in LoopState : Turn(j, p, d, s)
    BY <1>1, <1>2, <1>4, AttemptTurns, AnswerTurns
  <1> QED BY <1>3, <1>5

LEMMA MadeFinite ==
    ASSUME MarketplacesTypeOK, NEW j \in Jobs, NEW p \in Targets
    PROVE  /\ IsFiniteSet(Tries(j, p)) /\ IsFiniteSet(Made(j, p))
           /\ Cardinality(Made(j, p)) \in Nat
           /\ Cardinality(Tries(j, p)) = MaxDeliveries * ((Outer(j) + 1) * (Inner(p) + 1))
  <1>1. Outer(j) \in Nat /\ Inner(p) \in Nat /\ MaxDeliveries \in Nat \ {0}
    BY OuterInner, MarketplacesAssumption
  <1>2. /\ IsFiniteSet(0 .. Outer(j)) /\ Cardinality(0 .. Outer(j)) = Outer(j) + 1
        /\ IsFiniteSet(0 .. Inner(p)) /\ Cardinality(0 .. Inner(p)) = Inner(p) + 1
        /\ IsFiniteSet(1 .. MaxDeliveries) /\ Cardinality(1 .. MaxDeliveries) = MaxDeliveries
    <2>1. \A n \in Nat : IsFiniteSet(0 .. n) /\ Cardinality(0 .. n) = n + 1
      BY FS_Interval
    <2>2. \A n \in Nat : IsFiniteSet(1 .. n) /\ Cardinality(1 .. n) = n
      BY FS_Interval
    <2> QED BY <1>1, <2>1, <2>2
  <1>3. /\ IsFiniteSet((0 .. Outer(j)) \X (0 .. Inner(p)))
        /\ Cardinality((0 .. Outer(j)) \X (0 .. Inner(p))) = (Outer(j) + 1) * (Inner(p) + 1)
    BY <1>2, FS_Product
  <1>4. /\ IsFiniteSet(Tries(j, p))
        /\ Cardinality(Tries(j, p)) = MaxDeliveries * ((Outer(j) + 1) * (Inner(p) + 1))
    <2> DEFINE D == 1 .. MaxDeliveries
               A == (0 .. Outer(j)) \X (0 .. Inner(p))
    <2>1. /\ IsFiniteSet(D) /\ Cardinality(D) = MaxDeliveries
          /\ IsFiniteSet(A) /\ Cardinality(A) = (Outer(j) + 1) * (Inner(p) + 1)
      BY <1>2, <1>3
    <2>2. Tries(j, p) = D \X A
      BY DEF Tries
    <2> HIDE DEF D, A
    <2>3. IsFiniteSet(D \X A) /\ Cardinality(D \X A) = Cardinality(D) * Cardinality(A)
      BY <2>1, FS_Product
    <2> QED BY <2>1, <2>2, <2>3
  <1>5. Made(j, p) \subseteq Tries(j, p)
    BY DEF Made
  <1>6. IsFiniteSet(Made(j, p))
    BY <1>4, <1>5, FS_Subset
  <1> QED BY <1>4, <1>6, FS_CardinalityType

\* What an attempt has made stays made.
LEMMA MadeGrows ==
    ASSUME MarketplacesTypeOK, MarketplacesTypeOK', request' = request,
           NEW j \in Jobs, NEW p \in Targets,
           \A d \in 1 .. MaxDeliveries : \A o, i \in Nat :
                Past(loop[<<j, p, d>>], o, i) => Past(loop'[<<j, p, d>>], o, i)
    PROVE  /\ Made(j, p) \subseteq Made(j, p)'
           /\ Cardinality(Made(j, p)) <= Cardinality(Made(j, p)')
           /\ IsFiniteSet(Made(j, p)) /\ IsFiniteSet(Made(j, p)')
           /\ Cardinality(Made(j, p)) \in Nat /\ Cardinality(Made(j, p)') \in Nat
  <1>1. Tries(j, p)' = Tries(j, p)
    BY DEF Tries, Outer
  <1>2. \A a \in Tries(j, p) : a[1] \in 1 .. MaxDeliveries /\ a[2][1] \in Nat /\ a[2][2] \in Nat
    BY OuterInner DEF Tries
  <1>3. Made(j, p) \subseteq Made(j, p)'
    BY <1>1, <1>2 DEF Made
  <1>4. IsFiniteSet(Made(j, p)) /\ Cardinality(Made(j, p)) \in Nat
    BY MadeFinite
  <1>5. Made(j, p)' \subseteq Tries(j, p)
    BY <1>1 DEF Made
  <1>6. IsFiniteSet(Made(j, p)')
    BY <1>5, MadeFinite, FS_Subset
  <1> HIDE DEF Made
  <1>7. Cardinality(Made(j, p)') \in Nat /\ Cardinality(Made(j, p)) <= Cardinality(Made(j, p)')
    BY <1>3, <1>6, FS_Subset, FS_CardinalityType
  <1> QED BY <1>3, <1>4, <1>6, <1>7

LEMMA MarketplacesInitInv == MarketplacesInit => MarketplacesInv
  <1> SUFFICES ASSUME MarketplacesInit PROVE MarketplacesInv
    OBVIOUS
  <1> USE MarketplacesAssumption
  <1>1. MarketplacesTypeOK
    <2>1. Off \in LoopState
      BY DEF Off, LoopState
    <2>2. message \in [Jobs -> {"none", "queued", "handling", "acked"}]
      BY DEF MarketplacesInit
    <2>3. /\ update \in [1 .. Updates -> UpdateStates]
          /\ late \in [1 .. Updates -> 0 .. MaxLate]
      BY DEF MarketplacesInit, UpdateStates
    <2>4. /\ loop \in [Loops -> LoopState]
          /\ told \in [Jobs \X Targets -> {"nothing", "ok", "failed"}]
          /\ entries \in [Jobs \X Targets -> Nat] /\ lost \in [Jobs \X Targets -> Nat]
          /\ deliveries \in [Jobs -> 0 .. MaxDeliveries]
      BY <2>1 DEF MarketplacesInit
    <2>5. /\ request \in [Jobs -> Orders] /\ quantity \in 0 .. Updates
          /\ raced \in SUBSET (1 .. Updates) /\ crashes \in 0 .. MaxCrashes
      BY DEF MarketplacesInit
    <2> QED BY <2>2, <2>3, <2>4, <2>5 DEF MarketplacesTypeOK, LoopState
  <1>2. ASSUME NEW j \in Jobs, NEW p \in Targets, NEW d \in 1 .. MaxDeliveries
        PROVE  loop[<<j, p, d>>] = Off /\ LoopInv(j, p, d)
    <2>1. loop[<<j, p, d>>] = Off
      BY DEF MarketplacesInit, Loops
    <2>2. Outer(j) \in Nat /\ Inner(p) \in Nat
      BY <1>1, OuterInner
    <2> QED BY <2>1, <2>2 DEF LoopInv, Off
  <1>3. ASSUME NEW j \in Jobs PROVE JobInv(j)
    BY DEF MarketplacesInit, JobInv, MarketplacesTypeOK
  <1>4. ASSUME NEW j \in Jobs, NEW p \in Targets
        PROVE  entries[<<j, p>>] = 0 /\ EntryInv(j, p)
    <2>1. entries[<<j, p>>] = 0
      BY DEF MarketplacesInit
    <2>2. Cardinality(Made(j, p)) \in Nat
      BY <1>1, MadeFinite
    <2> QED BY <2>1, <2>2 DEF EntryInv
  <1>5. AnswersTrue /\ DuplicatesExplained
    <2>1. \A j \in Jobs : request[j].targets \subseteq Targets
      BY <1>1 DEF MarketplacesTypeOK
    <2>2. \A j \in Jobs, p \in Targets : told[<<j, p>>] # "ok" /\ message[j] # "acked"
      BY DEF MarketplacesInit
    <2> QED BY <1>4, <2>1, <2>2 DEF AnswersTrue, DuplicatesExplained
  <1>6. StockInv
    BY DEF MarketplacesInit, StockInv
  <1> QED BY <1>1, <1>2, <1>3, <1>4, <1>5, <1>6 DEF MarketplacesInv

\* Steps that create nothing.
LEMMA NothingCreated ==
    ASSUME MarketplacesInv, MarketplacesTypeOK', UNCHANGED <<request, entries>>,
           crashes <= crashes',
           \A t \in Jobs \X Targets : /\ lost[t] <= lost'[t]
                                      /\ told'[t] = "ok" => told[t] = "ok",
           \A l \in Loops : /\ loop[l].state = "failed" => loop'[l].state = "failed"
                            /\ loop[l].state \in {"posted", "done"} /\ crashes' = 0
                                => loop'[l].state \in {"posted", "done"}
                            /\ \A o, i \in Nat : Past(loop[l], o, i) => Past(loop'[l], o, i),
           \A j \in Jobs, p \in Targets, d \in 1 .. MaxDeliveries : LoopInv(j, p, d)',
           \A j \in Jobs : /\ JobInv(j)'
                           /\ message'[j] = "acked" =>
                                \/ message[j] = "acked"
                                \/ \A p \in request[j].targets : entries[<<j, p>>] > 0,
           StockInv'
    PROVE  MarketplacesInv'
  <1> USE DEF MarketplacesInv
  <1>1. \A j \in Jobs : request[j].targets \subseteq Targets
    BY MarketplacesAssumption DEF MarketplacesTypeOK
  <1>2. \A j \in Jobs, p \in Targets, d \in 1 .. MaxDeliveries : <<j, p, d>> \in Loops
    BY DEF Loops
  <1>3. \A t \in Jobs \X Targets : lost[t] \in Nat /\ lost'[t] \in Nat
    BY DEF MarketplacesTypeOK
  <1>4. crashes \in Nat /\ crashes' \in Nat
    BY DEF MarketplacesTypeOK
  <1>5. \A j \in Jobs, p \in Targets : EntryInv(j, p)'
    <2> SUFFICES ASSUME NEW j \in Jobs, NEW p \in Targets PROVE EntryInv(j, p)'
      OBVIOUS
    <2>1. /\ Cardinality(Made(j, p)) <= Cardinality(Made(j, p)')
          /\ Cardinality(Made(j, p)) \in Nat /\ Cardinality(Made(j, p)') \in Nat
      BY <1>2, MadeGrows
    <2>2. entries'[<<j, p>>] \in Nat /\ entries'[<<j, p>>] = entries[<<j, p>>]
      BY DEF MarketplacesTypeOK
    <2>3. entries'[<<j, p>>] <= Cardinality(Made(j, p)')
      BY <2>1, <2>2 DEF EntryInv
    <2>4. ASSUME entries'[<<j, p>>] > 0, lost'[<<j, p>>] = 0, crashes' = 0
          PROVE  \E d \in 1 .. MaxDeliveries : loop'[<<j, p, d>>].state \in {"posted", "done"}
      <3>1. lost[<<j, p>>] = 0 /\ crashes = 0
        BY <1>3, <1>4, <2>4
      <3> QED BY <1>2, <2>4, <3>1 DEF EntryInv
    <2> QED BY <2>3, <2>4 DEF EntryInv
  <1>6. AnswersTrue'
    BY <1>1 DEF AnswersTrue
  <1>7. DuplicatesExplained'
    <2> SUFFICES ASSUME NEW j \in Jobs, NEW p \in request[j].targets, entries[<<j, p>>] > 1
                 PROVE  \/ lost'[<<j, p>>] > 0
                        \/ \E l \in Loops : Job(l) = j /\ l[2] # p /\ loop'[l].state = "failed"
                        \/ crashes' > 0
      BY DEF DuplicatesExplained, Job
    <2>1. \/ lost[<<j, p>>] > 0
          \/ \E l \in Loops : Job(l) = j /\ l[2] # p /\ loop[l].state = "failed"
          \/ crashes > 0
      BY DEF DuplicatesExplained
    <2> QED BY <1>1, <1>3, <1>4, <2>1
  <1> QED BY <1>5, <1>6, <1>7

LEMMA AnswerTyped ==
    ASSUME MarketplacesTypeOK, NEW t \in Jobs \X Targets, NEW result \in {"ok", "failed"},
           told' = told \/ Answer(t, result)
    PROVE  /\ told' \in [Jobs \X Targets -> {"nothing", "ok", "failed"}]
           /\ \A u \in Jobs \X Targets :
                told'[u] = "ok" => told[u] = "ok" \/ (u = t /\ result = "ok")
  BY DEF Answer, MarketplacesTypeOK

LEMMA Counted ==
    ASSUME NEW S, NEW f \in [S -> Nat], NEW g, NEW t \in S,
           g = f \/ g = [f EXCEPT ![t] = @ + 1]
    PROVE  /\ g \in [S -> Nat]
           /\ \A u \in S : /\ f[u] \in Nat /\ f[u] <= g[u] /\ g[u] <= f[u] + 1
                           /\ u # t => g[u] = f[u]
  OBVIOUS

\* A step of a loop.
LEMMA TurnStep ==
    ASSUME MarketplacesInv, NEW j \in Jobs, NEW p \in Targets,
           NEW d \in 1 .. MaxDeliveries, NEW s \in LoopState, Turn(j, p, d, s),
           UNCHANGED <<request, message, deliveries, stock, crashes>>
    PROVE  MarketplacesInv'
  <1> DEFINE l == <<j, p, d>>
             t == <<j, p>>
             was == loop[l]
  <1> USE DEF MarketplacesInv
  <1>1. /\ l \in Loops /\ t \in Jobs \X Targets /\ was \in LoopState
        /\ \A q \in Jobs : request[q].targets \subseteq Targets
    <2>1. l \in Loops /\ t \in Jobs \X Targets
      BY DEF Loops
    <2>2. was \in LoopState
      BY <2>1 DEF MarketplacesTypeOK, LoopState
    <2>3. \A q \in Jobs : request[q].targets \subseteq Targets
      BY MarketplacesAssumption DEF MarketplacesTypeOK
    <2> QED BY <2>1, <2>2, <2>3
  <1>2. /\ loop' = [loop EXCEPT ![l] = s] /\ s.state \in {"ready", "posted", "done", "failed"}
        /\ was.state \in {"ready", "posted"}
        /\ lost' = lost \/ lost' = [lost EXCEPT ![t] = @ + 1]
        /\ entries' = entries \/ entries' = [entries EXCEPT ![t] = @ + 1]
    BY DEF Turn
  <1>3. LoopInv(j, p, d)
    OBVIOUS
  <1>4. \/ told' = told \/ Answer(t, "failed")
        \/ s.state = "done" /\ Answer(t, "ok")
    BY DEF Turn
  <1>5. /\ told' \in [Jobs \X Targets -> {"nothing", "ok", "failed"}]
        /\ \A u \in Jobs \X Targets :
                told'[u] = "ok" => told[u] = "ok" \/ (u = t /\ s.state = "done")
    <2> HIDE DEF t
    <2>1. CASE told' = told \/ Answer(t, "failed")
      BY <1>1, <2>1, AnswerTyped
    <2>2. CASE s.state = "done" /\ Answer(t, "ok")
      BY <1>1, <2>2, AnswerTyped
    <2> QED BY <1>4, <2>1, <2>2
  <1>6. /\ loop'[l] = s
        /\ \A m \in Loops : m # l => loop'[m] = loop[m]
        /\ loop' \in [Loops -> LoopState]
    BY <1>1, <1>2 DEF MarketplacesTypeOK, LoopState
  <1>7. /\ entries' \in [Jobs \X Targets -> Nat] /\ lost' \in [Jobs \X Targets -> Nat]
        /\ \A u \in Jobs \X Targets :
              /\ entries[u] \in Nat /\ entries[u] <= entries'[u]
              /\ lost[u] \in Nat /\ lost[u] <= lost'[u]
              /\ u # t => entries'[u] = entries[u]
              /\ entries'[u] <= entries[u] + 1
    <2>1. entries \in [Jobs \X Targets -> Nat] /\ lost \in [Jobs \X Targets -> Nat]
      BY DEF MarketplacesTypeOK
    <2> HIDE DEF t
    <2>2. /\ entries' \in [Jobs \X Targets -> Nat]
          /\ \A u \in Jobs \X Targets :
                /\ entries[u] \in Nat /\ entries[u] <= entries'[u]
                /\ u # t => entries'[u] = entries[u]
                /\ entries'[u] <= entries[u] + 1
      BY <1>1, <1>2, <2>1, Counted
    <2>3. /\ lost' \in [Jobs \X Targets -> Nat]
          /\ \A u \in Jobs \X Targets : lost[u] \in Nat /\ lost[u] <= lost'[u]
      BY <1>1, <1>2, <2>1, Counted
    <2> QED BY <2>2, <2>3
  <1>8. MarketplacesTypeOK'
    BY <1>5, <1>6, <1>7 DEF MarketplacesTypeOK, LoopState, stock
  <1>9. \A m \in Loops : loop[m].state = "failed" => loop'[m].state = "failed"
    BY <1>2, <1>6
  \* An answer has an entry.
  <1>10. s.state \in {"posted", "done"} => entries'[t] > 0
    <2>1. CASE s.state = "posted"
      <3>1. entries' = [entries EXCEPT ![t] = @ + 1]
        BY <2>1 DEF Turn
      <3> QED BY <1>1, <1>7, <3>1 DEF MarketplacesTypeOK
    <2>2. CASE s.state = "done"
      <3>1. was.state = "posted"
        BY <2>2 DEF Turn
      <3>2. entries[t] > 0
        BY <1>3, <3>1 DEF LoopInv
      <3> QED BY <1>1, <1>7, <3>2
    <2> QED BY <2>1, <2>2
  <1>11. ASSUME NEW k \in Jobs, NEW q \in Targets, NEW e \in 1 .. MaxDeliveries
         PROVE  LoopInv(k, q, e)'
    <2> DEFINE m == <<k, q, e>>
    <2>1. LoopInv(k, q, e) /\ m \in Loops /\ <<k, q>> \in Jobs \X Targets
      BY DEF Loops
    <2>2. CASE m = l
      <3>1. s.outer <= Outer(j) /\ s.inner <= Inner(p) /\ s.state # "off"
        BY <1>2 DEF Turn
      <3>2. p \in request[j].targets /\ d <= deliveries[j]
        BY <1>2, <1>3 DEF LoopInv
      <3> QED BY <1>6, <1>10, <2>2, <3>1, <3>2 DEF LoopInv, Outer
    <2>3. CASE m # l
      <3>1. loop'[m] = loop[m] /\ entries[<<k, q>>] <= entries'[<<k, q>>]
            /\ entries[<<k, q>>] \in Nat /\ entries'[<<k, q>>] \in Nat
        BY <1>6, <1>7, <2>1, <2>3
      <3> QED BY <2>1, <3>1 DEF LoopInv, Outer
    <2> QED BY <2>2, <2>3
  <1>12. ASSUME NEW k \in Jobs PROVE JobInv(k)'
    <2>1. \A q \in Targets, e \in 1 .. deliveries[k] : <<k, q, e>> \in Loops
      BY MarketplacesAssumption DEF Loops, MarketplacesTypeOK
    <2> QED BY <1>9, <2>1 DEF JobInv
  \* An entry has an attempt.
  <1>13. ASSUME NEW k \in Jobs, NEW q \in Targets
         PROVE  /\ Cardinality(Made(k, q)) <= Cardinality(Made(k, q)')
                /\ IsFiniteSet(Made(k, q)) /\ IsFiniteSet(Made(k, q)')
                /\ Made(k, q) \subseteq Made(k, q)'
                /\ Cardinality(Made(k, q)) \in Nat /\ Cardinality(Made(k, q)') \in Nat
    <2>1. \A e \in 1 .. MaxDeliveries : \A o, i \in Nat :
                Past(loop[<<k, q, e>>], o, i) => Past(loop'[<<k, q, e>>], o, i)
      <3>1. \A e \in 1 .. MaxDeliveries : <<k, q, e>> \in Loops
        BY DEF Loops
      <3>2. \A o, i \in Nat : Past(was, o, i) => Past(s, o, i)
        BY DEF Turn
      <3> QED BY <1>6, <3>1, <3>2
    <2> QED BY <1>8, <2>1, MadeGrows
  <1>14. entries' = [entries EXCEPT ![t] = @ + 1]
            => Cardinality(Made(j, p)) + 1 <= Cardinality(Made(j, p)')
    <2> SUFFICES ASSUME entries' = [entries EXCEPT ![t] = @ + 1]
                 PROVE  Cardinality(Made(j, p)) + 1 <= Cardinality(Made(j, p)')
      OBVIOUS
    <2> DEFINE a == <<d, <<was.outer, was.inner>>>>
    <2>1. was.state = "ready" /\ Past(s, was.outer, was.inner)
      <3>1. entries' # entries
        BY <1>1 DEF MarketplacesTypeOK
      <3> QED BY <3>1 DEF Turn
    <2>2. a \in Tries(j, p)
      BY <1>1, <1>3, OuterInner DEF Tries, LoopInv, LoopState
    <2>3. a \notin Made(j, p)
      BY <1>1, <2>1 DEF Made, Past, LoopState
    <2>4. a \in Made(j, p)'
      BY <1>6, <2>1, <2>2 DEF Made, Tries, Outer
    <2> HIDE DEF a
    <2>5. /\ Made(j, p) \cup {a} \subseteq Made(j, p)'
          /\ IsFiniteSet(Made(j, p)) /\ IsFiniteSet(Made(j, p)')
      BY <1>13, <2>4
    <2>6. Cardinality(Made(j, p) \cup {a}) = Cardinality(Made(j, p)) + 1
      BY <2>3, <2>5, FS_AddElement
    <2>7. Cardinality(Made(j, p) \cup {a}) <= Cardinality(Made(j, p)')
      BY <2>5, FS_Subset
    <2> QED BY <2>6, <2>7
  <1>15. ASSUME NEW k \in Jobs, NEW q \in Targets
         PROVE  entries'[<<k, q>>] <= Cardinality(Made(k, q)')
    <2>1. /\ <<k, q>> \in Jobs \X Targets /\ entries[<<k, q>>] <= Cardinality(Made(k, q))
      BY DEF EntryInv
    <2>2. CASE entries'[<<k, q>>] = entries[<<k, q>>]
      BY <1>7, <1>13, <2>1, <2>2
    <2>3. CASE entries'[<<k, q>>] # entries[<<k, q>>]
      <3>1. k = j /\ q = p
        BY <1>7, <2>1, <2>3
      <3>2. entries' = [entries EXCEPT ![t] = @ + 1]
        BY <1>2, <2>3
      <3>3. entries'[t] <= entries[t] + 1 /\ entries[t] \in Nat /\ entries'[t] \in Nat
        BY <1>1, <1>7
      <3> QED BY <1>13, <1>14, <2>1, <3>1, <3>2, <3>3
    <2> QED BY <2>2, <2>3
  \* An entry nobody has lost has a loop that knows of it.
  <1>16. ASSUME NEW k \in Jobs, NEW q \in Targets,
                entries'[<<k, q>>] > 0, lost'[<<k, q>>] = 0, crashes = 0
         PROVE  \E e \in 1 .. MaxDeliveries : loop'[<<k, q, e>>].state \in {"posted", "done"}
    <2>1. <<k, q>> \in Jobs \X Targets /\ lost[<<k, q>>] = 0
      BY <1>7, <1>16
    <2>2. CASE entries[<<k, q>>] > 0
      <3>1. PICK e \in 1 .. MaxDeliveries : loop[<<k, q, e>>].state \in {"posted", "done"}
        BY <1>16, <2>1, <2>2 DEF EntryInv
      <3>2. <<k, q, e>> \in Loops
        BY DEF Loops
      <3>3. CASE <<k, q, e>> # l
        BY <1>6, <3>1, <3>2, <3>3
      <3>4. CASE <<k, q, e>> = l
        <4>1. lost' # [lost EXCEPT ![t] = @ + 1]
          <5>1. <<k, q>> = t
            BY <3>4
          <5> QED BY <1>1, <1>16, <2>1, <5>1 DEF MarketplacesTypeOK
        <4>2. s.state = "done"
          BY <1>2, <3>1, <3>4, <4>1 DEF Turn
        <4> QED BY <1>6, <3>4, <4>2
      <3> QED BY <3>3, <3>4
    <2>3. CASE ~ entries[<<k, q>>] > 0
      <3>1. <<k, q>> = t /\ entries' # entries
        BY <1>7, <1>16, <2>1, <2>3
      <3>2. lost' # [lost EXCEPT ![t] = @ + 1]
        BY <1>1, <1>16, <2>1, <3>1 DEF MarketplacesTypeOK
      <3>3. s.state = "posted"
        BY <3>1, <3>2 DEF Turn
      <3> QED BY <1>6, <3>1, <3>3
    <2> QED BY <2>2, <2>3
  <1>17. \A k \in Jobs, q \in Targets : EntryInv(k, q)'
    BY <1>15, <1>16 DEF EntryInv
  <1>18. AnswersTrue'
    <2> SUFFICES ASSUME NEW k \in Jobs, NEW q \in request[k].targets,
                        told'[<<k, q>>] = "ok" \/ message[k] = "acked"
                 PROVE  entries'[<<k, q>>] > 0
      BY DEF AnswersTrue
    <2>1. <<k, q>> \in Jobs \X Targets
      BY <1>1
    <2>2. CASE told[<<k, q>>] = "ok" \/ message[k] = "acked"
      <3>1. entries[<<k, q>>] > 0
        BY <2>2 DEF AnswersTrue
      <3>2. entries[<<k, q>>] \in Nat /\ entries'[<<k, q>>] \in Nat
            /\ entries[<<k, q>>] <= entries'[<<k, q>>]
        BY <1>7, <2>1
      <3> QED BY <3>1, <3>2
    <2>3. CASE ~ (told[<<k, q>>] = "ok" \/ message[k] = "acked")
      BY <1>5, <1>10, <2>1, <2>3
    <2> QED BY <2>2, <2>3
  <1>19. DuplicatesExplained'
    <2> SUFFICES ASSUME NEW k \in Jobs, NEW q \in request[k].targets, entries'[<<k, q>>] > 1,
                        ~ lost'[<<k, q>>] > 0, ~ crashes > 0
                 PROVE  \E m \in Loops : m[1] = k /\ m[2] # q /\ loop'[m].state = "failed"
      BY DEF DuplicatesExplained, Job
    <2>1. <<k, q>> \in Jobs \X Targets /\ q \in Targets
      BY <1>1
    <2>2. lost[<<k, q>>] = 0 /\ lost'[<<k, q>>] = 0 /\ crashes = 0
      BY <1>7, <2>1 DEF MarketplacesTypeOK
    <2>3. CASE entries[<<k, q>>] > 1
      <3>1. \E m \in Loops : Job(m) = k /\ m[2] # q /\ loop[m].state = "failed"
        BY <2>2, <2>3 DEF DuplicatesExplained
      <3> QED BY <1>9, <3>1 DEF Job
    <2>4. CASE ~ entries[<<k, q>>] > 1
      <3>1. <<k, q>> = t /\ k = j /\ q = p /\ entries' # entries /\ entries[t] > 0
        BY <1>7, <2>1, <2>4
      <3>2. was.state = "ready"
        BY <3>1 DEF Turn
      <3>3. PICK e \in 1 .. MaxDeliveries : loop[<<j, p, e>>].state \in {"posted", "done"}
        BY <2>2, <3>1 DEF EntryInv
      <3>4. e # d
        BY <3>2, <3>3
      <3>5. d <= deliveries[j] /\ e <= deliveries[j]
        BY <3>2, <3>3 DEF LoopInv
      <3>6. PICK c \in {d, e} : c \in 1 .. deliveries[j] /\ c < deliveries[j]
        <4>1. deliveries[j] \in Nat
          BY DEF MarketplacesTypeOK
        <4> QED BY <3>4, <3>5, <4>1
      <3>7. PICK r \in Targets : loop[<<j, r, c>>].state = "failed"
        BY <2>2, <3>6 DEF JobInv
      <3>8. r # p
        BY <3>2, <3>3, <3>6, <3>7
      <3>9. <<j, r, c>> \in Loops
        BY <3>6 DEF Loops
      <3>10. loop'[<<j, r, c>>].state = "failed"
        BY <1>9, <3>7, <3>9
      <3> QED BY <3>1, <3>8, <3>9, <3>10
    <2> QED BY <2>3, <2>4
  <1>20. StockInv'
    BY DEF StockInv, stock
  <1> QED BY <1>8, <1>11, <1>12, <1>17, <1>18, <1>19, <1>20

\* A job is run, for the first time or again: one loop more for each target.
LEMMA RunStep ==
    ASSUME MarketplacesInv, NEW j \in Jobs, Run(j), deliveries[j] < MaxDeliveries,
           \/ /\ request[j].kind # "sync" /\ deliveries[j] = 0 /\ UNCHANGED message
           \/ /\ message[j] = "queued"
              /\ message' = [message EXCEPT ![j] = "handling"]
    PROVE  MarketplacesInv'
  <1> USE DEF MarketplacesInv
  <1>1. /\ deliveries' = [deliveries EXCEPT ![j] = @ + 1]
        /\ UNCHANGED <<request, told, entries, lost, stock, crashes>>
    BY DEF Run
  <1>2. /\ deliveries' \in [Jobs -> 0 .. MaxDeliveries]
        /\ deliveries'[j] = deliveries[j] + 1
        /\ \A k \in Jobs \ {j} : deliveries'[k] = deliveries[k]
        /\ \A k \in Jobs : /\ deliveries[k] \in Nat /\ deliveries'[k] \in Nat
                           /\ deliveries[k] <= deliveries'[k]
    BY <1>1, MarketplacesAssumption DEF MarketplacesTypeOK
  <1>3. /\ message' \in [Jobs -> {"none", "queued", "handling", "acked"}]
        /\ \A k \in Jobs : message'[k] = "acked" => message[k] = "acked"
        /\ \A k \in Jobs \ {j} : message'[k] = message[k]
    BY DEF MarketplacesTypeOK
  \* The loops of the new delivery were off.
  <1>4. ASSUME NEW l \in Loops, loop'[l] # loop[l]
        PROVE  /\ l[1] = j /\ l[2] \in request[j].targets /\ l[3] = deliveries[j] + 1
               /\ loop[l] = Off
               /\ loop'[l] = [state |-> "ready", outer |-> 0, inner |-> 0]
    <2>1. /\ l[1] = j /\ l[2] \in request[j].targets /\ l[3] = deliveries[j] + 1
          /\ loop'[l] = [loop[l] EXCEPT !.state = "ready"]
      BY <1>4 DEF Run
    <2>2. PICK p \in Targets, d \in 1 .. MaxDeliveries : l = <<j, p, d>>
      BY <2>1 DEF Loops
    <2>3. loop[l].state = "off"
      <3>1. d = deliveries[j] + 1 /\ deliveries[j] \in Nat /\ LoopInv(j, p, d)
        BY <1>2, <2>1, <2>2
      <3> QED BY <2>2, <3>1 DEF LoopInv
    <2>4. loop[l] = Off
      BY <2>2, <2>3 DEF LoopInv
    <2> QED BY <2>1, <2>4, OffSet, MarketplacesAssumption
  <1>5. \A l \in Loops : loop'[l] = loop[l] \/ loop'[l] = [state |-> "ready", outer |-> 0, inner |-> 0]
    BY <1>4
  <1>6. MarketplacesTypeOK'
    <2>1. [state |-> "ready", outer |-> 0, inner |-> 0] \in LoopState
      BY MarketplacesAssumption DEF LoopState
    <2>2. \A l \in Loops : loop'[l] \in LoopState
      BY <1>5, <2>1 DEF MarketplacesTypeOK, LoopState
    <2>3. loop' \in [Loops -> LoopState]
      BY <2>2 DEF Run
    <2> QED BY <1>1, <1>2, <1>3, <2>3 DEF MarketplacesTypeOK, LoopState, stock
  <1>7. \A l \in Loops :
            /\ loop[l].state \in {"failed", "posted", "done"} => loop'[l] = loop[l]
            /\ \A o, i \in Nat : Past(loop[l], o, i) => Past(loop'[l], o, i)
    <2>1. Off.state = "off" /\ \A o, i \in Nat : ~ Past(Off, o, i)
      BY DEF Off, Past
    <2> QED BY <1>4, <2>1
  <1>8. ASSUME NEW k \in Jobs, NEW p \in Targets, NEW d \in 1 .. MaxDeliveries
        PROVE  LoopInv(k, p, d)'
    <2> DEFINE l == <<k, p, d>>
    <2>1. l \in Loops /\ LoopInv(k, p, d)
      BY DEF Loops
    <2>2. CASE loop'[l] = loop[l]
      <3>1. d <= deliveries[k] => d <= deliveries'[k]
        BY <1>2
      <3>2. UNCHANGED <<request, entries>>
        BY <1>1
      <3> QED BY <2>1, <2>2, <3>1, <3>2 DEF LoopInv, Outer
    <2>3. CASE loop'[l] # loop[l]
      <3>1. /\ k = j /\ p \in request[j].targets /\ d = deliveries[j] + 1
            /\ loop'[l] = [state |-> "ready", outer |-> 0, inner |-> 0]
        BY <1>4, <2>1, <2>3
      <3>2. Outer(k) \in Nat /\ Inner(p) \in Nat
        BY OuterInner
      <3> QED BY <1>1, <1>2, <3>1, <3>2 DEF LoopInv, Outer
    <2> QED BY <2>2, <2>3
  <1>9. ASSUME NEW k \in Jobs PROVE JobInv(k)'
    <2>1. \A p \in Targets, d \in 1 .. deliveries[k] : <<k, p, d>> \in Loops
      BY MarketplacesAssumption DEF Loops, MarketplacesTypeOK
    <2>2. ASSUME NEW d \in 1 .. deliveries[k],
                 \E p \in Targets : loop[<<k, p, d>>].state = "failed"
          PROVE  \E p \in Targets : loop'[<<k, p, d>>].state = "failed"
      BY <1>7, <2>1, <2>2
    <2>3. JobInv(k)
      OBVIOUS
    <2>4. CASE k # j
      <3>1. deliveries'[k] = deliveries[k] /\ message'[k] = message[k]
        BY <1>2, <1>3, <2>4
      <3> QED BY <1>1, <2>2, <2>3, <3>1 DEF JobInv
    <2>5. CASE k = j /\ request[j].kind # "sync"
      <3>1. deliveries'[k] = 1 /\ message'[k] = message[k] /\ message[k] = "none"
        BY <1>2, <2>3, <2>5 DEF JobInv, MarketplacesTypeOK
      <3> QED BY <1>1, <2>3, <2>5, <3>1 DEF JobInv
    <2>6. CASE k = j /\ request[j].kind = "sync"
      <3>1. message[k] = "queued" /\ message'[k] = "handling"
        BY <2>6 DEF MarketplacesTypeOK
      <3>2. \A d \in 1 .. deliveries'[k] : d < deliveries'[k] => d \in 1 .. deliveries[k]
        <4>1. deliveries[k] \in Nat /\ deliveries'[k] = deliveries[k] + 1
          BY <1>2, <2>6
        <4> QED BY <4>1
      <3>3. crashes = 0 => \A d \in 1 .. deliveries[k] :
                                \E p \in Targets : loop[<<k, p, d>>].state = "failed"
        BY <2>3, <3>1 DEF JobInv
      <3>4. deliveries'[k] > 0
        <4>1. deliveries[k] \in Nat /\ deliveries'[k] = deliveries[k] + 1
          BY <1>2, <2>6
        <4> QED BY <4>1
      <3> QED BY <1>1, <2>2, <2>6, <3>1, <3>2, <3>3, <3>4 DEF JobInv
    <2> QED BY <2>4, <2>5, <2>6
  <1>10. StockInv'
    BY <1>1 DEF StockInv, stock
  <1>11. \A t \in Jobs \X Targets : lost[t] \in Nat /\ lost'[t] = lost[t] /\ told'[t] = told[t]
    BY <1>1 DEF MarketplacesTypeOK
  <1>12. crashes \in Nat /\ crashes' = crashes
    BY <1>1 DEF MarketplacesTypeOK
  <1> HIDE DEF MarketplacesInv
  <1> QED BY <1>1, <1>3, <1>6, <1>7, <1>8, <1>9, <1>10, <1>11, <1>12, NothingCreated

\* Steps of the handlers that touch no loop but one that has not begun.
LEMMA GivesUpStep ==
    ASSUME MarketplacesInv, NEW j \in Jobs, NEW p \in Targets, BulkGivesUp(j, p)
    PROVE  MarketplacesInv'
  <1> USE DEF MarketplacesInv
  <1> DEFINE l == <<j, p, 1>>
  <1>1. /\ l \in Loops /\ <<j, p>> \in Jobs \X Targets /\ MAX_RETRIES \in Nat
        /\ LoopInv(j, p, 1)
    BY MarketplacesAssumption DEF Loops
  <1>2. /\ UNCHANGED <<request, message, deliveries, entries, lost, stock, crashes>>
        /\ p \in request[j].targets /\ deliveries[j] = 1
    BY DEF BulkGivesUp
  <1>3. /\ told' \in [Jobs \X Targets -> {"nothing", "ok", "failed"}]
        /\ \A t \in Jobs \X Targets : told'[t] = "ok" => told[t] = "ok"
    BY <1>1, AnswerTyped DEF BulkGivesUp
  <1>4. /\ loop' \in [Loops -> LoopState]
        /\ \A m \in Loops : \/ loop'[m] = loop[m]
                            \/ /\ m = l /\ loop[m].state = "ready"
                               /\ loop'[m] = [state |-> "failed", outer |-> 0, inner |-> 0]
    <2>1. loop \in [Loops -> LoopState]
      BY DEF MarketplacesTypeOK, LoopState
    <2>2. CASE UNCHANGED loop
      BY <2>1, <2>2
    <2>3. CASE /\ loop[l] = [Off EXCEPT !.state = "ready"]
               /\ loop' = [loop EXCEPT ![l].state = "failed"]
      <3> DEFINE r == [state |-> "failed", outer |-> 0, inner |-> 0]
      <3>1. loop[l].state = "ready" /\ loop[l].outer = 0 /\ loop[l].inner = 0
        BY <1>1, <2>3, OffSet
      <3>2. [loop[l] EXCEPT !.state = "failed"] = r
        BY <1>1, <2>1, <3>1, StateSet
      <3>3. r \in LoopState
        BY <1>1 DEF LoopState
      <3>4. loop' = [loop EXCEPT ![l] = r]
        BY <1>1, <2>1, <2>3, <3>2
      <3> HIDE DEF l, r
      <3>5. /\ loop' \in [Loops -> LoopState] /\ loop'[l] = r
            /\ \A m \in Loops : m # l => loop'[m] = loop[m]
        BY <1>1, <2>1, <3>3, <3>4
      <3> QED BY <3>1, <3>5 DEF r
    <2> QED BY <2>2, <2>3 DEF BulkGivesUp
  <1>5. MarketplacesTypeOK'
    BY <1>2, <1>3, <1>4 DEF MarketplacesTypeOK, LoopState, stock
  <1>6. \A m \in Loops :
            /\ loop[m].state \in {"failed", "posted", "done"} => loop'[m] = loop[m]
            /\ \A o, i \in Nat : Past(loop[m], o, i) => Past(loop'[m], o, i)
    BY <1>4 DEF Past
  <1>7. ASSUME NEW k \in Jobs, NEW q \in Targets, NEW d \in 1 .. MaxDeliveries
        PROVE  LoopInv(k, q, d)'
    <2> DEFINE m == <<k, q, d>>
    <2>1. m \in Loops /\ LoopInv(k, q, d)
      BY DEF Loops
    <2>2. CASE loop'[m] = loop[m]
      BY <1>2, <2>1, <2>2 DEF LoopInv, Outer
    <2>3. CASE m = l /\ loop'[m] = [state |-> "failed", outer |-> 0, inner |-> 0]
      <3>1. Outer(k) \in Nat /\ Inner(q) \in Nat
        BY OuterInner
      <3> QED BY <1>2, <2>3, <3>1 DEF LoopInv, Outer
    <2> QED BY <1>4, <2>1, <2>2, <2>3
  <1>8. ASSUME NEW k \in Jobs PROVE JobInv(k)'
    <2>1. \A q \in Targets, e \in 1 .. deliveries[k] : <<k, q, e>> \in Loops
      BY MarketplacesAssumption DEF Loops, MarketplacesTypeOK
    <2> QED BY <1>2, <1>6, <2>1 DEF JobInv
  <1>9. StockInv'
    BY <1>2 DEF StockInv, stock
  <1>10. \A t \in Jobs \X Targets : /\ lost[t] <= lost'[t]
                                    /\ told'[t] = "ok" => told[t] = "ok"
    <2>1. \A t \in Jobs \X Targets : lost[t] \in Nat /\ lost'[t] = lost[t]
      BY <1>2 DEF MarketplacesTypeOK
    <2> QED BY <1>3, <2>1
  <1>11. crashes <= crashes'
    BY <1>2 DEF MarketplacesTypeOK
  <1>12. \A m \in Loops :
            /\ loop[m].state = "failed" => loop'[m].state = "failed"
            /\ loop[m].state \in {"posted", "done"} /\ crashes' = 0
                => loop'[m].state \in {"posted", "done"}
            /\ \A o, i \in Nat : Past(loop[m], o, i) => Past(loop'[m], o, i)
    BY <1>6
  <1>13. \A k \in Jobs : /\ JobInv(k)'
                         /\ message'[k] = "acked" =>
                              \/ message[k] = "acked"
                              \/ \A q \in request[k].targets : entries[<<k, q>>] > 0
    BY <1>2, <1>8
  <1>14. UNCHANGED <<request, entries>>
    BY <1>2
  <1>15. \A k \in Jobs, q \in Targets, d \in 1 .. MaxDeliveries : LoopInv(k, q, d)'
    BY <1>7
  <1> HIDE DEF MarketplacesInv
  <1> QED BY <1>5, <1>9, <1>10, <1>11, <1>12, <1>13, <1>14, <1>15, NothingCreated, Zenon

\* Steps that leave the loops and all that they have made alone.
LEMMA LoopsStay ==
    ASSUME MarketplacesInv, MarketplacesTypeOK',
           UNCHANGED <<request, deliveries, loop, told, entries, lost, crashes>>,
           \A j \in Jobs : /\ JobInv(j)'
                           /\ message'[j] = "acked" =>
                                \/ message[j] = "acked"
                                \/ \A p \in request[j].targets : entries[<<j, p>>] > 0,
           StockInv'
    PROVE  MarketplacesInv'
  <1>1. \A t \in Jobs \X Targets : lost[t] \in Nat
    BY DEF MarketplacesInv, MarketplacesTypeOK
  <1>2. crashes \in Nat
    BY DEF MarketplacesInv, MarketplacesTypeOK
  <1>3. \A j \in Jobs, p \in Targets, d \in 1 .. MaxDeliveries : LoopInv(j, p, d)'
    BY DEF MarketplacesInv, LoopInv, Outer
  <1> QED BY <1>1, <1>2, <1>3, NothingCreated

LEMMA HandledStep ==
    ASSUME MarketplacesInv, NEW j \in Jobs, Handled(j)
    PROVE  MarketplacesInv'
  <1> USE DEF MarketplacesInv
  <1>1. /\ UNCHANGED <<request, deliveries, loop, told, entries, lost, stock, crashes>>
        /\ message[j] = "handling"
    BY DEF Handled
  <1>2. request[j].targets \subseteq Targets
    BY MarketplacesAssumption DEF MarketplacesTypeOK
  <1>3. deliveries[j] \in 1 .. MaxDeliveries
    BY <1>1 DEF JobInv, MarketplacesTypeOK
  <1>4. \A k \in Jobs \ {j} : message'[k] = message[k]
    BY DEF Handled, MarketplacesTypeOK
  <1>5. \A k \in Jobs \ {j} : JobInv(k)'
    BY <1>1, <1>4 DEF JobInv
  <1>6. StockInv'
    BY <1>1 DEF StockInv, stock
  <1>7. request[j].kind = "sync"
    BY <1>1 DEF JobInv
  <1>8. CASE /\ \A l \in Current(j) : loop[l].state = "done"
             /\ message' = [message EXCEPT ![j] = "acked"]
    <2>1. MarketplacesTypeOK' /\ message'[j] = "acked"
      BY <1>1, <1>8 DEF MarketplacesTypeOK, stock
    <2>2. ASSUME NEW p \in request[j].targets PROVE entries[<<j, p>>] > 0
      <3>1. <<j, p, deliveries[j]>> \in Current(j)
        BY <1>2, <1>3 DEF Current, Loops
      <3>2. LoopInv(j, p, deliveries[j])
        BY <1>2, <1>3
      <3> QED BY <1>8, <3>1, <3>2 DEF LoopInv
    <2>3. JobInv(j)'
      BY <1>1, <1>7, <2>1 DEF JobInv
    <2> QED BY <1>1, <1>4, <1>5, <1>6, <2>1, <2>2, <2>3, LoopsStay
  <1>9. CASE /\ \E l \in Current(j) : loop[l].state = "failed"
             /\ message' = [message EXCEPT ![j] = "queued"]
    <2>1. MarketplacesTypeOK' /\ message'[j] = "queued"
      BY <1>1, <1>9 DEF MarketplacesTypeOK, stock
    <2>2. PICK p \in Targets : loop[<<j, p, deliveries[j]>>].state = "failed"
      <3>1. PICK l \in Loops : l[1] = j /\ l[3] = deliveries[j] /\ loop[l].state = "failed"
        BY <1>9 DEF Current
      <3>2. l[2] \in Targets /\ l = <<j, l[2], deliveries[j]>>
        BY <3>1 DEF Loops
      <3> QED BY <3>1, <3>2
    <2>3. JobInv(j)'
      <3>1. \A d \in 1 .. deliveries[j] : d < deliveries[j] \/ d = deliveries[j]
        BY <1>3
      <3>2. JobInv(j)
        OBVIOUS
      <3> QED BY <1>1, <1>7, <2>1, <2>2, <3>1, <3>2 DEF JobInv
    <2> QED BY <1>1, <1>4, <1>5, <1>6, <2>1, <2>3, LoopsStay
  <1> QED BY <1>8, <1>9 DEF Handled

LEMMA CrashStep ==
    ASSUME MarketplacesInv, Crash
    PROVE  MarketplacesInv'
  <1> USE DEF MarketplacesInv
  <1>1. /\ crashes' = crashes + 1 /\ crashes < MaxCrashes
        /\ UNCHANGED <<request, deliveries, told, entries, quantity, raced>>
    BY DEF Crash
  <1>2. crashes \in Nat /\ crashes' \in 0 .. MaxCrashes /\ ~ crashes' = 0 /\ crashes <= crashes'
    BY <1>1, MarketplacesAssumption DEF MarketplacesTypeOK
  <1>3. /\ message' \in [Jobs -> {"none", "queued", "handling", "acked"}]
        /\ \A j \in Jobs : \/ message'[j] = message[j]
                           \/ message[j] = "handling" /\ message'[j] = "queued"
    BY DEF Crash, MarketplacesTypeOK
  <1>4. /\ update' \in [1 .. Updates -> UpdateStates]
        /\ late' \in [1 .. Updates -> 0 .. MaxLate]
        /\ \A u \in 1 .. Updates :
             /\ update'[u] = IF update[u] # "acked" THEN "queued" ELSE "acked"
             /\ late'[u] = late[u] \/ update[u] = "handling"
    BY DEF Crash, MarketplacesTypeOK, UpdateStates
  <1>5. \A l \in Loops :
            \/ loop'[l] = loop[l]
            \/ /\ loop[l].state \in {"ready", "posted"}
               /\ loop'[l] = [state |-> "dead", outer |-> 0, inner |-> 0]
    BY OffSet, MarketplacesAssumption DEF Crash, Dies
  <1>6. loop' \in [Loops -> LoopState]
    <2>1. [state |-> "dead", outer |-> 0, inner |-> 0] \in LoopState
      BY MarketplacesAssumption DEF LoopState
    <2>2. \A l \in Loops : loop'[l] \in LoopState
      BY <1>5, <2>1 DEF MarketplacesTypeOK, LoopState
    <2> QED BY <2>2 DEF Crash
  \* The entries that it makes unknown are finitely many.
  <1>7. ASSUME NEW t \in Jobs \X Targets
        PROVE  lost'[t] \in Nat /\ lost[t] <= lost'[t]
    <2> DEFINE S == {l \in Loops : Target(l) = t /\ Dies(l) /\ loop[l].state = "posted"}
               f == [l \in S |-> l[3]]
    <2>1. f \in [S -> 1 .. MaxDeliveries]
      BY DEF Loops
    <2>2. \A l, m \in S : f[l] = f[m] => l = m
      BY DEF Loops, Target
    <2>3. f \in Injection(S, 1 .. MaxDeliveries)
      <3> HIDE DEF f, S
      <3> QED BY <2>1, <2>2 DEF Injection, IsInjective
    <2>4. IsFiniteSet(1 .. MaxDeliveries)
      BY FS_Interval, MarketplacesAssumption
    <2>5. IsFiniteSet(S)
      <3> HIDE DEF f, S
      <3> QED BY <2>3, <2>4, FS_Injection
    <2>6. lost'[t] = lost[t] + Cardinality(S) /\ lost[t] \in Nat
      BY DEF Crash, MarketplacesTypeOK
    <2>7. Cardinality(S) \in Nat
      <3> HIDE DEF S
      <3> QED BY <2>5, FS_CardinalityType
    <2> HIDE DEF S
    <2> QED BY <2>6, <2>7
  <1>8. lost' \in [Jobs \X Targets -> Nat]
    BY <1>7 DEF Crash
  <1>9. MarketplacesTypeOK'
    BY <1>1, <1>2, <1>3, <1>4, <1>6, <1>8 DEF MarketplacesTypeOK, LoopState
  <1>10. \A l \in Loops :
            /\ loop[l].state = "failed" => loop'[l] = loop[l]
            /\ \A o, i \in Nat : Past(loop[l], o, i) => Past(loop'[l], o, i)
    BY <1>5 DEF Past
  <1>11. ASSUME NEW k \in Jobs, NEW q \in Targets, NEW d \in 1 .. MaxDeliveries
         PROVE  LoopInv(k, q, d)'
    <2> DEFINE l == <<k, q, d>>
    <2>1. l \in Loops /\ LoopInv(k, q, d)
      BY DEF Loops
    <2>2. CASE loop'[l] = loop[l]
      BY <1>1, <2>1, <2>2 DEF LoopInv, Outer
    <2>3. CASE /\ loop[l].state \in {"ready", "posted"}
               /\ loop'[l] = [state |-> "dead", outer |-> 0, inner |-> 0]
      <3>1. Outer(k) \in Nat /\ Inner(q) \in Nat
        BY OuterInner
      <3> QED BY <1>1, <2>1, <2>3, <3>1 DEF LoopInv, Outer
    <2> QED BY <1>5, <2>1, <2>2, <2>3
  <1>12. \A k \in Jobs : JobInv(k)'
    BY <1>1, <1>2, <1>3 DEF JobInv
  <1>13. StockInv'
    <2>1. \A u \in 1 .. Updates :
            /\ update'[u] # "queued" => update[u] # "queued"
            /\ late'[u] > 0 => late[u] > 0 \/ update[u] # "queued"
            /\ update[u] = "acked" => update'[u] = "acked"
      BY <1>4
    <2> QED BY <1>1, <2>1 DEF StockInv
  <1>14. \A j \in Jobs : message'[j] = "acked" => message[j] = "acked"
    BY <1>3
  <1> HIDE DEF MarketplacesInv
  <1> QED BY <1>1, <1>2, <1>7, <1>9, <1>10, <1>11, <1>12, <1>13, <1>14, NothingCreated

LEMMA UpdateStep ==
    ASSUME MarketplacesInv, NEW u \in 1 .. Updates,
           \/ TakeUpdate(u) \/ SetQuantity(u) \/ InventorySynced(u)
           \/ InventoryFailed(u) \/ LateCall(u)
    PROVE  MarketplacesInv'
  <1> USE DEF MarketplacesInv
  <1>1. UNCHANGED <<request, message, deliveries, loop, told, entries, lost, crashes>>
    BY DEF TakeUpdate, SetQuantity, InventorySynced, InventoryFailed, LateCall, Sync
  <1>2. \A j \in Jobs : JobInv(j)'
    BY <1>1 DEF JobInv
  <1>3. /\ update \in [1 .. Updates -> UpdateStates] /\ late \in [1 .. Updates -> 0 .. MaxLate]
        /\ quantity \in 0 .. Updates /\ raced \in SUBSET (1 .. Updates)
        /\ Updates \in Nat /\ MaxLate \in Nat
    BY MarketplacesAssumption DEF MarketplacesTypeOK
  \* What moves a message, and what its call does.
  <1>4. ASSUME NEW from \in UpdateStates, NEW to \in UpdateStates, Sync(u, from, to)
        PROVE  /\ update[u] = from /\ update' \in [1 .. Updates -> UpdateStates]
               /\ update'[u] = to
               /\ \A v \in 1 .. Updates : v # u => update'[v] = update[v]
    BY <1>3, <1>4 DEF Sync
  <1>5. {"queued", "handling", "set", "acked"} = UpdateStates
    BY DEF UpdateStates
  <1>6. ASSUME update' \in [1 .. Updates -> UpdateStates],
               late' \in [1 .. Updates -> 0 .. MaxLate],
               quantity' \in 0 .. Updates, raced' \in SUBSET (1 .. Updates), StockInv'
        PROVE  MarketplacesInv'
    <2>1. MarketplacesTypeOK'
      BY <1>1, <1>6 DEF MarketplacesTypeOK
    <2> HIDE DEF MarketplacesInv
    <2> QED BY <1>1, <1>2, <1>6, <2>1, LoopsStay
  \* No step but the first hands a message out.
  <1>7. ASSUME update' \in [1 .. Updates -> UpdateStates],
               late' \in [1 .. Updates -> 0 .. MaxLate],
               quantity' \in {u, quantity}, raced' = raced,
               update[u] # "queued" \/ late[u] > 0,
               \A v \in 1 .. Updates : v # u => update'[v] = update[v] /\ late'[v] = late[v],
               update[u] = "acked" => update'[u] = "acked",
               update[u] = "queued" => update'[u] = "queued"
        PROVE  MarketplacesInv'
    <2>1. ASSUME NEW x \in 1 .. Updates, NEW y \in 1 .. Updates, x < y,
                 update'[y] # "queued" \/ quantity' = y \/ late'[y] > 0
          PROVE  update'[x] = "acked" \/ x \in raced'
      <3>1. update[y] # "queued" \/ quantity = y \/ late[y] > 0
        <4>1. CASE y = u
          BY <1>7, <2>1, <4>1
        <4>2. CASE y # u
          <5>1. update'[y] = update[y] /\ late'[y] = late[y]
            BY <1>7, <4>2
          <5>2. quantity' = y => quantity = y
            BY <1>7, <4>2
          <5> QED BY <2>1, <5>1, <5>2
        <4> QED BY <4>1, <4>2
      <3>2. update[x] = "acked" \/ x \in raced
        BY <2>1, <3>1 DEF StockInv
      <3>3. update[x] = "acked" => update'[x] = "acked"
        BY <1>7
      <3> QED BY <1>7, <3>2, <3>3
    <2>2. StockInv'
      BY <2>1 DEF StockInv
    <2>3. quantity' \in 0 .. Updates
      BY <1>3, <1>7
    <2> QED BY <1>3, <1>6, <1>7, <2>2, <2>3
  <1>8. CASE TakeUpdate(u)
    <2>1. /\ \A v \in 1 .. u - 1 : update[v] # "queued"
          /\ raced' = raced \cup {v \in 1 .. u - 1 : update[v] \in {"handling", "set"}}
          /\ UNCHANGED <<late, quantity>> /\ Sync(u, "queued", "handling")
      BY <1>8 DEF TakeUpdate
    <2>2. /\ update[u] = "queued" /\ update' \in [1 .. Updates -> UpdateStates]
          /\ \A v \in 1 .. Updates : v # u => update'[v] = update[v]
      BY <1>4, <1>5, <2>1
    <2>3. raced' \in SUBSET (1 .. Updates)
      <3>1. 1 .. u - 1 \subseteq 1 .. Updates
        BY <1>3
      <3> QED BY <1>3, <2>1, <3>1
    <2>4. ASSUME NEW x \in 1 .. Updates, NEW y \in 1 .. Updates, x < y,
                 update'[y] # "queued" \/ quantity' = y \/ late'[y] > 0
          PROVE  update'[x] = "acked" \/ x \in raced'
      <3>1. CASE y = u
        <4>1. x \in 1 .. u - 1 /\ x # u
          BY <2>4, <3>1
        <4>2. update'[x] = update[x] /\ update[x] \in {"handling", "set", "acked"}
          BY <1>3, <1>5, <2>1, <2>2, <4>1
        <4> QED BY <2>1, <4>1, <4>2
      <3>2. CASE y # u
        <4>1. update[x] = "acked" \/ x \in raced
          BY <2>1, <2>2, <2>4, <3>2 DEF StockInv
        <4>2. x = u => update[x] # "acked"
          BY <2>2
        <4> QED BY <2>1, <2>2, <4>1, <4>2
      <3> QED BY <3>1, <3>2
    <2>5. StockInv'
      BY <2>4 DEF StockInv
    <2> QED BY <1>3, <1>6, <2>1, <2>2, <2>3, <2>5
  <1>9. CASE SetQuantity(u)
    <2>1. Sync(u, "handling", "set") /\ quantity' = u /\ UNCHANGED <<late, raced>>
      BY <1>9 DEF SetQuantity
    <2>2. /\ update[u] = "handling" /\ update'[u] = "set"
          /\ update' \in [1 .. Updates -> UpdateStates]
          /\ \A v \in 1 .. Updates : v # u => update'[v] = update[v]
      BY <1>4, <1>5, <2>1
    <2> QED BY <1>3, <1>7, <2>1, <2>2
  <1>10. CASE InventorySynced(u)
    <2>1. Sync(u, "set", "acked") /\ UNCHANGED <<late, quantity, raced>>
      BY <1>10 DEF InventorySynced
    <2>2. /\ update[u] = "set" /\ update'[u] = "acked"
          /\ update' \in [1 .. Updates -> UpdateStates]
          /\ \A v \in 1 .. Updates : v # u => update'[v] = update[v]
      BY <1>4, <1>5, <2>1
    <2> QED BY <1>3, <1>7, <2>1, <2>2
  <1>11. CASE InventoryFailed(u)
    <2>1. PICK from \in {"set", "handling"} : Sync(u, from, "queued")
      BY <1>11 DEF InventoryFailed
    <2>2. UNCHANGED <<quantity, raced>>
      BY <1>11 DEF InventoryFailed
    <2>5. \/ late' = late
          \/ late[u] < MaxLate /\ late' = [late EXCEPT ![u] = @ + 1]
      BY <1>11 DEF InventoryFailed
    <2>3. /\ update[u] = from /\ update'[u] = "queued"
          /\ update' \in [1 .. Updates -> UpdateStates]
          /\ \A v \in 1 .. Updates : v # u => update'[v] = update[v]
      BY <1>4, <1>5, <2>1
    <2>4. /\ late' \in [1 .. Updates -> 0 .. MaxLate]
          /\ \A v \in 1 .. Updates : v # u => late'[v] = late[v]
      BY <1>3, <2>5
    <2> QED BY <1>7, <2>2, <2>3, <2>4
  <1>12. CASE LateCall(u)
    <2>1. /\ late[u] > 0 /\ late' = [late EXCEPT ![u] = @ - 1]
          /\ quantity' \in {u, quantity} /\ UNCHANGED <<update, raced>>
      BY <1>12 DEF LateCall
    <2>2. /\ late' \in [1 .. Updates -> 0 .. MaxLate]
          /\ \A v \in 1 .. Updates : v # u => late'[v] = late[v]
      BY <1>3, <2>1
    <2> QED BY <1>3, <1>7, <2>1, <2>2
  <1> QED BY <1>8, <1>9, <1>10, <1>11, <1>12

LEMMA MarketplacesNextInv ==
    MarketplacesInv /\ [MarketplacesNext]_marketplacesVars => MarketplacesInv'
  <1> SUFFICES ASSUME MarketplacesInv, [MarketplacesNext]_marketplacesVars
               PROVE  MarketplacesInv'
    OBVIOUS
  <1>1. CASE UNCHANGED marketplacesVars
    <2>1. UNCHANGED <<request, message, deliveries, loop, told, entries, lost, crashes,
                      update, late, quantity, raced>>
      BY <1>1 DEF marketplacesVars, stock
    <2>2. MarketplacesTypeOK' /\ StockInv' /\ \A j \in Jobs : JobInv(j)'
      BY <2>1 DEF MarketplacesInv, MarketplacesTypeOK, StockInv, JobInv
    <2> QED BY <2>1, <2>2, LoopsStay
  <1>2. ASSUME NEW l \in Loops,
               \/ AmazonAttempt(l) \/ AmazonVerification(l) \/ EbayAttempt(l)
               \/ EbayRecord(l) \/ WalmartAttempt(l) \/ WalmartInventory(l)
               \/ UspsAttempt(l) \/ Label(l) \/ Pickup(l) \/ Box(l)
        PROVE  MarketplacesInv'
    <2>1. /\ UNCHANGED <<request, message, deliveries, stock, crashes>>
          /\ \E j \in Jobs, p \in Targets, d \in 1 .. MaxDeliveries :
                \E s \in LoopState : Turn(j, p, d, s)
      BY <1>2, LoopsTurn DEF MarketplacesInv
    <2> QED BY <2>1, TurnStep
  <1>3. ASSUME NEW j \in Jobs,
               \/ CreateListings(j) \/ GenerateShippingLabel(j) \/ SchedulePickup(j)
               \/ RequestBoxDelivery(j)
        PROVE  MarketplacesInv'
    <2>1. deliveries[j] = 0 /\ Run(j) /\ request[j].kind # "sync" /\ UNCHANGED message
      BY <1>3 DEF CreateListings, GenerateShippingLabel, SchedulePickup, RequestBoxDelivery,
         Ship
    <2>2. deliveries[j] < MaxDeliveries
      BY <2>1, MarketplacesAssumption
    <2> QED BY <2>1, <2>2, RunStep
  <1>4. ASSUME NEW j \in Jobs, ListingCreation(j) PROVE MarketplacesInv'
    BY <1>4, RunStep DEF ListingCreation
  <1>5. ASSUME NEW j \in Jobs, Handled(j) PROVE MarketplacesInv'
    BY <1>5, HandledStep
  <1>6. ASSUME NEW j \in Jobs, NEW p \in Targets, BulkGivesUp(j, p) PROVE MarketplacesInv'
    BY <1>6, GivesUpStep
  <1>7. CASE Crash
    BY <1>7, CrashStep
  <1>8. ASSUME NEW u \in 1 .. Updates,
               \/ TakeUpdate(u) \/ SetQuantity(u) \/ InventorySynced(u)
               \/ InventoryFailed(u) \/ LateCall(u)
        PROVE  MarketplacesInv'
    BY <1>8, UpdateStep
  <1> QED BY <1>1, <1>2, <1>3, <1>4, <1>5, <1>6, <1>7, <1>8 DEF MarketplacesNext

\* The inductive invariant of Marketplaces.
THEOREM MarketplacesInvariance == MarketplacesSpec => []MarketplacesInv
  BY MarketplacesInitInv, MarketplacesNextInv, PTL DEF MarketplacesSpec

\* Retry loops stay within their counts, messages and updates in their states.
THEOREM MarketplacesTypeCorrect == MarketplacesSpec => []MarketplacesTypeOK
  <1>1. MarketplacesInv => MarketplacesTypeOK
    BY DEF MarketplacesInv
  <1> QED BY <1>1, MarketplacesInvariance, PTL

\* Nobody is told of a listing or of a label that was never created.
THEOREM AnswersAreTrue == MarketplacesSpec => []AnswersTrue
  <1>1. MarketplacesInv => AnswersTrue
    BY DEF MarketplacesInv
  <1> QED BY <1>1, MarketplacesInvariance, PTL

\* Whoever finds two entries of one job finds a lost answer, a failed platform
\* or a crash behind them.
THEOREM DuplicatesHaveCauses == MarketplacesSpec => []DuplicatesExplained
  <1>1. MarketplacesInv => DuplicatesExplained
    BY DEF MarketplacesInv
  <1> QED BY <1>1, MarketplacesInvariance, PTL

\* The retry loops of the services and of handleListingCreation() multiply, and
\* that is all they do.
THEOREM PostsAreBounded == MarketplacesSpec => []PostsBounded
  <1>1. MarketplacesInv => PostsBounded
    <2> SUFFICES ASSUME MarketplacesInv, NEW j \in Jobs, NEW p \in Targets
                 PROVE  entries[<<j, p>>] <=
                            IF p \in Supplies THEN USPS_ATTEMPTS
                            ELSE deliveries[j] * (Outer(j) + 1)
                                 * (IF p = "AMAZON" THEN MAX_RETRIES + 1 ELSE 1)
      BY DEF PostsBounded
    <2> USE DEF MarketplacesInv
    <2> DEFINE D == 1 .. deliveries[j]
               A == (0 .. Outer(j)) \X (0 .. Inner(p))
    <2>1. /\ Outer(j) \in Nat /\ Inner(p) \in Nat /\ deliveries[j] \in Nat
          /\ entries[<<j, p>>] \in Nat /\ MAX_RETRIES \in Nat /\ USPS_ATTEMPTS \in Nat \ {0}
      BY OuterInner, MarketplacesAssumption DEF MarketplacesTypeOK
    <2>2. Made(j, p) \subseteq D \X A
      <3> SUFFICES ASSUME NEW a \in Made(j, p) PROVE a \in D \X A
        OBVIOUS
      <3>1. /\ a \in (1 .. MaxDeliveries) \X A
            /\ Past(loop[<<j, p, a[1]>>], a[2][1], a[2][2])
        BY DEF Made, Tries
      <3>2. LoopInv(j, p, a[1]) /\ a[1] \in 1 .. MaxDeliveries
        BY <3>1
      <3>3. loop[<<j, p, a[1]>>].state # "off"
        BY <3>1 DEF Past
      <3>4. a[1] <= deliveries[j]
        BY <3>2, <3>3 DEF LoopInv
      <3>5. a[1] \in D
        BY <2>1, <3>2, <3>4
      <3> QED BY <3>1, <3>5
    <2>3. p \notin request[j].targets => Made(j, p) = {}
      <3> SUFFICES ASSUME p \notin request[j].targets, NEW a \in Made(j, p) PROVE FALSE
        OBVIOUS
      <3>1. a[1] \in 1 .. MaxDeliveries /\ Past(loop[<<j, p, a[1]>>], a[2][1], a[2][2])
        BY DEF Made, Tries
      <3> QED BY <3>1 DEF LoopInv, Past
    <2>4. IsFiniteSet(A) /\ Cardinality(A) = (Outer(j) + 1) * (Inner(p) + 1)
      <3>1. \A n \in Nat : IsFiniteSet(0 .. n) /\ Cardinality(0 .. n) = n + 1
        BY FS_Interval
      <3> DEFINE B == 0 .. Outer(j)
                 C == 0 .. Inner(p)
      <3>2. /\ IsFiniteSet(B) /\ Cardinality(B) = Outer(j) + 1
            /\ IsFiniteSet(C) /\ Cardinality(C) = Inner(p) + 1
        BY <2>1, <3>1
      <3> HIDE DEF B, C
      <3>3. IsFiniteSet(B \X C) /\ Cardinality(B \X C) = Cardinality(B) * Cardinality(C)
        BY <3>2, FS_Product
      <3> USE DEF B, C
      <3> QED BY <3>2, <3>3
    <2>5. IsFiniteSet(D) /\ Cardinality(D) = deliveries[j]
      <3>1. \A n \in Nat : IsFiniteSet(1 .. n) /\ Cardinality(1 .. n) = n
        BY FS_Interval
      <3> QED BY <2>1, <3>1
    <2>6. /\ IsFiniteSet(D \X A)
          /\ Cardinality(D \X A) = deliveries[j] * ((Outer(j) + 1) * (Inner(p) + 1))
      <3> HIDE DEF D, A
      <3> QED BY <2>4, <2>5, FS_Product
    <2>7. /\ entries[<<j, p>>] <= Cardinality(Made(j, p))
          /\ Cardinality(Made(j, p)) \in Nat
      BY MadeFinite DEF EntryInv
    <2>8. Cardinality(Made(j, p)) <= deliveries[j] * ((Outer(j) + 1) * (Inner(p) + 1))
      <3> HIDE DEF D, A
      <3> QED BY <2>2, <2>6, FS_Subset
    <2>9. CASE p \in Supplies
      <3>1. CASE p \in request[j].targets
        <4>1. request[j].kind = "shipping"
          BY <2>9, <3>1, MarketplacesAssumption DEF MarketplacesTypeOK, Supplies, Markets
        <4>2. Outer(j) = 0 /\ deliveries[j] <= 1 /\ Inner(p) + 1 = USPS_ATTEMPTS
          BY <2>1, <2>9, <4>1 DEF Outer, JobInv, Inner, Supplies
        <4>3. deliveries[j] = 0 \/ deliveries[j] = 1
          BY <2>1, <4>2
        <4>4. deliveries[j] * ((Outer(j) + 1) * (Inner(p) + 1)) <= USPS_ATTEMPTS
          BY <2>1, <4>2, <4>3
        <4> QED BY <2>1, <2>7, <2>8, <2>9, <4>2, <4>3, <4>4
      <3>2. CASE p \notin request[j].targets
        BY <2>1, <2>3, <2>7, <2>9, <3>2, FS_EmptySet
      <3> QED BY <3>1, <3>2
    <2>10. CASE p \notin Supplies
      <3>1. Inner(p) + 1 = IF p = "AMAZON" THEN MAX_RETRIES + 1 ELSE 1
        BY <2>1, <2>10 DEF Inner
      <3>2. \A a, b, c \in Nat : a * (b * c) = a * b * c
        OBVIOUS
      <3>3. deliveries[j] * ((Outer(j) + 1) * (Inner(p) + 1))
                = deliveries[j] * (Outer(j) + 1) * (Inner(p) + 1)
        BY <2>1, <3>2
      <3>4. deliveries[j] * (Outer(j) + 1) * (Inner(p) + 1) \in Nat
        BY <2>1
      <3>5. entries[<<j, p>>] <= deliveries[j] * (Outer(j) + 1) * (Inner(p) + 1)
        BY <2>1, <2>7, <2>8, <3>3, <3>4
      <3> QED BY <2>10, <3>1, <3>5
    <2> QED BY <2>9, <2>10
  <1> QED BY <1>1, MarketplacesInvariance, PTL

\* Only a quantity whose handling a newer one has overtaken, or one that a call
\* nobody waits for still carries, can come back.
THEOREM StockGoesBackRaced == MarketplacesSpec => StockGoesBackExplained
  <1>1. MarketplacesInv /\ [MarketplacesNext]_marketplacesVars =>
            [quantity' < quantity => quantity' \in raced \/ late[quantity'] > 0]_marketplacesVars
    <2> SUFFICES ASSUME MarketplacesInv, MarketplacesNext, quantity' < quantity
                 PROVE  quantity' \in raced \/ late[quantity'] > 0
      OBVIOUS
    <2>1. quantity \in 0 .. Updates /\ Updates \in Nat
      BY MarketplacesAssumption DEF MarketplacesInv, MarketplacesTypeOK
    <2>2. \/ quantity' = quantity
          \/ \E u \in 1 .. Updates :
                (update[u] = "handling" \/ late[u] > 0) /\ quantity' = u
      <3>1. ASSUME NEW l \in Loops,
                   \/ AmazonAttempt(l) \/ AmazonVerification(l) \/ EbayAttempt(l)
                   \/ EbayRecord(l) \/ WalmartAttempt(l) \/ WalmartInventory(l)
                   \/ UspsAttempt(l) \/ Label(l) \/ Pickup(l) \/ Box(l)
            PROVE  quantity' = quantity
        <4>1. UNCHANGED stock
          BY <3>1, LoopsTurn DEF MarketplacesInv
        <4> QED BY <4>1 DEF stock
      <3>2. ASSUME NEW j \in Jobs,
                   \/ CreateListings(j) \/ ListingCreation(j) \/ Handled(j)
                   \/ GenerateShippingLabel(j) \/ SchedulePickup(j) \/ RequestBoxDelivery(j)
            PROVE  quantity' = quantity
        BY <3>2 DEF CreateListings, ListingCreation, Handled, GenerateShippingLabel,
           SchedulePickup, RequestBoxDelivery, Ship, Run, stock
      <3>3. ASSUME NEW j \in Jobs, NEW p \in Targets, BulkGivesUp(j, p)
            PROVE  quantity' = quantity
        BY <3>3 DEF BulkGivesUp, stock
      <3>4. CASE Crash
        BY <3>4 DEF Crash
      <3>5. ASSUME NEW u \in 1 .. Updates,
                   \/ TakeUpdate(u) \/ SetQuantity(u) \/ InventorySynced(u)
                   \/ InventoryFailed(u) \/ LateCall(u)
            PROVE  \/ quantity' = quantity
                   \/ (update[u] = "handling" \/ late[u] > 0) /\ quantity' = u
        BY <3>5 DEF TakeUpdate, SetQuantity, InventorySynced, InventoryFailed, LateCall, Sync
      <3> QED BY <3>1, <3>2, <3>3, <3>4, <3>5 DEF MarketplacesNext
    <2>3. PICK u \in 1 .. Updates :
            (update[u] = "handling" \/ late[u] > 0) /\ quantity' = u
      BY <2>1, <2>2
    <2> QED BY <2>1, <2>3 DEF MarketplacesInv, StockInv
  <1> QED BY <1>1, MarketplacesInvariance, PTL DEF MarketplacesSpec, StockGoesBackExplained

=============================================================================
