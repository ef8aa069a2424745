------------------------------ MODULE Catalogue ------------------------------
(***************************************************************************)
(* ListingService and SearchService, each with its cache in Redis.         *)
(* ListingService has a Redis client of its own and writes through it what *)
(* it wrote to the database; SearchService keeps what OpenSearch answered  *)
(* through RedisService, whose circuit breaker is made by hand.  What the  *)
(* services call and the source does not define (the helpers that          *)
(* listing.service.ts announces, RedisService.get) is modelled from the    *)
(* calls.                                                                  *)
(***************************************************************************)
EXTENDS Naturals, Opossum

CONSTANTS MaxRequests,      \* bound: HTTP requests of all kinds together
          Images, None,
          THRESHOLD,        \* circuitBreaker.threshold of RedisService, 5
          MaxEvents         \* bound: requests, and the failures and connections
                            \* of RedisService's client, together

ASSUME CatalogueAssumption ==
    /\ MaxRequests \in Nat
    /\ THRESHOLD \in Nat \ {0}
    /\ MaxEvents \in Nat

VARIABLES
    requests,       \* how many there have been
    listings,       \* rows of the listings table
    cached,         \* listing:<id>
    cachedImages,   \* listing:<id>:images
    handler,        \* the handlers of ListingController
    crossed,        \* history: listings that two handlers wrote side by side
    search,         \* the handlers of SearchService.searchListings
    found,          \* search:<params>
    breaker,        \* SearchService.circuitBreaker
    redis,          \* RedisService.circuitBreaker: failures and isOpen
    timers,         \* its resets that have not fired
    early,          \* history: a reset fired before the youngest one
    intervals,      \* its health checks that run
    failed          \* history: failures it has counted

listingVars == <<listings, cached, cachedImages, handler, crossed>>
searchVars == <<search, found, breaker>>
redisVars == <<redis, timers, early, intervals, failed>>
catalogueVars == <<requests, listingVars, searchVars, redisVars>>

Requests == 1 .. MaxRequests
Ids == 0 .. MaxRequests          \* 0 is an older listing
\* A row, with the images that its aiData is about: what aggregateImageAnalysis
\* returned is in ai; suggestedPrice and categories, which createListing adds to
\* it and no update does, are in priced.
Row == [images : SUBSET Images, ai : SUBSET Images, priced : SUBSET Images,
        synced : BOOLEAN]
ASSUME NoneIsNoValue == None \notin Row /\ \A s \in SUBSET Images : s # None

Keys == {"listing", "images"}
Params == {"short", "long"}      \* long: the key has more than 256 characters

Handler == [kind : {"create", "update"}, on : Ids, want : SUBSET Images,
            left : SUBSET Images,        \* analyses under way
            syncs : BOOLEAN, read : Row \cup {None}, copy : Row \cup {None},
            writes : SUBSET Keys,        \* setex calls under way
            stage : {"read", "images", "sync", "cache", "done", "failed"},
            saved : BOOLEAN]             \* the row has been written
Search == [params : Params,
           stage : {"fire", "searching", "set", "exec", "done", "failed"},
           answered : BOOLEAN,           \* OpenSearch has answered
           refused : {"no", "open", "key", "exec"}]

CatalogueTypeOK ==
    /\ requests \in 0 .. MaxRequests
    /\ listings \in [Ids -> Row \cup {None}]
    /\ cached \in [Ids -> Row \cup {None}]
    /\ cachedImages \in [Ids -> (SUBSET Images) \cup {None}]
    /\ DOMAIN handler \subseteq Requests
    /\ \A r \in DOMAIN handler : handler[r] \in Handler
    /\ crossed \subseteq Ids
    /\ DOMAIN search \subseteq Requests
    /\ \A r \in DOMAIN search : search[r] \in Search
    /\ found \subseteq Params
    /\ breaker \in BreakerState
    /\ redis \in [failures : 0 .. MaxEvents, isOpen : BOOLEAN]
    /\ timers \in 0 .. MaxEvents
    /\ early \in BOOLEAN
    /\ intervals \in 0 .. MaxEvents
    /\ failed \in 0 .. MaxEvents

CatalogueInit ==
    /\ requests = 0
    /\ \E old \in {x \in Row : x.images = x.ai /\ x.images = x.priced} :
        listings = [l \in Ids |-> IF l = 0 THEN old ELSE None]
    /\ cached = [l \in Ids |-> None]
    /\ cachedImages = [l \in Ids |-> None]
    /\ handler = << >> /\ crossed = {}
    /\ search = << >> /\ found = {} /\ breaker = "closed"
    /\ redis = [failures |-> 0, isOpen |-> FALSE]
    /\ timers = 0 /\ early = FALSE /\ intervals = 0 /\ failed = 0

\* The bound allows for one event more.
Possible == requests + failed + intervals < MaxEvents

\* The next request; f gets its handler's record.
New(f, record) ==
    /\ requests < MaxRequests /\ Possible
    /\ requests' = requests + 1
    /\ f' = [r \in DOMAIN f \cup {requests'} |-> IF r = requests' THEN record ELSE f[r]]

Stage(r, s) == r \in DOMAIN handler /\ handler[r].stage = s

(***************************************************************************)
(* Listings.                                                               *)
(***************************************************************************)
NewHandler(kind, on, want, syncs) ==
    [kind |-> kind, on |-> on, want |-> want, left |-> want, syncs |-> syncs,
     read |-> None, copy |-> None, writes |-> {}, saved |-> FALSE,
     stage |-> IF kind = "create" THEN "images" ELSE "read"]

\* createListing: it is told the id of the row that it will insert.
CreateListing(want, syncs) ==
    /\ New(handler, NewHandler("create", requests + 1, want, syncs))
    /\ UNCHANGED <<listings, cached, cachedImages, crossed>>

\* updateListing of a listing that its owner knows.
UpdateListing(on, want, syncs) ==
    /\ \/ on = 0
       \/ Stage(on, "done") /\ handler[on].kind = "create"
    /\ New(handler, NewHandler("update", on, want, syncs))
    /\ UNCHANGED <<listings, cached, cachedImages, crossed>>

\* getListing() of the controller, getListingById() of the service.
GetListingById(r) ==
    /\ Stage(r, "read")
    /\ \/ handler' = [handler EXCEPT ![r].read = listings[handler[r].on],
                                     ![r].stage = "images"]
       \/ handler' = [handler EXCEPT ![r].stage = "failed", ![r].left = {}]
    /\ UNCHANGED <<requests, listings, cached, cachedImages, crossed>>

\* processListingImages: one function per image, all at once.  The cache is read
\* first, and that read, the download, the analysis or the setex of a new
\* analysis may fail; the entries expire, so that a hit and a miss end alike.
\* The first that fails fails the handler, the others go on.
ProcessListingImage(r, i) ==
    /\ r \in DOMAIN handler /\ i \in handler[r].left
    /\ Stage(r, "images") \/ Stage(r, "failed")
    /\ \/ handler' = [handler EXCEPT ![r].left = @ \ {i}]
       \/ handler' = [handler EXCEPT ![r].left = @ \ {i}, ![r].stage = "failed"]
    /\ UNCHANGED <<requests, listings, cached, cachedImages, crossed>>

\* Bug: the old aiData is spread over the new one.
BugSavedRow(h) ==
    IF h.kind = "create"
      THEN [images |-> h.want, ai |-> h.want, priced |-> h.want, synced |-> FALSE]
      ELSE IF h.want = {} THEN listings[h.on]
      ELSE [listings[h.on] EXCEPT !.images = h.want, !.ai = h.read.ai,
                                  !.priced = h.read.priced]

\* createListingRecord, or updateListingRecord with the columns of updateData:
\* new images bring aiData, the one of the listing as it was read with their
\* aggregate spread over it.
SavedRow(h) ==
    IF h.kind = "create"
      THEN [images |-> h.want, ai |-> h.want, priced |-> h.want, synced |-> FALSE]
      ELSE IF h.want = {} THEN listings[h.on]
      ELSE [listings[h.on] EXCEPT !.images = h.want, !.ai = h.want,
                                  !.priced = h.read.priced]

\* Another handler has its copy of the row to cache, or wrote the row between
\* this one's reading and writing it.
Crosses(r) ==
    \/ \E q \in DOMAIN handler \ {r} :
        handler[q].on = handler[r].on /\ handler[q].saved /\ handler[q].writes # {}
    \/ /\ handler[r].kind = "update"
       /\ listings[handler[r].on] # handler[r].read

\* Every image is analysed: estimateDimensions, when there are none given and
\* only on creation, and the row.
SaveListing(r) ==
    /\ Stage(r, "images") /\ handler[r].left = {}
    /\ LET h == handler[r] IN
       \/ /\ listings' = [listings EXCEPT ![h.on] = SavedRow(h)]
          /\ handler' = [handler EXCEPT ![r].copy = SavedRow(h), ![r].saved = TRUE,
                ![r].writes = Keys, ![r].stage = IF h.syncs THEN "sync" ELSE "cache"]
          /\ crossed' = IF Crosses(r) THEN crossed \cup {h.on} ELSE crossed
       \/ /\ handler' = [handler EXCEPT ![r].stage = "failed"]
          /\ UNCHANGED <<listings, crossed>>
    /\ UNCHANGED <<requests, cached, cachedImages>>

\* syncWithMarketplaces records that everything is SYNCED, in the row and not in
\* the object that is cached after it; updateMarketplaceSyncs of an update.
SyncWithMarketplaces(r) ==
    /\ Stage(r, "sync")
    /\ \/ /\ handler' = [handler EXCEPT ![r].stage = "cache"]
          /\ listings' = [listings EXCEPT ![handler[r].on].synced =
                              @ \/ handler[r].kind = "create"]
       \/ /\ handler' = [handler EXCEPT ![r].stage = "failed", ![r].writes = {}]
          /\ UNCHANGED listings
    /\ UNCHANGED <<requests, cached, cachedImages, crossed>>

\* Bug: the listing that had been read is cached.
BugCacheListingData(r, key) ==
    /\ Stage(r, "cache") \/ Stage(r, "failed")
    /\ key \in handler[r].writes
    /\ LET h == handler[r]
           rest == h.writes \ {key}
           stale == IF h.kind = "update" THEN h.read ELSE h.copy IN
       \/ /\ IF key = "listing"
               THEN cached' = [cached EXCEPT ![h.on] = stale] /\ UNCHANGED cachedImages
               ELSE cachedImages' = [cachedImages EXCEPT ![h.on] = stale.images]
                    /\ UNCHANGED cached
          /\ handler' = [handler EXCEPT ![r].writes = rest,
                ![r].stage = IF @ = "cache" /\ rest = {} THEN "done" ELSE @]
       \/ /\ handler' = [handler EXCEPT ![r].writes = rest, ![r].stage = "failed"]
          /\ UNCHANGED <<cached, cachedImages>>
    /\ UNCHANGED <<requests, listings, crossed>>

\* cacheListingData: two setex calls at once; one that fails fails the handler,
\* and the other is carried out all the same.
CacheListingData(r, key) ==
    /\ Stage(r, "cache") \/ Stage(r, "failed")
    /\ key \in handler[r].writes
    /\ LET h == handler[r]
           rest == h.writes \ {key} IN
       \/ /\ IF key = "listing"
               THEN cached' = [cached EXCEPT ![h.on] = h.copy] /\ UNCHANGED cachedImages
               ELSE cachedImages' = [cachedImages EXCEPT ![h.on] = h.copy.images]
                    /\ UNCHANGED cached
          /\ handler' = [handler EXCEPT ![r].writes = rest,
                ![r].stage = IF @ = "cache" /\ rest = {} THEN "done" ELSE @]
       \/ /\ handler' = [handler EXCEPT ![r].writes = rest, ![r].stage = "failed"]
          /\ UNCHANGED <<cached, cachedImages>>
    /\ UNCHANGED <<requests, listings, crossed>>

(***************************************************************************)
(* Searches.                                                               *)
(***************************************************************************)
At(r, s) == r \in DOMAIN search /\ search[r].stage = s
Goto(r, s) == search' = [search EXCEPT ![r].stage = s]

\* searchListings: the cached result, or a search, or the read of the cache fails.
SearchListings(p) ==
    /\ \E stage \in {IF p \in found THEN "done" ELSE "fire", "failed"} :
        New(search, [params |-> p, stage |-> stage,
                     answered |-> FALSE, refused |-> "no"])
    /\ UNCHANGED <<found, breaker>>

Fire(r) ==
    /\ At(r, "fire")
    /\ IF Admits(breaker) THEN Goto(r, "searching") /\ breaker' = OnFire(breaker)
                          ELSE Goto(r, "failed") /\ UNCHANGED breaker
    /\ UNCHANGED <<requests, found>>

\* executeSearch answers in time, or fails, or has not answered in 3 seconds.
ExecuteSearch(r) ==
    /\ At(r, "searching")
    /\ \/ /\ search' = [search EXCEPT ![r].stage = "set", ![r].answered = TRUE]
          /\ breaker' = OnSuccess(breaker)
       \/ Goto(r, "failed") /\ breaker' \in OnFailure(breaker)
    /\ UNCHANGED <<requests, found>>

Reset ==
    /\ breaker = "open"
    /\ breaker' = "halfOpen"
    /\ UNCHANGED <<requests, search, found>>

\* RedisService.set() refuses: the search has its result and fails.
Set(r) ==
    /\ At(r, "set")
    /\ LET refuses(why) ==
            search' = [search EXCEPT ![r].stage = "failed", ![r].refused = why] IN
       IF redis.isOpen THEN refuses("open")
       ELSE IF search[r].params = "long" THEN refuses("key")
       ELSE Goto(r, "exec")
    /\ UNCHANGED <<requests, found, breaker>>

\* pipeline.exec() also resolves when the command in it has failed.
Exec(r) ==
    /\ At(r, "exec")
    /\ \/ Goto(r, "done") /\ found' = found \cup {search[r].params}
       \/ Goto(r, "done") /\ UNCHANGED found
       \/ /\ search' = [search EXCEPT ![r].stage = "failed", ![r].refused = "exec"]
          /\ UNCHANGED found
    /\ UNCHANGED <<requests, breaker>>

\* CACHE_TTL, 5 minutes, has passed.
Expire(p) ==
    /\ p \in found
    /\ found' = found \ {p}
    /\ UNCHANGED <<requests, search, breaker>>

(***************************************************************************)
(* RedisService.                                                           *)
(***************************************************************************)

\* Bug: the breaker opens one failure too soon.
BugUpdateCircuitBreaker ==
    LET n == redis.failures + 1
        opens == n >= THRESHOLD - 1 IN
    /\ Possible
    /\ failed' = failed + 1
    /\ redis' = [failures |-> n, isOpen |-> redis.isOpen \/ opens]
    /\ timers' = IF opens THEN timers + 1 ELSE timers

\* Every failure at or past the threshold sets one more timer.
UpdateCircuitBreaker ==
    LET n == redis.failures + 1
        opens == n >= THRESHOLD IN
    /\ Possible
    /\ failed' = failed + 1
    /\ redis' = [failures |-> n, isOpen |-> redis.isOpen \/ opens]
    /\ timers' = IF opens THEN timers + 1 ELSE timers

\* The client's "error" event; the retry strategy of a cluster has given up.
ClientError == UpdateCircuitBreaker /\ UNCHANGED <<early, intervals>>

\* The client is "ready", again after every reconnection: one more interval.
Ready ==
    /\ Possible
    /\ intervals' = intervals + 1
    /\ UNCHANGED <<redis, timers, early, failed>>

\* A ping of one of them fails.
HealthCheckFails ==
    /\ intervals > 0
    /\ UpdateCircuitBreaker
    /\ UNCHANGED <<early, intervals>>

\* Bug: the failures are not forgotten when the breaker closes.
BugTimerFires ==
    /\ timers > 0
    /\ timers' = timers - 1
    /\ redis' = [redis EXCEPT !.isOpen = FALSE]
    /\ early' = (early \/ timers > 1)
    /\ UNCHANGED <<intervals, failed>>

\* The oldest timer closes the breaker, whatever failed since it was set.
TimerFires ==
    /\ timers > 0
    /\ timers' = timers - 1
    /\ redis' = [failures |-> 0, isOpen |-> FALSE]
    /\ early' = (early \/ timers > 1)
    /\ UNCHANGED <<intervals, failed>>

CatalogueNext ==
    \/ /\ \/ \E want \in SUBSET Images, syncs \in BOOLEAN :
               \/ CreateListing(want, syncs)
               \/ \E on \in Ids : UpdateListing(on, want, syncs)
          \/ \E r \in Requests :
               \/ GetListingById(r) \/ SaveListing(r) \/ SyncWithMarketplaces(r)
               \/ \E i \in Images : ProcessListingImage(r, i)
               \/ \E key \in Keys : CacheListingData(r, key)
       /\ UNCHANGED <<searchVars, redisVars>>
    \/ /\ \/ \E p \in Params : SearchListings(p) \/ Expire(p)
          \/ \E r \in Requests : Fire(r) \/ ExecuteSearch(r) \/ Set(r) \/ Exec(r)
          \/ Reset
       /\ UNCHANGED <<listingVars, redisVars>>
    \/ /\ ClientError \/ Ready \/ HealthCheckFails \/ TimerFires
       /\ UNCHANGED <<requests, listingVars, searchVars>>

CatalogueSpec == CatalogueInit /\ [][CatalogueNext]_catalogueVars

-----------------------------------------------------------------------------
(* Properties. *)

Updated(l) ==
    \E r \in DOMAIN handler :
        handler[r].on = l /\ handler[r].kind = "update" /\ handler[r].saved

\* What a creation caches never names a marketplace: it is the object that was
\* made before syncWithMarketplaces wrote the row, the one createListing also
\* returns, though the unit test of a synchronizing creation expects SYNCED in
\* it.  From the first update on the cached listing is the row, and so are the
\* cached images at all times.  Except while a handler is between its row and
\* its copies, after one was stopped there, and when two handlers crossed.
\* (createListing, updateListing, cacheListingData.)
ListingCacheExplained ==
    \A l \in Ids : listings[l] # None /\ l \notin crossed
            /\ ~(\E r \in DOMAIN handler : handler[r].on = l /\ handler[r].saved
                                            /\ ~Stage(r, "done")) =>
        /\ cachedImages[l] \in {None, listings[l].images}
        /\ cached[l] # None =>
            cached[l] = IF Updated(l) THEN listings[l]
                                      ELSE [listings[l] EXCEPT !.synced = FALSE]

Derived(row, l) ==
    row # None =>
        /\ row.ai = row.images
        /\ l \in DOMAIN handler => row.priced = handler[l].want

\* However updates of a listing cross, its row and its cached copy hold the
\* analysis of the images they show, all of them and no others; but the price
\* and the categories suggested with them stay those of the images the listing
\* was created with.  (updateListing spreads the new aggregate over the aiData
\* that it had read before the images were analysed.)
AnalysisOfImages ==
    \A l \in Ids : Derived(listings[l], l) /\ Derived(cached[l], l)

\* The breaker is open exactly from the failure that reaches the threshold on
\* and always has a timer that closes it; it is closed while the timer of a
\* later failure runs only because an earlier one has fired.
BreakerTimed ==
    /\ redis.isOpen <=> redis.failures >= THRESHOLD
    /\ redis.isOpen => timers > 0
    /\ ~redis.isOpen /\ timers > 0 => early

\* OpenSearch has answered and the search fails all the same: its parameters are
\* too long for a key, Redis failed just then, or Redis has failed THRESHOLD
\* times.  (searchListings awaits redisService.set(), which throws.)
SearchLostExplained ==
    \A r \in DOMAIN search : At(r, "failed") /\ search[r].answered =>
        \/ search[r].params = "long" /\ search[r].refused = "key"
        \/ search[r].refused = "exec"
        \/ search[r].refused = "open" /\ failed >= THRESHOLD

=============================================================================
