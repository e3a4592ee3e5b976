-------------------------- MODULE VPNGateCatalogue --------------------------
(***************************************************************************)
(* The VPNGate server list: the daemon's cache with its time to live, the  *)
(* one fetch at a time, and the clients that wait for it.  The daemon's    *)
(* handlers run on the looper; the fetch is a thread that answers, at any  *)
(* later moment, with a message of its own.                                *)
(***************************************************************************)
EXTENDS Naturals

CONSTANTS
    Clients,
    MaxWaiting,     \* bound on the requests of one client that are waiting
    SpawnOutcomes   \* outcomes of spawn_thread: {TRUE}, {FALSE} or both

ASSUME CatalogueAssumption == MaxWaiting \in Nat /\ SpawnOutcomes \subseteq BOOLEAN

VARIABLES
    fCatalogueCache,            \* nothing yet, servers, or an error text
    warm,                       \* fetched less than kCatalogueTTL ago
    fCatalogueFetchInFlight,
    fCataloguePending,          \* how often each client is on the waiting list
    fetch,                      \* the thread, or the result it posted
    owed                        \* requests of each client without an answer

catalogueVars == <<fCatalogueCache, warm, fCatalogueFetchInFlight, fCataloguePending, fetch, owed>>

CatalogueInit ==
    /\ fCatalogueCache = "empty" /\ warm = FALSE
    /\ fCatalogueFetchInFlight = FALSE
    /\ fCataloguePending = [c \in Clients |-> 0]
    /\ fetch = "none"
    /\ owed = [c \in Clients |-> 0]

\* A thread that cannot be spawned posts nothing.
BackgroundFetch ==
    \E spawned \in SpawnOutcomes : fetch' = IF spawned THEN "running" ELSE fetch

KickVPNGateFetch == fCatalogueFetchInFlight' = TRUE /\ BackgroundFetch

\* The cache answers a request that does not ask for a refresh.
CacheHit(force) == ~force /\ warm /\ fCatalogueCache # "empty"

KickIfIdle ==
    IF fCatalogueFetchInFlight
    THEN UNCHANGED <<fCatalogueFetchInFlight, fetch>>
    ELSE KickVPNGateFetch

\* _HandleRequestVPNGate: from the cache, or by waiting for a fetch.
RequestVPNGate(c) ==
    /\ owed[c] < MaxWaiting
    /\ \E force \in BOOLEAN :
         \/ /\ CacheHit(force)
            /\ UNCHANGED <<fCatalogueFetchInFlight, fCataloguePending, fetch, owed>>
         \/ /\ ~CacheHit(force)
            /\ fCataloguePending' = [fCataloguePending EXCEPT ![c] = @ + 1]
            /\ owed' = [owed EXCEPT ![c] = @ + 1]
            /\ KickIfIdle
    /\ UNCHANGED <<fCatalogueCache, warm>>

\* fetch_thread: servers, or an error (no answer, or no usable server in it).
FetchEnds ==
    /\ fetch = "running"
    /\ fetch' \in {"list", "error"}
    /\ UNCHANGED <<fCatalogueCache, warm, fCatalogueFetchInFlight, fCataloguePending, owed>>

ForgetWaiting == fCataloguePending' = [c \in Clients |-> 0]

\* Whatever came is cached and sent to all who wait.
Deliver ==
    /\ fetch' = "none"
    /\ fCatalogueFetchInFlight' = FALSE
    /\ fCatalogueCache' = fetch
    /\ warm' = TRUE
    /\ owed' = [c \in Clients |-> owed[c] - fCataloguePending[c]]
    /\ ForgetWaiting

RetriesErrors ==
    \/ fetch = "list" /\ Deliver
    \/ /\ fetch = "error" /\ BackgroundFetch
       /\ UNCHANGED <<fCatalogueCache, warm, fCatalogueFetchInFlight, fCataloguePending, owed>>

\* _HandleVPNGateFetched.
VPNGateFetched == fetch \in {"list", "error"} /\ Deliver

\* kCatalogueTTL runs out.
CacheExpires ==
    /\ warm /\ warm' = FALSE
    /\ UNCHANGED <<fCatalogueCache, fCatalogueFetchInFlight, fCataloguePending, fetch, owed>>

CatalogueNext ==
    \/ \E c \in Clients : RequestVPNGate(c)
    \/ FetchEnds \/ VPNGateFetched \/ CacheExpires

\* The download times out at the latest, and the looper drains its queue.
CatalogueFairness == WF_catalogueVars(FetchEnds) /\ WF_catalogueVars(VPNGateFetched)

CatalogueSpec == CatalogueInit /\ [][CatalogueNext]_catalogueVars

-----------------------------------------------------------------------------
\* The cache, the waiting list and the thread hold values of their types; no
\* client is answered more often than it asked.
CatalogueTypeOK ==
    /\ fCatalogueCache \in {"empty", "list", "error"} /\ warm \in BOOLEAN
    /\ fCatalogueFetchInFlight \in BOOLEAN
    /\ fCataloguePending \in [Clients -> 0..MaxWaiting]
    /\ fetch \in {"none", "running", "list", "error"}
    /\ owed \in [Clients -> 0..MaxWaiting]

\* While a request is without an answer a fetch that will end is on its way, and
\* the flag that keeps a second one from starting says so
\* (_HandleRequestVPNGate).
WaitingMeansFetching ==
    /\ fCatalogueFetchInFlight <=> fetch # "none"
    /\ (\E c \in Clients : owed[c] > 0) => fCatalogueFetchInFlight

\* Every request is answered: "the UI never gets stuck waiting"
\* (VPNGateFetcher.h).
EveryRequestAnswered == \A c \in Clients : owed[c] > 0 ~> owed[c] = 0
=============================================================================
