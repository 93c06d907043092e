----------------------------- MODULE OfflineSync -----------------------------
(***************************************************************************)
(* The offline queue of the browser.  A call whose fetch fails is stored in  *)
(* IndexedDB; the page replays the store when it comes online, and so does    *)
(* the service worker on its background sync, each from a list of its own.   *)
(* A fetch fails before the server has the call or after it has acted on it: *)
(* the browser cannot tell.                                                  *)
(***************************************************************************)
EXTENDS Integers, FiniteSets

CONSTANTS
    Actions,      \* the calls made through fetchWithSync
    Replayers,    \* the page and the service worker
    MaxLosses     \* bound: fetches that fail

ASSUME OfflineAssumption ==
    /\ MaxLosses \in Nat /\ IsFiniteSet(Replayers)
    /\ {"idle", "next"} \cap Actions = {}

VARIABLES
    once,         \* the actions whose route refuses a repetition (a lesson)
    client,       \* what the caller of fetchWithSync knows of each action
    store,        \* the actions in IndexedDB
    served,       \* how often the server has acted on each action
    replayer,     \* per replayer: its list, the action it waits for, the answer
    losses

offlineVars == <<once, client, store, served, replayer, losses>>

Resting == [list |-> {}, at |-> "idle", answer |-> "none"]

\* which routes refuse a repetition is a choice among the given sets
OfflineInit(onces) ==
    /\ once \in onces
    /\ client = [a \in Actions |-> "unsent"]
    /\ store = {}
    /\ served = [a \in Actions |-> 0]
    /\ replayer = [r \in Replayers |-> Resting]
    /\ losses = 0

Loss == losses < MaxLosses /\ losses' = losses + 1

\* The server: a route that refuses a repetition answers 409 to it.
Accepts(a) == ~(a \in once /\ served[a] > 0)

Serve(a) == served' = [served EXCEPT ![a] = IF Accepts(a) THEN @ + 1 ELSE @]

\* fetchWithSync hands any response to its caller, a refusal included.
FetchAnswered(a) ==
    /\ client[a] = "unsent"
    /\ \/ /\ Serve(a)
          /\ client' = [client EXCEPT ![a] = "answered"]
       \/ /\ client' = [client EXCEPT ![a] = "refused"]
          /\ UNCHANGED served
    /\ UNCHANGED <<once, store, replayer, losses>>

\* The fetch fails, on the way there or on the way back, and the call is stored.
FetchFails(a) ==
    /\ client[a] = "unsent"
    /\ Loss
    /\ Serve(a) \/ UNCHANGED served
    /\ client' = [client EXCEPT ![a] = "queued"]
    /\ store' = store \cup {a}
    /\ UNCHANGED <<once, replayer>>

\* The page's isSyncing and the one sync event of the worker: a replayer does not
\* overlap with itself.
StartReplay(r) ==
    /\ replayer[r].at = "idle"
    /\ store # {}
    /\ replayer' = [replayer EXCEPT ![r] = [Resting EXCEPT !.list = store,
                                                           !.at = "next"]]
    /\ UNCHANGED <<once, client, store, served, losses>>

\* Mutant: the action is removed before its answer is known.
Fetched_xRemovesFirst(r, a) == store' = store \ {a}

Fetched(r, a) == UNCHANGED store

\* The next action of the list is fetched; the list is not read again.
ReplayNext(r) ==
    /\ replayer[r].at = "next"
    /\ \E a \in replayer[r].list :
          /\ Fetched(r, a)
          /\ \/ /\ Serve(a)
                /\ replayer' = [replayer EXCEPT
                      ![r] = [list |-> @.list \ {a}, at |-> a,
                              answer |-> IF Accepts(a) THEN "ok" ELSE "conflict"]]
                /\ UNCHANGED losses
             \/ /\ Loss
                /\ Serve(a) \/ UNCHANGED served
                /\ replayer' = [replayer EXCEPT ![r].list = @ \ {a}]
    /\ UNCHANGED <<once, client>>

\* Only an answer that is ok removes the action.
Answered(r) ==
    /\ replayer[r].at \in Actions
    /\ store' = IF replayer[r].answer = "ok" THEN store \ {replayer[r].at} ELSE store
    /\ replayer' = [replayer EXCEPT ![r].at = "next", ![r].answer = "none"]
    /\ UNCHANGED <<once, client, served, losses>>

ReplayEnds(r) ==
    /\ replayer[r].at = "next"
    /\ replayer[r].list = {}
    /\ replayer' = [replayer EXCEPT ![r] = Resting]
    /\ UNCHANGED <<once, client, store, served, losses>>

\* The page is closed or the worker stopped in the middle.
ReplayerStops(r) ==
    /\ replayer[r].at # "idle"
    /\ Loss
    /\ replayer' = [replayer EXCEPT ![r] = Resting]
    /\ UNCHANGED <<once, client, store, served>>

OfflineNext ==
    \/ \E a \in Actions : FetchAnswered(a) \/ FetchFails(a)
    \/ \E r \in Replayers :
          \/ StartReplay(r) \/ ReplayNext(r) \/ Answered(r) \/ ReplayEnds(r)
          \/ ReplayerStops(r)
-----------------------------------------------------------------------------
OfflineTypeOK ==
    /\ once \subseteq Actions
    /\ client \in [Actions -> {"unsent", "answered", "refused", "queued"}]
    /\ store \subseteq Actions
    /\ served \in [Actions -> Nat]
    /\ replayer \in [Replayers -> [list : SUBSET Actions,
                                   at : {"idle", "next"} \cup Actions,
                                   answer : {"none", "ok", "conflict"}]]

\* An action that the browser took over from its caller is in the store until the
\* server has acted on it; and the server acts twice on one only if its route
\* accepts repetitions and an answer was lost, or both replayers had it in their
\* lists (useOfflineSync.ts:80-105, sw.js:178-213).
QueuedActionsReachTheServer ==
    \A a \in Actions :
       /\ client[a] = "queued" => a \in store \/ served[a] > 0
       /\ served[a] > 1 => a \notin once /\ client[a] = "queued"
       /\ served[a] > 1 + losses => Cardinality(Replayers) > 1
=============================================================================
