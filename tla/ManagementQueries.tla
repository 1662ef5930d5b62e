------------------------- MODULE ManagementQueries --------------------------
(***************************************************************************)
(* Management queries (internal/management/query.go) and the handlers of   *)
(* the operations API in front of them (internal/admin/service.go).        *)
(*                                                                         *)
(* A query asks the consolidator for a snapshot behind a barrier and       *)
(* computes its page or result from it.  The queries of a request are what *)
(* these operators return for the snapshot that answers it; they change no *)
(* state.                                                                  *)
(***************************************************************************)
EXTENDS Consolidator, FiniteSets

CONSTANTS
    MaximumPageSize,
    NoValue               \* an empty query field

ASSUME PageSizes == MaximumPageSize \in Nat \ {0} /\ NoValue \notin Nat

Limits == {NoValue} \cup 0..MaximumPageSize + 1

SubscriptionQuery ==
    [limit : Limits, status : {NoValue, "active", "stale", "removed", "unknown"},
     topic : Topics \cup {NoValue, "unknown"}]
TopicQuery == [limit : Limits, status : {NoValue, "active", "inactive", "unknown"}]

BadRequest == [http |-> 400]
NotFound == [http |-> 404]

(* pageLimit: the handlers refuse the limit 0, which validatedLimit takes  *)
(* for none; so the service only sees limits from 1 on.                    *)
pageLimit(limit) == IF limit = NoValue THEN MaximumPageSize ELSE limit
validatedLimit(limit) == IF limit = 0 THEN MaximumPageSize ELSE limit
ValidLimit(limit) == limit \in 0..MaximumPageSize

Found(entries, id) == entries[id].status # "absent"

Keys(entries) == {id \in DOMAIN entries : Found(entries, id)}

(* The keys of a map in the order of the strings, which the model leaves   *)
(* open: any list that holds every key once.                               *)
sortedKeys(entries) ==
    {ids \in [1..Cardinality(Keys(entries)) -> Keys(entries)] :
        \A i, j \in DOMAIN ids : ids[i] = ids[j] => i = j}

MatchesSubscription(snap, q, s) ==
    /\ q.status \in {NoValue, snap.subscriptions[s].status}
    /\ q.topic \in {NoValue, TopicOf[s]}

MatchesTopic(snap, q, t) == q.status \in {NoValue, snap.topics[t].status}

(* Mutant of Turn: the loop ends one entry past a full page. *)
TurnPastFull(page, id, wanted, limit) ==
    IF id \in wanted /\ Len(page) <= limit THEN Append(page, id) ELSE page

(* One turn of the loop of a list: an entry that does not match is passed  *)
(* over, one that does is appended, and the loop ends at a full page.      *)
Turn(page, id, wanted, limit) ==
    IF id \in wanted /\ Len(page) < limit THEN Append(page, id) ELSE page

(* The loop: what is listed after each turn. *)
Listed(ids, wanted, limit) ==
    LET page[i \in 0..Len(ids)] ==
            IF i = 0 THEN <<>> ELSE Turn(page[i - 1], ids[i], wanted, limit)
    IN  page

(* The views show the fields of an entry; the callback is redacted. *)
subscriptionView(snap, s) == [id |-> s, topic |-> TopicOf[s], entry |-> snap.subscriptions[s]]
topicView(snap, t) == [id |-> t, entry |-> snap.topics[t]]

ListSubscriptions(snap, q, ids) ==
    IF ~ValidLimit(q.limit) \/ q.status = "unknown" THEN BadRequest
    ELSE LET wanted == {s \in Subscriptions : MatchesSubscription(snap, q, s)}
             page == Listed(ids, wanted, validatedLimit(q.limit))[Len(ids)]
         IN  [http |-> 200, revision |-> snap.revision,
              items |-> [i \in DOMAIN page |-> subscriptionView(snap, page[i])]]

ListTopics(snap, q, ids) ==
    IF ~ValidLimit(q.limit) \/ q.status = "unknown" THEN BadRequest
    ELSE LET wanted == {t \in Topics : MatchesTopic(snap, q, t)}
             page == Listed(ids, wanted, validatedLimit(q.limit))[Len(ids)]
         IN  [http |-> 200, revision |-> snap.revision,
              items |-> [i \in DOMAIN page |-> topicView(snap, page[i])]]

(* The handlers. *)
subscriptions(snap, q, ids) ==
    IF pageLimit(q.limit) \notin 1..MaximumPageSize THEN BadRequest
    ELSE ListSubscriptions(snap, [q EXCEPT !.limit = pageLimit(@)], ids)

topics(snap, q, ids) ==
    IF pageLimit(q.limit) \notin 1..MaximumPageSize THEN BadRequest
    ELSE ListTopics(snap, [q EXCEPT !.limit = pageLimit(@)], ids)

(* Mutant: only subscriptions that are not removed are looked up. *)
GetCurrentSubscription(snap, s) ==
    IF ~Current(snap, s) THEN NotFound
    ELSE [http |-> 200, revision |-> snap.revision, view |-> subscriptionView(snap, s)]

GetSubscription(snap, s) ==
    IF ~Found(snap.subscriptions, s) THEN NotFound
    ELSE [http |-> 200, revision |-> snap.revision, view |-> subscriptionView(snap, s)]

GetTopic(snap, t) ==
    IF ~Found(snap.topics, t) THEN NotFound
    ELSE [http |-> 200, revision |-> snap.revision, view |-> topicView(snap, t)]

-----------------------------------------------------------------------------
(* Properties *)

(* The i-th item is the i-th of matches in the list of ids, and only a    *)
(* full page ends before they do.                                          *)
IsPage(page, matches, limit, ids) ==
    LET places == {k \in DOMAIN ids : ids[k] \in matches}
    IN  /\ Len(page) <= limit
        /\ Len(page) < limit => Len(page) = Cardinality(places)
        /\ \A i \in DOMAIN page : \E k \in places :
              ids[k] = page[i].id /\ Cardinality({j \in places : j <= k}) = i

(* "List responses remain bounded and deterministically ordered by stable  *)
(* product" ID (ADR 0017): of the state that answers a query, a page is    *)
(* the beginning of what matches; a page that is not full leaves out       *)
(* nothing, and each of its items is what the query for its ID returns.    *)
PagesAreExact ==
    (\E c \in Clients : request[c] = "reading") =>
        /\ \A ids \in sortedKeys(snapshot.subscriptions), q \in SubscriptionQuery :
              LET answer == subscriptions(snapshot, q, ids)
                  matches == {s \in Subscriptions : /\ Found(snapshot.subscriptions, s)
                                                    /\ MatchesSubscription(snapshot, q, s)}
              IN  IF q.limit \in Limits \ {0, MaximumPageSize + 1} /\ q.status # "unknown"
                  THEN /\ IsPage(answer.items, matches, pageLimit(q.limit), ids)
                       /\ \A i \in DOMAIN answer.items :
                             GetSubscription(snapshot, answer.items[i].id) =
                                [http |-> 200, revision |-> answer.revision, view |-> answer.items[i]]
                  ELSE answer = BadRequest
        /\ \A ids \in sortedKeys(snapshot.topics), q \in TopicQuery :
              LET answer == topics(snapshot, q, ids)
                  matches == {t \in Topics : Found(snapshot.topics, t) /\ MatchesTopic(snapshot, q, t)}
              IN  IF q.limit \in Limits \ {0, MaximumPageSize + 1} /\ q.status # "unknown"
                  THEN IsPage(answer.items, matches, pageLimit(q.limit), ids)
                  ELSE answer = BadRequest

(* "Retained inactive topics and removed subscriptions remain inspectable" *)
(* (ADR 0017): what a query may have returned is found by every later one, *)
(* through any hub and across restarts of the consolidator, in a state     *)
(* that is not older, and a removed subscription stays removed.            *)
QueriesNeverGoBack ==
    \A c \in Clients, earlier \in snapshots :
        request[c] = "reading" /\ earlier.revision <= served =>
            /\ \A s \in Subscriptions : GetSubscription(earlier, s) # NotFound =>
                  LET was == GetSubscription(earlier, s).view.entry
                      is == GetSubscription(snapshot, s)
                  IN  /\ is # NotFound /\ was.revision <= is.view.entry.revision
                      /\ was.status = "removed" => is.view.entry = was
            /\ \A t \in Topics : GetTopic(earlier, t) # NotFound =>
                  /\ GetTopic(snapshot, t) # NotFound
                  /\ GetTopic(earlier, t).view.entry.revision <=
                        GetTopic(snapshot, t).view.entry.revision

=============================================================================
