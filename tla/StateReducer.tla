---------------------------- MODULE StateReducer ----------------------------
(***************************************************************************)
(* The reducer of internal/state: the pure function that folds one state   *)
(* event into a snapshot of topics and subscriptions.                      *)
(*                                                                         *)
(* A topic ID is the digest of the topic's URL and a subscription ID is    *)
(* the digest of the topic URL, the callback URL and the lease start       *)
(* (persistence/layout.go), so an ID stands for those fields: TopicOf and  *)
(* CallbackOf read them back.  A Go map entry that does not exist is the   *)
(* status "absent".  Content types are already canonical: the normaliser   *)
(* of state/content_type.go has run.                                       *)
(***************************************************************************)
EXTENDS Naturals

CONSTANTS
    Topics,         \* topic IDs
    Subscriptions,  \* subscription IDs
    Callbacks,      \* callback URLs
    ContentTypes,   \* canonical content types
    Registrations,  \* values of RegisteredAt
    Reasons,        \* stale reasons
    TopicOf,        \* the topic of a subscription
    CallbackOf,     \* the callback of a subscription
    Blank           \* the zero value of a field

ASSUME StaticFields ==
    /\ TopicOf \in [Subscriptions -> Topics]
    /\ CallbackOf \in [Subscriptions -> Callbacks]

-----------------------------------------------------------------------------
TopicEntry ==
    [status : {"absent", "active", "inactive"},
     contentType : ContentTypes \cup {Blank},
     registeredAt : Registrations \cup {Blank},
     revision : Nat]

SubscriptionEntry ==
    [status : {"absent", "active", "stale", "removed"},
     staleReason : Reasons \cup {Blank},
     revision : Nat]

Snapshot ==
    [revision : Nat,
     topics : [Topics -> TopicEntry],
     subscriptions : [Subscriptions -> SubscriptionEntry]]

EmptySnapshot ==
    [revision |-> 0,
     topics |-> [t \in Topics |-> [status |-> "absent", contentType |-> Blank,
                                   registeredAt |-> Blank, revision |-> 0]],
     subscriptions |-> [s \in Subscriptions |-> [status |-> "absent",
                                   staleReason |-> Blank, revision |-> 0]]]

(* What validateSnapshot asks of a snapshot beyond the shape of its fields. *)
(* EncodeSnapshot and DecodeSnapshot fail without it.  With it they are     *)
(* inverse to each other: the lists on the wire hold the entries that are   *)
(* not absent, one for an ID.                                               *)
ValidSnapshot(snapshot) ==
    /\ \A t \in Topics :
          LET topic == snapshot.topics[t] IN
          topic.status # "absent" =>
              topic.contentType \in ContentTypes /\ topic.revision <= snapshot.revision
    /\ \A s \in Subscriptions : snapshot.subscriptions[s].revision <= snapshot.revision

TopicEvent ==
    [type : {"TopicRegistered"}, topic : Topics,
     contentType : ContentTypes, registeredAt : Registrations]
        \cup [type : {"TopicDeregistered"}, topic : Topics]

RemovalTypes == {"SubscriptionUnsubscribed", "SubscriptionRemoved"}

SubscriptionEvent ==
    [type : {"SubscriptionVerified", "SubscriptionReactivated"} \cup RemovalTypes,
     subscription : Subscriptions]
        \cup [type : {"SubscriptionStale"}, subscription : Subscriptions, reason : Reasons]

Event == TopicEvent \cup SubscriptionEvent

-----------------------------------------------------------------------------
(* A subscription that still stands for its topic and callback. *)
Current(snapshot, s) == snapshot.subscriptions[s].status \in {"active", "stale"}

SameEndpoint(s, o) == TopicOf[s] = TopicOf[o] /\ CallbackOf[s] = CallbackOf[o]

(* At most one subscription stands for a topic and a callback. *)
AtMostOneCurrent(snapshot) ==
    \A s, o \in Subscriptions :
        SameEndpoint(s, o) /\ Current(snapshot, s) /\ Current(snapshot, o) => s = o

(* sameTopic, with the status the registration asks for. *)
SameTopic(topic, e) ==
    topic.status = "active" /\ topic.contentType = e.contentType
                            /\ topic.registeredAt = e.registeredAt

(* The transitions for which apply returns ErrInvalidTransition. *)
Rejects(snapshot, e) ==
    \/ /\ e.type = "TopicRegistered"
       /\ snapshot.topics[e.topic].status # "absent"
       /\ snapshot.topics[e.topic].contentType # e.contentType
    \/ /\ e.type = "TopicDeregistered"
       /\ snapshot.topics[e.topic].status = "absent"
    \/ /\ e.type = "SubscriptionVerified"
       /\ \/ snapshot.topics[TopicOf[e.subscription]].status # "active"
          \/ snapshot.subscriptions[e.subscription].status \in {"stale", "removed"}
    \/ /\ e.type \in RemovalTypes
       /\ snapshot.subscriptions[e.subscription].status = "absent"
    \/ /\ e.type \in {"SubscriptionStale", "SubscriptionReactivated"}
       /\ snapshot.subscriptions[e.subscription].status \in {"absent", "removed"}

(* Mutant of Coalesces: only the subscription itself is looked up. *)
CoalescesItself(snapshot, s) == Current(snapshot, s)

(* A verification of s finds a subscription that stands for its endpoint:  *)
(* s itself or another one.                                                *)
Coalesces(snapshot, s) ==
    \E o \in Subscriptions : SameEndpoint(s, o) /\ Current(snapshot, o)

(* The transitions for which apply returns changed = false. *)
Unchanged(snapshot, e) ==
    \/ /\ e.type = "TopicRegistered"
       /\ SameTopic(snapshot.topics[e.topic], e)
    \/ /\ e.type = "TopicDeregistered"
       /\ snapshot.topics[e.topic].status = "inactive"
    \/ /\ e.type = "SubscriptionVerified"
       /\ Coalesces(snapshot, e.subscription)
    \/ /\ e.type \in RemovalTypes
       /\ snapshot.subscriptions[e.subscription].status = "removed"
    \/ /\ e.type = "SubscriptionStale"
       /\ snapshot.subscriptions[e.subscription].status = "stale"
       /\ snapshot.subscriptions[e.subscription].staleReason = e.reason
    \/ /\ e.type = "SubscriptionReactivated"
       /\ snapshot.subscriptions[e.subscription].status = "active"

(* The addressed topic after an effective event, stamped with revision r. *)
TopicAfter(topic, e, r) ==
    IF e.type = "TopicRegistered"
    THEN [status |-> "active", contentType |-> e.contentType,
          registeredAt |-> e.registeredAt, revision |-> r]
    ELSE [topic EXCEPT !.status = "inactive", !.revision = r]

(* Mutant of SubscriptionAfter: the entry is stamped one revision ahead. *)
StampedAhead(e, r) ==
    [status |-> CASE e.type \in RemovalTypes -> "removed"
                  [] e.type = "SubscriptionStale" -> "stale"
                  [] OTHER -> "active",
     staleReason |-> IF e.type = "SubscriptionStale" THEN e.reason ELSE Blank,
     revision |-> r + 1]

(* The addressed subscription after an effective event, stamped with r. *)
SubscriptionAfter(e, r) ==
    [status |-> CASE e.type \in RemovalTypes -> "removed"
                  [] e.type = "SubscriptionStale" -> "stale"
                  [] OTHER -> "active",
     staleReason |-> IF e.type = "SubscriptionStale" THEN e.reason ELSE Blank,
     revision |-> r]

(* Mutant of Effect: the snapshot's revision is not incremented. *)
EffectWithoutIncrement(snapshot, e) ==
    IF e.type \in {"TopicRegistered", "TopicDeregistered"}
    THEN [snapshot EXCEPT !.topics[e.topic] = TopicAfter(@, e, snapshot.revision)]
    ELSE [snapshot EXCEPT !.subscriptions[e.subscription] = SubscriptionAfter(e, snapshot.revision)]

Effect(snapshot, e) ==
    LET r == snapshot.revision + 1 IN
    IF e.type \in {"TopicRegistered", "TopicDeregistered"}
    THEN [revision |-> r,
          topics |-> [snapshot.topics EXCEPT ![e.topic] = TopicAfter(@, e, r)],
          subscriptions |-> snapshot.subscriptions]
    ELSE [revision |-> r,
          topics |-> snapshot.topics,
          subscriptions |-> [snapshot.subscriptions EXCEPT
                                ![e.subscription] = SubscriptionAfter(e, r)]]

(* Reducer.Apply for an event that is not rejected. *)
Apply(snapshot, e) ==
    IF Unchanged(snapshot, e) THEN snapshot ELSE Effect(snapshot, e)

=============================================================================
