----------------------------- MODULE Notifications -----------------------------
(****************************************************************************)
(* Notifications of one user in one organization.  A creation with a dedupe *)
(* key looks for the notification it would repeat, and only then inserts;   *)
(* a unique index on the key decides between two creations that both found  *)
(* nothing.  The created event follows the insert, best effort.             *)
(****************************************************************************)
EXTENDS Naturals, Sequences, FiniteSets, SequencesExt

CONSTANTS
    Keys,           \* dedupe keys
    Creators,       \* creations in progress at once
    Clients,        \* requests of the user in progress at once
    None,
    MaxCreations,   \* bound on creations
    MaxReads,       \* bound on the user's requests
    MaxFaults       \* bound on failed calls and crashes

VARIABLES
    notifications,  \* sequence of [key, isRead, readAt], in creation order
    creator,        \* per creation: next step, key, its notification
    client,         \* per request: next step, notification, time
    emitted,        \* ids announced, in order
    clock,
    creations,      \* creations so far
    faults,         \* failures so far
    lost            \* history: stored notifications whose creator failed

notificationVars == <<notifications, creator, client, emitted, clock, creations, faults, lost>>

NoCreation == [pc |-> "idle", key |-> None, id |-> 0]
NoRequest == [pc |-> "idle", id |-> 0, at |-> 0]
Ids == DOMAIN notifications
Fault == faults < MaxFaults /\ faults' = faults + 1

Init ==
    /\ notifications = <<>>
    /\ creator = [c \in Creators |-> NoCreation]
    /\ client = [q \in Clients |-> NoRequest]
    /\ emitted = <<>>
    /\ clock = 0
    /\ creations = 0
    /\ faults = 0
    /\ lost = {}

-----------------------------------------------------------------------------
(* What is read.                                                            *)

FindByDedupeKey(key) == {i \in Ids : notifications[i].key = key}
UnreadCount == Cardinality({i \in Ids : ~notifications[i].isRead})

\* Newest first, one page.
ListPage(page, size) ==
    LET newest == Reverse(notifications)
        last == IF page * size < Len(newest) THEN page * size ELSE Len(newest)
    IN  [items |-> SubSeq(newest, (page - 1) * size + 1, last), total |-> Len(newest)]

\* _require_non_blank_text and _normalize_optional_text.
Blank == {"", " "}
RequiredOk(fields) == fields \cap (Blank \cup {None}) = {}
OptionalText(text) == IF text \in Blank THEN None ELSE text

-----------------------------------------------------------------------------
(* Creations.                                                               *)

\* Without a key nothing is looked up; a notification that is found is the
\* answer.
BeginCreation(c) ==
    /\ creator[c].pc = "idle"
    /\ creations < MaxCreations /\ creations' = creations + 1
    /\ \E key \in Keys \cup {None} :
        creator' = [creator EXCEPT ![c] =
            IF key # None /\ FindByDedupeKey(key) # {} THEN NoCreation
            ELSE [pc |-> "insert", key |-> key, id |-> 0]]
    /\ UNCHANGED <<notifications, client, emitted, clock, faults, lost>>

\* Variant: an index that is not unique.
InsertAnyway(c) ==
    /\ creator[c].pc = "insert"
    /\ notifications' = Append(notifications,
                               [key |-> creator[c].key, isRead |-> FALSE, readAt |-> 0])
    /\ creator' = [creator EXCEPT ![c] = [@ EXCEPT !.pc = "emit", !.id = Len(notifications) + 1]]
    /\ UNCHANGED <<client, emitted, clock, creations, faults, lost>>

\* create, or the error of the unique index, which the service does not catch.
Insert(c) ==
    /\ creator[c].pc = "insert"
    /\ IF creator[c].key # None /\ FindByDedupeKey(creator[c].key) # {}
       THEN /\ creator' = [creator EXCEPT ![c] = NoCreation]
            /\ UNCHANGED notifications
       ELSE /\ notifications' = Append(notifications,
                    [key |-> creator[c].key, isRead |-> FALSE, readAt |-> 0])
            /\ creator' = [creator EXCEPT ![c] =
                    [@ EXCEPT !.pc = "emit", !.id = Len(notifications) + 1]]
    /\ UNCHANGED <<client, emitted, clock, creations, faults, lost>>

EmitCreated(c) ==
    /\ creator[c].pc = "emit"
    /\ emitted' = Append(emitted, creator[c].id)
    /\ creator' = [creator EXCEPT ![c] = NoCreation]
    /\ UNCHANGED <<notifications, client, clock, creations, faults, lost>>

CreationFails(c) ==
    /\ creator[c].pc # "idle" /\ Fault
    /\ lost' = IF creator[c].pc = "emit" THEN lost \cup {creator[c].id} ELSE lost
    /\ creator' = [creator EXCEPT ![c] = NoCreation]
    /\ UNCHANGED <<notifications, client, emitted, clock, creations>>

-----------------------------------------------------------------------------
(* The user's requests.                                                     *)

\* mark_as_read looks the notification up in the service and again in the
\* repository; one that is read already is the answer, otherwise the time is
\* taken.
FindUnread(q) ==
    /\ client[q].pc = "idle"
    /\ clock < MaxReads /\ clock' = clock + 1
    /\ \E i \in Ids :
        /\ ~notifications[i].isRead
        /\ client' = [client EXCEPT ![q] = [pc |-> "mark", id |-> i, at |-> clock + 1]]
    /\ UNCHANGED <<notifications, creator, emitted, creations, faults, lost>>

\* The update does not ask again whether it is unread: it may replace the time
\* of a request that came in between.
MarkAsRead(q) ==
    /\ client[q].pc = "mark"
    /\ notifications' = [notifications EXCEPT ![client[q].id] =
                            [@ EXCEPT !.isRead = TRUE, !.readAt = client[q].at]]
    /\ client' = [client EXCEPT ![q] = NoRequest]
    /\ UNCHANGED <<creator, emitted, clock, creations, faults, lost>>

\* One update of every unread notification.
MarkAllAsRead ==
    /\ clock < MaxReads /\ clock' = clock + 1
    /\ notifications' = [i \in Ids |-> IF notifications[i].isRead THEN notifications[i]
                            ELSE [notifications[i] EXCEPT !.isRead = TRUE, !.readAt = clock + 1]]
    /\ UNCHANGED <<creator, client, emitted, creations, faults, lost>>

Next ==
    \/ \E c \in Creators :
        BeginCreation(c) \/ Insert(c) \/ EmitCreated(c) \/ CreationFails(c)
    \/ \E q \in Clients : FindUnread(q) \/ MarkAsRead(q)
    \/ MarkAllAsRead
Spec == Init /\ [][Next]_notificationVars

-----------------------------------------------------------------------------
\* Type invariant.
TypeOK ==
    /\ \A i \in Ids : /\ notifications[i].key \in Keys \cup {None}
                      /\ notifications[i].isRead = (notifications[i].readAt > 0)
                      /\ notifications[i].readAt \in 0 .. clock
    /\ \A c \in Creators : creator[c].pc \in {"idle", "insert", "emit"}
    /\ \A q \in Clients : client[q].pc \in {"idle", "mark"} /\ client[q].id \in Ids \cup {0}

\* Callers that notify about the same thing at once leave one notification
\* (the lookup and the insert of create_notification are two calls).
OnePerKey == \A i, j \in Ids : notifications[i].key = notifications[j].key
                                 /\ notifications[i].key # None => i = j

\* A stored notification is announced exactly once, or will be, or its creator
\* failed after the insert.
AnnouncedOnce ==
    /\ IsInjective(emitted) /\ ToSet(emitted) \subseteq Ids
    /\ \A i \in Ids : i \in ToSet(emitted) \cup lost \/ \E c \in Creators : creator[c].id = i
===============================================================================
