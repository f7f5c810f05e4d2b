---------------------------- MODULE EventStream ----------------------------
(***************************************************************************)
(* Server-sent events of one process: every broadcast is numbered, kept    *)
(* for late comers unless it is about a listing, and put on the queue of   *)
(* every subscriber.  A client that connects is first sent what was kept,  *)
(* if some job it may follow is still running, and then what arrives on    *)
(* its queue.                                                              *)
(*                                                                         *)
(* The event loop runs one handler at a time: what a handler does between  *)
(* two awaits is one step.                                                 *)
(***************************************************************************)
EXTENDS Naturals, Sequences, FiniteSets, SequencesExt

CONSTANTS
    Client,         \* the connections
    User,           \* the users; client c belongs to UserOf[c]
    UserOf,
    Everyone,       \* the owner of an event without a user_id
    RecentEvents,   \* how many events are kept (500)
    MaxEvents       \* bound on the broadcasts

ASSUME EventStreamAssumption ==
    /\ UserOf \in [Client -> User] /\ Everyone \notin User
    /\ RecentEvents \in Nat \ {0} /\ MaxEvents \in Nat

VARIABLES
    seq,        \* _seq
    recent,     \* _recent: the last events, oldest first
    active,     \* users a job of whose, or of the store's, is running
    stream,     \* per client: where its handler is
    inbox,      \* per client: its subscriber queue
    backlog,    \* per client: what is left to replay
    sent,       \* per client: the events sent to it
    owes        \* history, per client: the events it must be sent while it stays

eventVars == <<seq, recent, active, stream, inbox, backlog, sent, owes>>

\* _visible_to
VisibleTo(event, c) == event.owner \in {Everyone, UserOf[c]}

-----------------------------------------------------------------------------

\* Mutant of Subscribed: only clients whose replay is over.
SubscribedLate == {c \in Client : stream[c] = "live"}

\* _subscribers
Subscribed == {c \in Client : stream[c] # "closed"}

\* The next event is put on every queue; they have no bound, and put does not wait.
PutToAll(event) ==
    /\ seq < MaxEvents /\ seq' = event.id
    /\ inbox' = [c \in Client |-> IF c \in Subscribed THEN Append(inbox[c], event) ELSE inbox[c]]
    /\ owes' = [c \in Client |-> IF stream[c] # "closed" /\ VisibleTo(event, c)
                                 THEN owes[c] \cup {event} ELSE owes[c]]
    /\ UNCHANGED <<active, stream, backlog, sent>>

NextEvent(owner) == [id |-> seq + 1, owner |-> owner]

\* _broadcast, up to its return
Broadcast(owner) ==
    /\ recent' = LET all == Append(recent, NextEvent(owner))
                 IN  IF Len(all) > RecentEvents THEN Tail(all) ELSE all
    /\ PutToAll(NextEvent(owner))

\* _broadcast_listing_changed: for everyone who is connected, and not kept.
BroadcastListing == PutToAll(NextEvent(Everyone)) /\ UNCHANGED recent

\* A job of u's starts or ends.
ToggleJob(u) ==
    /\ active' = IF u \in active THEN active \ {u} ELSE active \cup {u}
    /\ UNCHANGED <<seq, recent, stream, inbox, backlog, sent, owes>>

\* [event for event in events if _visible_to(event, user_id)]
VisibleIn(events, c) ==
    LET upTo[n \in 0..Len(events)] ==
            IF n = 0 THEN <<>>
            ELSE IF VisibleTo(events[n], c) THEN Append(upTo[n - 1], events[n])
            ELSE upTo[n - 1]
    IN  upTo[Len(events)]

\* _events_to_replay
EventsToReplay(c) ==
    IF active \cap {UserOf[c], Everyone} = {} THEN <<>> ELSE VisibleIn(recent, c)

\* The generator's first step: it subscribes and takes what it has to replay.
Connect(c) ==
    /\ stream[c] = "closed"
    /\ stream' = [stream EXCEPT ![c] = "replaying"]
    /\ inbox' = [inbox EXCEPT ![c] = <<>>]
    /\ backlog' = [backlog EXCEPT ![c] = EventsToReplay(c)]
    /\ owes' = [owes EXCEPT ![c] = ToSet(EventsToReplay(c))]
    /\ sent' = [sent EXCEPT ![c] = <<>>]
    /\ UNCHANGED <<seq, recent, active>>

Send(c, event) == sent' = [sent EXCEPT ![c] = Append(@, event)]

\* One yield per kept event; broadcasts come in between.
Replay(c) ==
    /\ stream[c] = "replaying"
    /\ IF backlog[c] = <<>>
       THEN stream' = [stream EXCEPT ![c] = "live"] /\ UNCHANGED <<backlog, sent>>
       ELSE /\ Send(c, Head(backlog[c]))
            /\ backlog' = [backlog EXCEPT ![c] = Tail(@)]
            /\ UNCHANGED stream
    /\ UNCHANGED <<seq, recent, active, inbox, owes>>

\* An event of another user is dropped here; a ping changes nothing.
Deliver(c) ==
    /\ stream[c] = "live" /\ inbox[c] # <<>>
    /\ inbox' = [inbox EXCEPT ![c] = Tail(@)]
    /\ IF VisibleTo(Head(inbox[c]), c) THEN Send(c, Head(inbox[c])) ELSE UNCHANGED sent
    /\ UNCHANGED <<seq, recent, active, stream, backlog, owes>>

\* The client goes away: unsubscribe.
Disconnect(c) ==
    /\ stream[c] # "closed"
    /\ stream' = [stream EXCEPT ![c] = "closed"]
    /\ inbox' = [inbox EXCEPT ![c] = <<>>] /\ backlog' = [backlog EXCEPT ![c] = <<>>]
    /\ owes' = [owes EXCEPT ![c] = {}] /\ sent' = [sent EXCEPT ![c] = <<>>]
    /\ UNCHANGED <<seq, recent, active>>

EventInit ==
    /\ seq = 0 /\ recent = <<>> /\ active = {}
    /\ stream = [c \in Client |-> "closed"] /\ inbox = [c \in Client |-> <<>>]
    /\ backlog = [c \in Client |-> <<>>] /\ sent = [c \in Client |-> <<>>]
    /\ owes = [c \in Client |-> {}]

EventNext ==
    \/ \E owner \in User \cup {Everyone} : Broadcast(owner) \/ ToggleJob(owner)
    \/ BroadcastListing
    \/ \E c \in Client : Connect(c) \/ Replay(c) \/ Deliver(c) \/ Disconnect(c)

EventSpec == EventInit /\ [][EventNext]_eventVars

-----------------------------------------------------------------------------

\* What was sent to a client, then what is left to replay, then what waits on its queue
\* are the events it may see, each once and in the order of their numbers: none falls
\* between the replay and the subscription, and none comes both ways.
StreamHasNoGap ==
    \A c \in Client :
        LET waiting == {e \in ToSet(inbox[c]) : VisibleTo(e, c)}
            events == sent[c] \o backlog[c] \o inbox[c]
        IN  /\ ToSet(sent[c]) \cup ToSet(backlog[c]) \cup waiting = owes[c]
            /\ \A i, j \in DOMAIN events : i < j => events[i].id < events[j].id
=============================================================================
