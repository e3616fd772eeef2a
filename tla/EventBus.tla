------------------------------ MODULE EventBus ------------------------------
(***************************************************************************)
(* The in-process bus of room events (event_bus.py) and the sockets that   *)
(* listen to it (routers/rooms.py, room_events).  A socket subscribes, and *)
(* only then reads the snapshot it sends first, so that what happens in    *)
(* between is either in the snapshot or in its queue.                      *)
(*                                                                         *)
(* An event is known by its room and the room's state version.  Where the  *)
(* versions come from is up to the module that composes this one (Rooms).  *)
(***************************************************************************)
EXTENDS Naturals, Sequences

CONSTANTS
    Room,
    Socket,    \* sockets of clients
    NoRoom

ASSUME NoRoomAssumption == NoRoom \notin Room

VARIABLES
    sub,       \* sub[k]: the room socket k listens to
    stage,     \* stage[k]: "closed", "subscribed", "read" (snapshot read), "open" (sent)
    queue,     \* queue[k]: versions of the events waiting in the queue of k
    newest     \* newest[k]: the newest version k has read or sent

busVars == <<sub, stage, queue, newest>>

BusInit ==
    /\ sub = [k \in Socket |-> NoRoom]
    /\ stage = [k \in Socket |-> "closed"]
    /\ queue = [k \in Socket |-> <<>>]
    /\ newest = [k \in Socket |-> 0]

Larger(m, n) == IF m < n THEN n ELSE m

\* Mutant: a queue is filled only once the snapshot has been sent.
SubscribersOpen(r) == {k \in Socket : sub[k] = r /\ stage[k] = "open"}

Subscribers(r) == {k \in Socket : sub[k] = r}

\* publish: the event is put into the queue of every subscriber of its room.
Publish(r, version) ==
    /\ queue' = [k \in Socket |-> IF k \in Subscribers(r) THEN Append(queue[k], version)
                                  ELSE queue[k]]
    /\ UNCHANGED <<sub, stage, newest>>

\* The first message has been accepted: subscribe.
Subscribe(k, r) ==
    /\ stage[k] = "closed"
    /\ sub' = [sub EXCEPT ![k] = r]
    /\ stage' = [stage EXCEPT ![k] = "subscribed"]
    /\ UNCHANGED <<queue, newest>>

\* The snapshot is read from the database.
ReadSnapshot(k, version) ==
    /\ stage[k] = "subscribed"
    /\ newest' = [newest EXCEPT ![k] = version]
    /\ stage' = [stage EXCEPT ![k] = "read"]
    /\ UNCHANGED <<sub, queue>>

SendSnapshot(k) ==
    /\ stage[k] = "read"
    /\ stage' = [stage EXCEPT ![k] = "open"]
    /\ UNCHANGED <<sub, queue, newest>>

\* One event leaves the queue and is sent.
SendEvent(k) ==
    /\ stage[k] = "open"
    /\ queue[k] # <<>>
    /\ newest' = [newest EXCEPT ![k] = Larger(@, Head(queue[k]))]
    /\ queue' = [queue EXCEPT ![k] = Tail(@)]
    /\ UNCHANGED <<sub, stage>>

\* The sockets in K are disconnected: their queues go with them.
Disconnected(K) ==
    /\ sub' = [k \in Socket |-> IF k \in K THEN NoRoom ELSE sub[k]]
    /\ stage' = [k \in Socket |-> IF k \in K THEN "closed" ELSE stage[k]]
    /\ queue' = [k \in Socket |-> IF k \in K THEN <<>> ELSE queue[k]]
    /\ newest' = [k \in Socket |-> IF k \in K THEN 0 ELSE newest[k]]

Disconnect(k) == stage[k] # "closed" /\ Disconnected({k})

BusTypeOK ==
    /\ sub \in [Socket -> Room \cup {NoRoom}]
    /\ stage \in [Socket -> {"closed", "subscribed", "read", "open"}]
    /\ queue \in [Socket -> Seq(Nat)]
    /\ newest \in [Socket -> Nat]
=============================================================================
