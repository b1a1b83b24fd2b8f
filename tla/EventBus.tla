------------------------------ MODULE EventBus ------------------------------
(***************************************************************************)
(* The broadcast channel of queue events (q_core.rs:73-74) with its one     *)
(* subscriber, the metrics task (service.rs:61-90).  It is a ring: senders  *)
(* never wait, a full ring forgets its oldest event, and a subscriber that  *)
(* was overtaken is told so once (Lagged) before it reads on from the       *)
(* oldest event kept.  Only the kind of an event is kept.                   *)
(***************************************************************************)
EXTENDS Naturals, Sequences, FiniteSets

CONSTANTS
    Watched,    \* the kinds of events the subscriber does not ignore
    Buffer      \* slots of the ring

VARIABLES
    channel,    \* the events in the ring that the subscriber has not read
    lagged,     \* it has been overtaken and has not been told
    lost        \* how many events of each watched kind it will never read

BusInit ==
    /\ channel = <<>>
    /\ lagged = FALSE
    /\ lost = [k \in Watched |-> 0]

InRing(k) == Cardinality({i \in DOMAIN channel : channel[i] = k})

Full == Len(channel) = Buffer

\* Sender::send.
Send(k) ==
    /\ channel' = Append(IF Full THEN Tail(channel) ELSE channel, k)
    /\ lagged' = (lagged \/ Full)
    /\ lost' = IF Full /\ Head(channel) \in Watched
               THEN [lost EXCEPT ![Head(channel)] = @ + 1] ELSE lost

\* Receiver::recv returns an event.
Recv(k) ==
    /\ ~lagged
    /\ channel # <<>>
    /\ k = Head(channel)
    /\ channel' = Tail(channel)
    /\ UNCHANGED <<lagged, lost>>

\* Receiver::recv returns Lagged: its position is now the oldest event kept.
RecvLagged ==
    /\ lagged
    /\ lagged' = FALSE
    /\ UNCHANGED <<channel, lost>>
=============================================================================
