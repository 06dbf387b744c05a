---------------------------- MODULE AgentSession ----------------------------
(***************************************************************************)
(* The session of the Python agent with the server: the thread of          *)
(* HeartbeatThread, which connects, registers, fetches the caches one by   *)
(* one and then sends heartbeats, and the threads that receive messages    *)
(* and call the listeners (EventListener, ServerResponsesListener).        *)
(*                                                                         *)
(* While a cache is fetched, its listener is disabled and the events for   *)
(* it wait in a queue that all listeners share (a class attribute).  The   *)
(* content of a cache is the number of its last change in the server.      *)
(*                                                                         *)
(* External: the server, and the connection, which keeps the order of the  *)
(* messages; disconnect does not wait for the thread that receives them.   *)
(***************************************************************************)
EXTENDS Naturals, Sequences

CONSTANTS Caches,      \* their number: post_registration_requests has 5
          QueueSize,   \* of unprocessed_messages_queue, 100
          MaxUpdates,  \* bound on the changes of each cache in the server
          MaxSends,    \* bound on the messages sent on one connection
          MaxFaults    \* bound on the connections lost and the requests that fail

ASSUME SessionAssumption == /\ Caches \in Nat \ {0} /\ QueueSize \in Nat
                            /\ MaxUpdates \in Nat /\ MaxFaults \in Nat
                            /\ MaxSends \in Nat

VARIABLES
  stop_event, is_registered, connection,
  counter,      \* correlation_counter of the connection: the messages sent on it
  beat,         \* the heartbeat thread: where it is, with which cache, the number
                \* it waits for, and whether an exception is on its way
  enabled, unprocessed_messages_queue,
  cache,
  responses,    \* the answers nobody has taken
  receiver,     \* the threads that receive, of this connection and an earlier one
  requests, subscribed, channel, version, \* the server, its messages to the agent
  faults,
  spoiled       \* the caches of which, since their listener was disabled, an event was
                \* dropped or overtaken, or the message of an old connection applied

agent == <<stop_event, is_registered, connection>>
local == <<enabled, unprocessed_messages_queue, cache>>
server == <<requests, subscribed, channel, version>>
history == <<faults, spoiled>>
vars == <<agent, counter, beat, local, responses, receiver, server, history>>

Cache == 1..Caches
Threads == {"current", "old"}
At(place, n) == [at |-> place, cache |-> n, id |-> 0, failed |-> FALSE]
Waiting(n, id) == [At("wait", n) EXCEPT !.id = id]
Failing(place, n) == [At(place, n) EXCEPT !.failed = TRUE]
Request(kind, n, id) == [kind |-> kind, cache |-> n, id |-> id]
Message(kind, n, id, v) == [kind |-> kind, cache |-> n, id |-> id, version |-> v]
Resting == [at |-> "idle", message |-> Message("none", 0, 0, 0)]

Init ==
  /\ stop_event = FALSE /\ is_registered = FALSE /\ connection = "none"
  /\ counter = 0 /\ beat = At("loop", 0)
  /\ enabled = [n \in Cache |-> TRUE] /\ unprocessed_messages_queue = <<>>
  /\ cache = [n \in Cache |-> 0]
  /\ responses = {}
  /\ receiver = [r \in Threads |-> Resting]
  /\ requests = <<>> /\ subscribed = {} /\ channel = <<>>
  /\ version = [n \in Cache |-> 0]
  /\ faults = 0 /\ spoiled = {}

-----------------------------------------------------------------------------
(* The heartbeat thread *)

\* The requests of cache n (0: none), the last of which is to be answered.  A lost
\* connection is noticed when something is sent on it.
Send(kinds, n, otherwise) ==
  LET id == counter + 1 IN
  IF connection = "open"
  THEN /\ counter' = id /\ beat' = Waiting(n, id)
       /\ requests' = requests \o [i \in DOMAIN kinds |-> Request(kinds[i], n, id)]
  ELSE UNCHANGED <<counter, requests>> /\ beat' = otherwise

\* run and register: establish_connection, add_listeners, the request.
Connect ==
  /\ beat = At("loop", 0) /\ ~stop_event /\ ~is_registered
  /\ connection' = "open" /\ counter' = 1
  /\ requests' = <<Request("registration", 0, 1)>> /\ beat' = Waiting(0, 1)
  /\ UNCHANGED <<stop_event, is_registered, local, responses, receiver, subscribed, channel,
                 version, history>>

Heartbeat ==
  /\ beat = At("loop", 0) /\ ~stop_event /\ is_registered
  /\ counter < MaxSends \/ connection # "open"
  /\ Send(<<"heartbeat">>, 0, At("unregister", 0))
  /\ UNCHANGED <<agent, local, responses, receiver, subscribed, channel, version, history>>

Leave ==
  /\ beat = At("loop", 0) /\ stop_event /\ beat' = At("unregister", 0)
  /\ UNCHANGED <<counter, agent, local, responses, receiver, server, history>>

\* From here on the events for the next cache wait.
Disable ==
  /\ beat.at = "next"
  /\ enabled' = [enabled EXCEPT ![beat.cache] = FALSE]
  /\ beat' = [beat EXCEPT !.at = "fetch"]
  /\ spoiled' = spoiled \ {beat.cache}
  /\ UNCHANGED <<counter, agent, unprocessed_messages_queue, cache, responses, receiver, server,
                 faults>>

\* Mutant: the cache is fetched before the agent subscribes to its changes.
Fetch_First ==
  /\ beat.at = "fetch"
  /\ Send(<<"get", "subscribe">>, beat.cache, Failing("enable", beat.cache))
  /\ UNCHANGED <<agent, local, responses, receiver, subscribed, channel, version, history>>

\* subscribe_to_topics, then blocking_request.
Fetch ==
  /\ beat.at = "fetch"
  /\ Send(<<"subscribe", "get">>, beat.cache, Failing("enable", beat.cache))
  /\ UNCHANGED <<agent, local, responses, receiver, subscribed, channel, version, history>>

Wanted == IF beat.cache # 0 THEN "get"
          ELSE IF is_registered THEN "heartbeat" ELSE "registration"
AfterFailure == IF beat.cache = 0 THEN At("unregister", 0) ELSE Failing("enable", beat.cache)

\* The end of blocking_request.  The answer to a message of an earlier connection
\* that bears the same number is taken for the answer.
Take(a) ==
  /\ beat.at = "wait" /\ a \in responses /\ a.id = beat.id
  /\ responses' = responses \ {a}
  /\ \/ /\ a.kind = Wanted /\ a.cache = beat.cache
        /\ beat' = CASE Wanted = "registration" -> At("next", 1)
                     [] Wanted = "heartbeat" -> At("loop", 0)
                     [] Wanted = "get" -> At("enable", beat.cache)
        /\ cache' = IF Wanted = "get" THEN [cache EXCEPT ![a.cache] = a.version] ELSE cache
        /\ spoiled' = spoiled \cup (IF a.own THEN {} ELSE {a.cache} \cap Cache)
        /\ UNCHANGED stop_event
     \/ /\ ~a.own /\ Wanted = "heartbeat"    \* the wrong id: restartAgent
        /\ stop_event' = TRUE /\ beat' = At("loop", 0) /\ UNCHANGED <<cache, spoiled>>
     \/ /\ ~a.own /\ <<a.kind, a.cache>> # <<Wanted, beat.cache>>
        /\ beat' = AfterFailure /\ UNCHANGED <<stop_event, cache, spoiled>>
  /\ UNCHANGED <<is_registered, connection, counter, enabled, unprocessed_messages_queue,
                 receiver, server, faults>>

\* The request times out, or the server refuses it.
Fail ==
  /\ beat.at = "wait"
  /\ \/ connection = "broken" /\ UNCHANGED faults
     \/ connection = "open" /\ faults < MaxFaults /\ faults' = faults + 1
  /\ beat' = AfterFailure
  /\ UNCHANGED <<counter, agent, local, responses, receiver, server, spoiled>>

\* The server may ask to confirm a message, which is another message sent.
Confirm(n) == \E i \in 0..n : counter' = IF connection = "open" THEN counter + i ELSE counter

AfterEnable == IF beat.failed THEN At("unregister", 0)
               ELSE IF beat.cache < Caches THEN At("next", beat.cache + 1)
               ELSE At("finish", 0)

\* Mutant: the events that waited are handled only when the cache was fetched.
Enable_Fetched ==
  /\ beat.at = "enable"
  /\ enabled' = [enabled EXCEPT ![beat.cache] = TRUE]
  /\ beat' = IF beat.failed THEN AfterEnable ELSE [beat EXCEPT !.at = "drain"]
  /\ UNCHANGED <<counter, agent, unprocessed_messages_queue, cache, responses, receiver, server,
                 history>>

\* finally: takes event_queue_lock of the listener, which is enabled from here on,
\* and keeps it while the queue is emptied.
Enable ==
  /\ beat.at = "enable"
  /\ enabled' = [enabled EXCEPT ![beat.cache] = TRUE]
  /\ beat' = [beat EXCEPT !.at = "drain"]
  /\ UNCHANGED <<counter, agent, unprocessed_messages_queue, cache, responses, receiver, server,
                 history>>

Locked(n) == beat.at = "drain" /\ beat.cache = n

\* One turn of dequeue_unprocessed_events: on_event of the listener whose turn it is.
Dequeue ==
  /\ beat.at = "drain" /\ unprocessed_messages_queue # <<>>
  /\ cache' = [cache EXCEPT ![beat.cache] = Head(unprocessed_messages_queue).version]
  /\ unprocessed_messages_queue' = Tail(unprocessed_messages_queue)
  /\ Confirm(1)
  /\ UNCHANGED <<agent, beat, enabled, responses, receiver, server, history>>

\* The queue is empty: the lock is released, and an exception goes on.
Unlock ==
  /\ beat.at = "drain" /\ unprocessed_messages_queue = <<>>
  /\ beat' = AfterEnable
  /\ UNCHANGED <<counter, agent, local, responses, receiver, server, history>>

\* Subscribes to the other topics, and exposes the connection.
Finish ==
  /\ beat.at = "finish"
  /\ is_registered' = (connection = "open")
  /\ beat' = IF connection = "open" THEN At("loop", 0) ELSE At("unregister", 0)
  /\ UNCHANGED <<counter, stop_event, connection, local, responses, receiver, server, history>>

\* Mutant: the agent stays registered when it disconnects.
Unregister_Registered ==
  /\ beat.at = "unregister" /\ receiver["old"] = Resting
  /\ connection' = "none"
  /\ receiver' = [r \in Threads |-> IF r = "old" THEN receiver["current"] ELSE Resting]
  /\ responses' = {}
  /\ requests' = <<>> /\ subscribed' = {} /\ channel' = <<>>
  /\ beat' = At(IF stop_event THEN "end" ELSE "loop", 0)
  /\ UNCHANGED <<counter, stop_event, is_registered, local, version, history>>

\* disconnect, reset_responses; the thread that receives goes on with what it has.
Unregister ==
  /\ beat.at = "unregister" /\ receiver["old"] = Resting
  /\ is_registered' = FALSE /\ connection' = "none"
  /\ receiver' = [r \in Threads |-> IF r = "old" THEN receiver["current"] ELSE Resting]
  /\ responses' = {}
  /\ requests' = <<>> /\ subscribed' = {} /\ channel' = <<>>
  /\ beat' = At(IF stop_event THEN "end" ELSE "loop", 0)
  /\ UNCHANGED <<counter, stop_event, local, version, history>>

-----------------------------------------------------------------------------
(* The threads that receive *)

Receive ==
  /\ receiver["current"] = Resting /\ channel # <<>>
  /\ receiver' = [receiver EXCEPT !["current"] = [at |-> "look", message |-> Head(channel)]]
  /\ channel' = Tail(channel)
  /\ UNCHANGED <<counter, agent, beat, local, responses, requests, subscribed, version, history>>

Goes(r, place) == receiver' = [receiver EXCEPT ![r].at = place]
Rests(r) == receiver' = [receiver EXCEPT ![r] = Resting]
Spoils(r, n, already) ==
  spoiled' = IF r = "old" \/ already THEN spoiled \cup {n} ELSE spoiled

\* on_message: the answer is put, or the listener's flag is read without the lock.
Look(r) ==
  /\ receiver[r].at = "look"
  /\ LET m == receiver[r].message IN
     IF m.kind # "event"
     THEN /\ responses' = {a \in responses : a.id # m.id} \cup
                {[kind |-> m.kind, cache |-> m.cache, id |-> m.id, version |-> m.version,
                  own |-> r = "current"]}
          /\ Rests(r)
     ELSE /\ Goes(r, IF enabled[m.cache] THEN "handle" ELSE "queue")
          /\ UNCHANGED responses
  /\ UNCHANGED <<counter, agent, beat, local, server, history>>

\* Mutant: the queue has no limit.
Enqueue_Unbounded(r) ==
  /\ receiver[r].at = "queue" /\ ~Locked(receiver[r].message.cache)
  /\ LET m == receiver[r].message IN
     IF enabled[m.cache]
     THEN Goes(r, "handle") /\ UNCHANGED <<unprocessed_messages_queue, spoiled>>
     ELSE /\ unprocessed_messages_queue' = Append(unprocessed_messages_queue, m)
          /\ Spoils(r, m.cache, FALSE)
          /\ Rests(r)
  /\ UNCHANGED <<counter, agent, beat, enabled, cache, responses, server, faults>>

\* Under event_queue_lock: an event for which there is no room is dropped.
Enqueue(r) ==
  /\ receiver[r].at = "queue" /\ ~Locked(receiver[r].message.cache)
  /\ LET m == receiver[r].message
         room == Len(unprocessed_messages_queue) < QueueSize
     IN IF enabled[m.cache]
        THEN Goes(r, "handle") /\ UNCHANGED <<unprocessed_messages_queue, spoiled>>
        ELSE /\ unprocessed_messages_queue' = IF room THEN Append(unprocessed_messages_queue, m)
                                              ELSE unprocessed_messages_queue
             /\ Spoils(r, m.cache, ~room)
             /\ Rests(r)
  /\ UNCHANGED <<counter, agent, beat, enabled, cache, responses, server, faults>>

\* on_event of the listener of the cache, report_status_to_sender: without the lock,
\* before the events that still wait.
Handle(r) ==
  /\ receiver[r].at = "handle"
  /\ LET m == receiver[r].message IN
     /\ cache' = [cache EXCEPT ![m.cache] = m.version]
     /\ Spoils(r, m.cache, Locked(m.cache) /\ unprocessed_messages_queue # <<>>)
  /\ Rests(r) /\ Confirm(1)
  /\ UNCHANGED <<agent, beat, enabled, unprocessed_messages_queue, responses, server, faults>>

-----------------------------------------------------------------------------
(* The server, the connection, and whoever stops the agent *)

Publish(n) ==
  /\ version[n] < MaxUpdates /\ version' = [version EXCEPT ![n] = @ + 1]
  /\ channel' = IF n \in subscribed THEN Append(channel, Message("event", n, 0, version[n] + 1))
                                    ELSE channel
  /\ UNCHANGED <<counter, agent, beat, local, responses, receiver, requests, subscribed, history>>

Serve ==
  /\ requests # <<>> /\ requests' = Tail(requests)
  /\ LET q == Head(requests) IN
     IF q.kind = "subscribe"
     THEN subscribed' = subscribed \cup {q.cache} /\ UNCHANGED channel
     ELSE /\ channel' = Append(channel, Message(q.kind, q.cache, q.id,
                                  IF q.kind = "get" THEN version[q.cache] ELSE 0))
          /\ UNCHANGED subscribed
  /\ UNCHANGED <<counter, agent, beat, local, responses, receiver, version, history>>

Break ==
  /\ connection = "open" /\ faults < MaxFaults /\ faults' = faults + 1
  /\ connection' = "broken"
  /\ requests' = <<>> /\ subscribed' = {} /\ channel' = <<>>
  /\ UNCHANGED <<counter, stop_event, is_registered, beat, local, responses, receiver, version,
                 spoiled>>

Stop ==
  /\ ~stop_event /\ stop_event' = TRUE
  /\ UNCHANGED <<counter, is_registered, connection, beat, local, responses, receiver, server, history>>

-----------------------------------------------------------------------------
Beat == \/ Connect \/ Heartbeat \/ Leave \/ Disable \/ Fetch \/ Enable \/ Dequeue \/ Unlock
        \/ Finish \/ Unregister \/ \E a \in responses : Take(a)
Receiver(r) == (r = "current" /\ Receive) \/ Look(r) \/ Enqueue(r) \/ Handle(r)

Next == \/ Beat \/ Fail \/ Stop \/ Break \/ Serve
        \/ \E r \in Threads : Receiver(r)
        \/ \E n \in Cache : Publish(n)

Spec == Init /\ [][Next]_vars
FairSpec == /\ Spec /\ WF_vars(Beat) /\ WF_vars(Serve)
            /\ WF_vars(Fail /\ connection = "broken")
            /\ \A r \in Threads : WF_vars(Receiver(r))

-----------------------------------------------------------------------------
(* Properties *)

Index == 0..Caches
Version == 0..MaxUpdates
AnyMessage == [kind : {"none", "registration", "heartbeat", "get", "event"},
               cache : Index, id : Nat, version : Version]
Place == [at : {"loop", "wait", "next", "fetch", "enable", "drain", "finish", "unregister", "end"},
          cache : Index, id : Nat, failed : BOOLEAN]
Answer == [kind : {"registration", "heartbeat", "get"}, cache : Index, id : Nat,
           version : Version, own : BOOLEAN]
Query == [kind : {"registration", "heartbeat", "get", "subscribe"}, cache : Index, id : Nat]
Thread == [at : {"idle", "look", "queue", "handle"}, message : AnyMessage]

TypeOK ==
  /\ stop_event \in BOOLEAN /\ is_registered \in BOOLEAN
  /\ connection \in {"none", "open", "broken"} /\ counter \in Nat /\ beat \in Place
  /\ enabled \in [Cache -> BOOLEAN] /\ cache \in [Cache -> Version]
  /\ unprocessed_messages_queue \in Seq(AnyMessage)
  /\ Len(unprocessed_messages_queue) <= QueueSize
  /\ responses \subseteq Answer /\ receiver \in [Threads -> Thread]
  /\ requests \in Seq(Query) /\ subscribed \subseteq Cache
  /\ channel \in Seq(AnyMessage) /\ version \in [Cache -> Version]
  /\ faults \in 0..MaxFaults /\ spoiled \subseteq Cache

\* An event waits in the queue all listeners share only while the cache it is about
\* is fetched, or its events are handled: dequeue_unprocessed_events gives no listener
\* the event of another, and no event stays behind for the next one.
QueueOwned == \A i \in DOMAIN unprocessed_messages_queue :
  /\ beat.at \in {"fetch", "wait", "enable", "drain"}
  /\ beat.cache = unprocessed_messages_queue[i].cache

\* When the agent is registered and nothing is on its way, a cache is that of the
\* server.  Three things of the code spoil a cache until it is fetched again, and
\* that cache only: an event for which the queue had no room, one that the receiving
\* thread handled before those that still waited, a message of an earlier connection.
CachesCurrent ==
  /\ is_registered /\ connection = "open"
  /\ channel = <<>> /\ receiver["current"] = Resting
  => \A n \in Cache \ spoiled : cache[n] = version[n]

\* The agent registers, again and again, until it is stopped.
Registers == []<>(stop_event \/ (is_registered /\ connection = "open"))

=============================================================================
