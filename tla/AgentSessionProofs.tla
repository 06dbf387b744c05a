------------------------ MODULE AgentSessionProofs ------------------------
(***************************************************************************)
(* Proofs about AgentSession, for any number of caches and any size of the *)
(* queue: the events the listeners' common queue holds are those of the    *)
(* one cache that is being fetched, and a cache of an agent to which       *)
(* nothing more is on its way is that of the server unless it was spoiled. *)
(***************************************************************************)
EXTENDS AgentSession, SequenceTheorems, TLAPS

\* What the server sends: an event is about a cache.
Sent == {m \in AnyMessage : m.kind # "none" /\ (m.kind = "event" => m.cache \in Cache)}
\* What the agent sends: so are a subscription and a request for a cache.
Asked == {q \in Query : q.kind \in {"get", "subscribe"} => q.cache \in Cache}

SentInv ==
  /\ channel \in Seq(Sent) /\ requests \in Seq(Asked)
  /\ beat.at \in {"next", "fetch", "enable", "drain"} => beat.cache \in Cache
  /\ \A r \in Threads : receiver[r].at # "idle" => receiver[r].message \in Sent
  /\ \A r \in Threads : receiver[r].at \in {"queue", "handle"} => receiver[r].message.kind = "event"

TypeInv == TypeOK /\ SentInv

\* At most one listener is disabled, the one of the cache that is being fetched, and
\* the events that wait are for it, until they are handled.
FetchInv ==
  /\ \A n \in Cache : ~enabled[n] => beat.at \in {"fetch", "wait", "enable"} /\ beat.cache = n
  /\ \A i \in DOMAIN unprocessed_messages_queue :
        /\ unprocessed_messages_queue[i].cache \in Cache
        /\ beat.cache = unprocessed_messages_queue[i].cache
        /\ beat.at \in {"fetch", "wait", "enable", "drain"}

LEMMA Numbers ==
  /\ 0 \in Index /\ 1 \in Cache /\ 0 \in Version /\ 0 \notin Cache
  /\ \A n \in Cache : n \in Index
  /\ \A n \in Index : n # 0 => n \in Cache
  /\ \A n \in Cache : n < Caches => n + 1 \in Cache
  BY SessionAssumption DEF Index, Cache, Version

LEMMA InitTyped == Init => TypeInv
<1> SUFFICES ASSUME Init PROVE TypeInv
  OBVIOUS
<1>1. Resting \in Thread
  BY Numbers DEF Resting, Message, Thread, AnyMessage
<1>2. beat \in Place
  BY Numbers DEF Init, At, Place
<1>3. /\ receiver \in [Threads -> Thread] /\ cache \in [Cache -> Version]
      /\ version \in [Cache -> Version] /\ enabled \in [Cache -> BOOLEAN]
  BY <1>1, Numbers DEF Init
<1>4. /\ Len(unprocessed_messages_queue) <= QueueSize
      /\ unprocessed_messages_queue \in Seq(AnyMessage)
      /\ requests \in Seq(Query) /\ channel \in Seq(AnyMessage)
  BY SessionAssumption DEF Init
<1>5. faults \in 0..MaxFaults
  BY SessionAssumption DEF Init
<1>6. TypeOK
  BY <1>2, <1>3, <1>4, <1>5 DEF Init, TypeOK
<1>7. SentInv
  BY DEF Init, SentInv, At, Resting
<1> QED
  BY <1>6, <1>7 DEF TypeInv

\* What one call of blocking_request sends.
LEMMA SendTyped ==
  ASSUME TypeInv, NEW n \in Index, NEW otherwise \in Place,
         NEW kinds, kinds = <<"heartbeat">> \/ kinds = <<"subscribe", "get">> \/ kinds = <<"get", "subscribe">>,
         n \in Cache \/ kinds = <<"heartbeat">>,
         Send(kinds, n, otherwise)
  PROVE  /\ requests' \in Seq(Asked) /\ requests' \in Seq(Query)
         /\ beat' \in Place /\ counter' \in Nat
<1> DEFINE id == counter + 1
           new == [i \in DOMAIN kinds |-> Request(kinds[i], n, id)]
<1>1. id \in Nat
  BY DEF TypeInv, TypeOK
<1> HIDE DEF id
<1>2. Waiting(n, id) \in Place
  BY <1>1 DEF Waiting, At, Place
<1>3. new \in Seq(Asked)
  <2>1. \A k \in {"heartbeat", "subscribe", "get"} :
          n \in Cache \/ k = "heartbeat" => Request(k, n, id) \in Asked
    BY <1>1 DEF Request, Asked, Query
  <2>2. DOMAIN kinds = 1..1 \/ DOMAIN kinds = 1..2
    OBVIOUS
  <2>3. \A i \in DOMAIN kinds : /\ kinds[i] \in {"heartbeat", "subscribe", "get"}
                                /\ n \in Cache \/ kinds[i] = "heartbeat"
    OBVIOUS
  <2>4. PICK m \in Nat : DOMAIN kinds = 1..m
    BY <2>2
  <2>5. \A i \in 1..m : Request(kinds[i], n, id) \in Asked
    BY <2>1, <2>3, <2>4
  <2> QED
    BY <2>4, <2>5
<1>4. Asked \subseteq Query
  BY DEF Asked
<1>5. requests \in Seq(Asked) /\ requests \in Seq(Query)
  BY DEF TypeInv, TypeOK, SentInv
<1>6. requests' \in Seq(Asked)
  <2>1. requests \o new \in Seq(Asked)
    BY <1>3, <1>5, ConcatProperties
  <2>2. requests' = requests \o new \/ requests' = requests
    BY DEF Send, id
  <2> QED
    BY <1>5, <2>1, <2>2
<1>7. requests' \in Seq(Query)
  BY <1>4, <1>6, SeqMonotonic
<1>8. beat' \in Place /\ counter' \in Nat
  BY <1>1, <1>2 DEF Send, id, TypeInv, TypeOK
<1> QED
  BY <1>6, <1>7, <1>8

LEMMA Positions ==
  /\ \A p \in {"loop", "wait", "next", "fetch", "enable", "drain", "finish", "unregister", "end"},
        n \in Index : At(p, n) \in Place /\ Failing(p, n) \in Place
  /\ \A id \in Nat : Waiting(0, id) \in Place
  BY Numbers DEF At, Failing, Waiting, Place

LEMMA ConfirmTyped ==
  ASSUME counter \in Nat, NEW n \in Nat, Confirm(n)
  PROVE  counter' \in Nat
  BY DEF Confirm

LEMMA RestingTyped == Resting \in Thread
  BY Numbers DEF Resting, Message, Thread, AnyMessage

\* The steps of the heartbeat thread that send a request or change its place.
LEMMA BeatTyped ==
  ASSUME TypeInv, Connect \/ Heartbeat \/ Leave \/ Disable \/ Fetch \/ Finish \/ Unregister
  PROVE  TypeInv'
<1> USE DEF TypeInv
<1>1. ASSUME Connect PROVE TypeInv'
  <2>1. Request("registration", 0, 1) \in Asked /\ Asked \subseteq Query
    BY Numbers DEF Request, Asked, Query
  <2>2. requests' \in Seq(Asked) /\ requests' \in Seq(Query)
    BY <1>1, <2>1 DEF Connect
  <2>3. beat' \in Place /\ beat'.at = "wait"
    BY <1>1, Positions DEF Connect, Waiting, At
  <2>4. TypeOK'
    BY <1>1, <2>2, <2>3 DEF Connect, TypeOK, local, history
  <2>5. SentInv'
    BY <1>1, <2>2, <2>3 DEF Connect, SentInv
  <2> QED
    BY <2>4, <2>5
<1>2. ASSUME Heartbeat PROVE TypeInv'
  <2>1. At("unregister", 0) \in Place /\ 0 \in Index
    BY Positions, Numbers
  <2>2. /\ requests' \in Seq(Asked) /\ requests' \in Seq(Query)
        /\ beat' \in Place /\ counter' \in Nat
    BY <1>2, <2>1, SendTyped DEF Heartbeat
  <2>3. beat'.at \in {"wait", "unregister"}
    BY <1>2 DEF Heartbeat, Send, Waiting, At
  <2>4. TypeOK'
    BY <1>2, <2>2 DEF Heartbeat, TypeOK, agent, local, history
  <2>5. SentInv'
    BY <1>2, <2>2, <2>3 DEF Heartbeat, SentInv
  <2> QED
    BY <2>4, <2>5
<1>3. ASSUME Leave PROVE TypeInv'
  <2>1. beat' \in Place /\ beat'.at = "unregister"
    BY <1>3, Positions, Numbers DEF Leave, At
  <2>2. TypeOK'
    BY <1>3, <2>1 DEF Leave, TypeOK, agent, local, server, history
  <2>3. SentInv'
    BY <1>3, <2>1 DEF Leave, SentInv, server
  <2> QED
    BY <2>2, <2>3
<1>4. ASSUME Disable PROVE TypeInv'
  <2>1. beat' \in Place /\ beat'.cache = beat.cache
    BY <1>4 DEF Disable, TypeOK, Place
  <2>2. enabled' \in [Cache -> BOOLEAN]
    BY <1>4 DEF Disable, TypeOK
  <2>3. TypeOK'
    BY <1>4, <2>1, <2>2 DEF Disable, TypeOK, agent, server
  <2>4. SentInv'
    BY <1>4, <2>1 DEF Disable, SentInv, server
  <2> QED
    BY <2>3, <2>4
<1>5. ASSUME Fetch PROVE TypeInv'
  <2>1. beat.cache \in Cache /\ beat.cache \in Index
    BY <1>5, Numbers DEF Fetch, SentInv
  <2>2. Failing("enable", beat.cache) \in Place
    BY <2>1, Positions
  <2>3. /\ requests' \in Seq(Asked) /\ requests' \in Seq(Query)
        /\ beat' \in Place /\ counter' \in Nat
    BY <1>5, <2>1, <2>2, SendTyped DEF Fetch
  <2>4. beat'.at \in {"wait", "enable"} /\ beat'.cache = beat.cache
    BY <1>5 DEF Fetch, Send, Waiting, Failing, At
  <2>5. TypeOK'
    BY <1>5, <2>3 DEF Fetch, TypeOK, agent, local, history
  <2>6. SentInv'
    BY <1>5, <2>1, <2>3, <2>4 DEF Fetch, SentInv
  <2> QED
    BY <2>5, <2>6
<1>6. ASSUME Finish PROVE TypeInv'
  <2>1. beat' \in Place /\ beat'.at \in {"loop", "unregister"}
    BY <1>6, Positions, Numbers DEF Finish, At
  <2>2. TypeOK'
    BY <1>6, <2>1 DEF Finish, TypeOK, local, server, history
  <2>3. SentInv'
    BY <1>6, <2>1 DEF Finish, SentInv, server
  <2> QED
    BY <2>2, <2>3
<1>7. ASSUME Unregister PROVE TypeInv'
  <2>1. beat' \in Place /\ beat'.at \in {"loop", "end"}
    BY <1>7, Positions, Numbers DEF Unregister, At
  <2>2. receiver' \in [Threads -> Thread]
    BY <1>7, RestingTyped DEF Unregister, TypeOK, Threads
  <2>7. /\ requests' \in Seq(Query) /\ channel' \in Seq(AnyMessage)
        /\ responses' \subseteq Answer /\ subscribed' \subseteq Cache
        /\ is_registered' \in BOOLEAN /\ connection' \in {"none", "open", "broken"}
    <3>1. /\ requests' = <<>> /\ channel' = <<>> /\ responses' = {} /\ subscribed' = {}
          /\ is_registered' = FALSE /\ connection' = "none"
      BY <1>7 DEF Unregister
    <3>2. requests' \in Seq(Query) /\ channel' \in Seq(AnyMessage)
      BY <3>1, EmptySeq
    <3>3. responses' \subseteq Answer /\ subscribed' \subseteq Cache
      BY <3>1, Zenon
    <3> QED
      BY <3>1, <3>2, <3>3
  <2>8. UNCHANGED <<counter, stop_event, local, version, history>>
    BY <1>7 DEF Unregister
  <2>3. TypeOK'
    BY <2>1, <2>2, <2>7, <2>8 DEF TypeOK, local, history
  <2>4. \A r \in Threads : receiver'[r] = Resting \/ receiver'[r] = receiver["current"]
    <3>1. receiver' = [r \in Threads |-> IF r = "old" THEN receiver["current"] ELSE Resting]
      BY <1>7 DEF Unregister
    <3> QED
      BY <3>1
  <2>5. Resting.at = "idle" /\ "current" \in Threads
    BY DEF Resting, Threads
  <2>6. SentInv'
    BY <1>7, <2>1, <2>4, <2>5 DEF Unregister, SentInv
  <2> QED
    BY <2>3, <2>6
<1> QED
  BY <1>1, <1>2, <1>3, <1>4, <1>5, <1>6, <1>7

\* Where an exception takes the thread.
LEMMA AfterFailureTyped ==
  ASSUME beat \in Place
  PROVE  /\ AfterFailure \in Place /\ AfterFailure.at \in {"unregister", "enable"}
         /\ AfterFailure.at = "enable" => beat.cache \in Cache /\ AfterFailure.cache = beat.cache
         /\ AfterFailure.at = "unregister" => beat.cache = 0
<1>1. beat.cache \in Index
  BY DEF Place
<1>2. CASE beat.cache = 0
  <2>1. AfterFailure = At("unregister", 0)
    BY <1>2 DEF AfterFailure
  <2>2. At("unregister", 0) \in Place /\ At("unregister", 0).at = "unregister"
    BY Positions, Numbers DEF At
  <2> QED
    BY <1>2, <2>1, <2>2
<1>3. CASE beat.cache # 0
  <2>1. AfterFailure = Failing("enable", beat.cache)
    BY <1>3 DEF AfterFailure
  <2>2. /\ Failing("enable", beat.cache) \in Place
        /\ Failing("enable", beat.cache).at = "enable"
        /\ Failing("enable", beat.cache).cache = beat.cache
    BY <1>1, Positions DEF Failing, At
  <2> QED
    BY <1>1, <1>3, <2>1, <2>2, Numbers
<1> QED
  BY <1>2, <1>3

LEMMA TakeTyped ==
  ASSUME TypeInv, NEW a \in responses, Take(a)
  PROVE  TypeInv'
<1> USE DEF TypeInv
<1>1. a \in Answer /\ a.version \in Version /\ beat \in Place /\ beat.cache \in Index
  BY DEF TypeOK, Answer, Place
<1>2. /\ beat' \in Place /\ stop_event' \in BOOLEAN
      /\ beat'.at \in {"next", "fetch", "enable", "drain"} => beat'.cache \in Cache
  <2>1. /\ At("next", 1) \in Place /\ At("next", 1).cache = 1
        /\ At("loop", 0) \in Place /\ At("loop", 0).at = "loop"
        /\ At("enable", beat.cache) \in Place /\ At("enable", beat.cache).cache = beat.cache
    BY <1>1, Positions, Numbers DEF At
  <2>2. \/ beat' = At("next", 1) \/ beat' = At("loop", 0)
        \/ beat' = At("enable", beat.cache) /\ beat.cache # 0
        \/ beat' = AfterFailure
    BY DEF Take, Wanted
  <2>3. stop_event' \in BOOLEAN
    BY DEF Take, TypeOK
  <2> QED
    BY <1>1, <2>1, <2>2, <2>3, Numbers, AfterFailureTyped
<1>3. cache' \in [Cache -> Version]
  <2>1. cache \in [Cache -> Version]
    BY DEF TypeOK
  <2>2. cache' = cache \/ cache' = [cache EXCEPT ![a.cache] = a.version]
    BY DEF Take
  <2> QED
    BY <1>1, <2>1, <2>2
<1>4. responses' \subseteq Answer
  BY DEF Take, TypeOK
<1>5. /\ UNCHANGED <<is_registered, connection, counter, enabled, unprocessed_messages_queue,
                     receiver, server, faults>>
      /\ spoiled' \subseteq Cache
  BY DEF Take, TypeOK
<1>6. TypeOK'
  BY <1>2, <1>3, <1>4, <1>5 DEF TypeOK, server
<1>7. SentInv'
  BY <1>2, <1>5 DEF SentInv, server
<1> QED
  BY <1>6, <1>7

LEMMA FailTyped ==
  ASSUME TypeInv, Fail
  PROVE  TypeInv'
<1> USE DEF TypeInv
<1>1. faults' \in 0..MaxFaults
  BY SessionAssumption DEF Fail, TypeOK
<1>2. beat \in Place /\ beat' = AfterFailure
  BY DEF Fail, TypeOK
<1>3. /\ beat' \in Place
      /\ beat'.at \in {"next", "fetch", "enable", "drain"} => beat'.cache \in Cache
  BY <1>2, AfterFailureTyped
<1>4. UNCHANGED <<counter, agent, local, responses, receiver, server, spoiled>>
  BY DEF Fail
<1>5. TypeOK'
  BY <1>1, <1>3, <1>4 DEF TypeOK, agent, local, server
<1>6. SentInv'
  BY <1>3, <1>4 DEF SentInv, server
<1> QED
  BY <1>5, <1>6

LEMMA AfterEnableTyped ==
  ASSUME TypeInv, beat.at = "drain"
  PROVE  /\ AfterEnable \in Place
         /\ AfterEnable.at \in {"next", "fetch", "enable", "drain"} => AfterEnable.cache \in Cache
<1>1. beat.cache \in Cache
  BY DEF TypeInv, SentInv
<1>2. /\ At("unregister", 0) \in Place /\ At("unregister", 0).at = "unregister"
      /\ At("finish", 0) \in Place /\ At("finish", 0).at = "finish"
  BY Positions, Numbers DEF At
<1>3. ASSUME beat.cache < Caches
      PROVE  /\ beat.cache + 1 \in Cache /\ At("next", beat.cache + 1) \in Place
             /\ At("next", beat.cache + 1).cache = beat.cache + 1
  <2>1. beat.cache + 1 \in Cache /\ beat.cache + 1 \in Index
    BY <1>1, <1>3, Numbers
  <2> QED
    BY <2>1, Positions DEF At
<1> QED
  BY <1>2, <1>3 DEF AfterEnable

LEMMA EnableTyped ==
  ASSUME TypeInv, Enable \/ Dequeue \/ Unlock
  PROVE  TypeInv'
<1> USE DEF TypeInv
<1>1. CASE Enable
  <2>1. /\ beat' \in Place /\ beat'.cache = beat.cache /\ beat.cache \in Cache
        /\ enabled' \in [Cache -> BOOLEAN]
    BY <1>1 DEF Enable, TypeOK, SentInv, Place
  <2>2. TypeOK'
    BY <1>1, <2>1 DEF Enable, TypeOK, agent, server, history
  <2>3. SentInv'
    BY <1>1, <2>1 DEF Enable, SentInv, server
  <2> QED
    BY <2>2, <2>3
<1>2. CASE Dequeue
  <2> DEFINE queue == unprocessed_messages_queue
  <2>1. /\ queue \in Seq(AnyMessage) /\ queue # <<>> /\ cache \in [Cache -> Version]
        /\ Len(queue) <= QueueSize /\ beat.cache \in Cache
    BY <1>2 DEF Dequeue, TypeOK, SentInv
  <2>2. /\ Head(queue) \in AnyMessage /\ Tail(queue) \in Seq(AnyMessage)
        /\ Len(Tail(queue)) <= QueueSize
    BY <2>1, SessionAssumption
  <2>3. Head(queue).version \in Version
    BY <2>2 DEF AnyMessage
  <2>4. /\ cache' = [cache EXCEPT ![beat.cache] = Head(queue).version]
        /\ queue' = Tail(queue)
        /\ UNCHANGED <<agent, beat, enabled, responses, receiver, server, history>>
    BY <1>2 DEF Dequeue
  <2>5. cache' \in [Cache -> Version]
    BY <2>1, <2>3, <2>4
  <2>6. counter' \in Nat
    BY <1>2, ConfirmTyped DEF Dequeue, TypeOK
  <2>7. TypeOK'
    BY <2>2, <2>4, <2>5, <2>6 DEF TypeOK, agent, server, history
  <2>8. SentInv'
    BY <2>4 DEF SentInv, server
  <2> QED
    BY <2>7, <2>8
<1>3. CASE Unlock
  <2>1. /\ beat' \in Place
        /\ beat'.at \in {"next", "fetch", "enable", "drain"} => beat'.cache \in Cache
    BY <1>3, AfterEnableTyped DEF Unlock
  <2>2. TypeOK'
    BY <1>3, <2>1 DEF Unlock, TypeOK, agent, local, server, history
  <2>3. SentInv'
    BY <1>3, <2>1 DEF Unlock, SentInv, server
  <2> QED
    BY <2>2, <2>3
<1> QED
  BY <1>1, <1>2, <1>3

\* What one of the threads that receive becomes.
LEMMA GoesTyped ==
  ASSUME receiver \in [Threads -> Thread], NEW r \in Threads,
         NEW p \in {"idle", "look", "queue", "handle"}, Goes(r, p)
  PROVE  /\ receiver' \in [Threads -> Thread]
         /\ \A s \in Threads : s # r => receiver'[s] = receiver[s]
         /\ receiver'[r].at = p /\ receiver'[r].message = receiver[r].message
<1> DEFINE new == [receiver[r] EXCEPT !.at = p]
<1>1. new \in Thread /\ new.at = p /\ new.message = receiver[r].message
  BY DEF Thread
<1>2. receiver' = [receiver EXCEPT ![r] = new]
  BY DEF Goes
<1> HIDE DEF new
<1> QED
  BY <1>1, <1>2

LEMMA RestsTyped ==
  ASSUME receiver \in [Threads -> Thread], NEW r \in Threads, Rests(r)
  PROVE  /\ receiver' \in [Threads -> Thread]
         /\ \A s \in Threads : s # r => receiver'[s] = receiver[s]
         /\ receiver'[r].at = "idle"
<1>1. Resting.at = "idle"
  BY DEF Resting
<1> QED
  BY <1>1, RestingTyped DEF Rests

\* The threads that receive.
LEMMA ReceiverTyped ==
  ASSUME TypeInv, NEW r \in Threads, Receiver(r)
  PROVE  TypeInv'
<1> USE DEF TypeInv
<1>1. ASSUME Receive PROVE TypeInv'
  <2> DEFINE new == [at |-> "look", message |-> Head(channel)]
  <2>1. channel \in Seq(Sent) /\ channel # <<>> /\ channel \in Seq(AnyMessage)
    BY <1>1 DEF Receive, SentInv, TypeOK
  <2>2. /\ Head(channel) \in Sent /\ Tail(channel) \in Seq(Sent)
        /\ Head(channel) \in AnyMessage /\ Tail(channel) \in Seq(AnyMessage)
    BY <2>1
  <2>3. new \in Thread /\ new.at = "look" /\ new.message \in Sent
    BY <2>2 DEF Thread
  <2>4. receiver' = [receiver EXCEPT !["current"] = new] /\ channel' = Tail(channel)
    BY <1>1 DEF Receive
  <2> HIDE DEF new
  <2>5. receiver' \in [Threads -> Thread]
    BY <2>3, <2>4 DEF TypeOK
  <2>6. \A s \in Threads : receiver'[s] = new \/ receiver'[s] = receiver[s]
    BY <2>4 DEF TypeOK
  <2>7. UNCHANGED <<counter, agent, beat, local, responses, requests, subscribed, version,
                    history>>
    BY <1>1 DEF Receive
  <2>8. TypeOK'
    BY <2>2, <2>4, <2>5, <2>7 DEF TypeOK, agent, local, history
  <2>9. SentInv'
    BY <2>2, <2>3, <2>4, <2>6, <2>7 DEF SentInv
  <2> QED
    BY <2>8, <2>9
<1>2. ASSUME Look(r) PROVE TypeInv'
  <2> DEFINE m == receiver[r].message
  <2>1. receiver[r].at = "look" /\ receiver[r] \in Thread /\ m \in Sent /\ m \in AnyMessage
    BY <1>2 DEF Look, SentInv, TypeOK, Thread
  <2>2. responses' \subseteq Answer
    <3>1. ASSUME m.kind # "event"
          PROVE  [kind |-> m.kind, cache |-> m.cache, id |-> m.id, version |-> m.version,
                  own |-> r = "current"] \in Answer
      BY <2>1, <3>1 DEF Sent, AnyMessage, Answer
    <3>2. responses' \subseteq responses \cup
            {[kind |-> m.kind, cache |-> m.cache, id |-> m.id, version |-> m.version,
              own |-> r = "current"]}
      BY <1>2 DEF Look
    <3>3. m.kind = "event" => responses' = responses
      BY <1>2 DEF Look
    <3> QED
      BY <3>1, <3>2, <3>3 DEF TypeOK
  <2>3. receiver \in [Threads -> Thread]
    BY DEF TypeOK
  <2>4. \/ Rests(r)
        \/ m.kind = "event" /\ (Goes(r, "handle") \/ Goes(r, "queue"))
    BY <1>2 DEF Look, Goes, Rests
  <2>5. UNCHANGED <<counter, agent, beat, local, server, history>>
    BY <1>2 DEF Look
  <2>6. /\ receiver' \in [Threads -> Thread]
        /\ \A s \in Threads : s # r => receiver'[s] = receiver[s]
        /\ \/ receiver'[r].at = "idle"
           \/ receiver'[r].message = m /\ m.kind = "event"
    BY <2>3, <2>4, <2>5, GoesTyped, RestsTyped
  <2>7. TypeOK'
    BY <2>2, <2>5, <2>6 DEF TypeOK, agent, local, server, history
  <2> HIDE DEF m
  <2>8. SentInv'
    BY <2>1, <2>5, <2>6 DEF SentInv, server
  <2> QED
    BY <2>7, <2>8
<1>3. ASSUME Enqueue(r) PROVE TypeInv'
  <2> DEFINE m == receiver[r].message
             room == Len(unprocessed_messages_queue) < QueueSize
  <2>1. receiver[r] \in Thread /\ m \in AnyMessage /\ receiver[r].at = "queue"
    BY <1>3 DEF Enqueue, TypeOK, Thread
  <2>2. /\ receiver' \in [Threads -> Thread] /\ spoiled' \subseteq Cache
        /\ \A s \in Threads : s # r => receiver'[s] = receiver[s]
        /\ receiver'[r].at = "idle" \/ receiver'[r].message = m
    <3>1. Rests(r) \/ Goes(r, "handle")
      BY <1>3 DEF Enqueue
    <3>2. spoiled' \subseteq Cache
      <4>1. m.cache \in Cache
        BY <2>1 DEF SentInv, Sent
      <4> QED
        BY <1>3, <4>1 DEF Enqueue, TypeOK, Spoils
    <3>3. receiver \in [Threads -> Thread]
      BY DEF TypeOK
    <3> QED
      BY <3>1, <3>2, <3>3, GoesTyped, RestsTyped
  <2>3. /\ unprocessed_messages_queue' \in Seq(AnyMessage)
        /\ Len(unprocessed_messages_queue') <= QueueSize
    <3>1. \/ room /\ unprocessed_messages_queue' = Append(unprocessed_messages_queue, m)
          \/ unprocessed_messages_queue' = unprocessed_messages_queue
      BY <1>3 DEF Enqueue
    <3>2. unprocessed_messages_queue \in Seq(AnyMessage)
      BY DEF TypeOK
    <3>3. Len(unprocessed_messages_queue) <= QueueSize
      BY DEF TypeOK
    <3> QED
      BY <2>1, <3>1, <3>2, <3>3, SessionAssumption
  <2>4. UNCHANGED <<counter, agent, beat, enabled, cache, responses, server, faults>>
    BY <1>3 DEF Enqueue
  <2>5. TypeOK'
    BY <2>2, <2>3, <2>4 DEF TypeOK, agent, server
  <2>6. m \in Sent /\ m.kind = "event"
    BY <2>1 DEF SentInv
  <2> HIDE DEF m
  <2>7. SentInv'
    BY <2>2, <2>4, <2>6 DEF SentInv, server
  <2> QED
    BY <2>5, <2>7
<1>4. ASSUME Handle(r) PROVE TypeInv'
  <2> DEFINE m == receiver[r].message
  <2>1. m \in AnyMessage /\ m.version \in Version
    BY DEF TypeOK, Thread, AnyMessage
  <2>2. cache' \in [Cache -> Version]
    <3>1. cache' = [cache EXCEPT ![m.cache] = m.version] /\ cache \in [Cache -> Version]
      BY <1>4 DEF Handle, TypeOK
    <3> QED
      BY <2>1, <3>1
  <2>3. receiver' = [receiver EXCEPT ![r] = Resting] /\ spoiled' \subseteq Cache
    <3>1. m.cache \in Cache
      BY <1>4 DEF Handle, SentInv, Sent
    <3>2. receiver' = [receiver EXCEPT ![r] = Resting]
      BY <1>4 DEF Handle, Rests
    <3>3. spoiled' \subseteq Cache
      BY <1>4, <3>1 DEF Handle, Spoils, TypeOK
    <3> QED
      BY <3>2, <3>3
  <2>4. receiver' \in [Threads -> Thread]
    BY <2>3, RestingTyped DEF TypeOK
  <2>5. counter' \in Nat
    BY <1>4, ConfirmTyped DEF Handle, TypeOK
  <2>6. UNCHANGED <<agent, beat, enabled, unprocessed_messages_queue, responses, server,
                    faults>>
    BY <1>4 DEF Handle
  <2>7. TypeOK'
    BY <2>2, <2>3, <2>4, <2>5, <2>6 DEF TypeOK, agent, server
  <2>8. SentInv'
    BY <2>3, <2>6 DEF SentInv, TypeOK, Resting, server
  <2> QED
    BY <2>7, <2>8
<1> QED
  BY <1>1, <1>2, <1>3, <1>4 DEF Receiver

\* The server, the connection, and whoever stops the agent.
LEMMA ServerTyped ==
  ASSUME TypeInv, Serve \/ Break \/ Stop \/ (\E n \in Cache : Publish(n))
  PROVE  TypeInv'
<1> USE DEF TypeInv
<1>1. ASSUME NEW n \in Cache, Publish(n) PROVE TypeInv'
  <2>1. version[n] + 1 \in Version
    BY <1>1, SessionAssumption DEF Publish, TypeOK, Version
  <2> DEFINE m == Message("event", n, 0, version[n] + 1)
  <2>2. m \in Sent /\ m \in AnyMessage
    BY <2>1, Numbers DEF Message, Sent, AnyMessage
  <2>3. channel' = Append(channel, m) \/ channel' = channel
    BY <1>1 DEF Publish
  <2> HIDE DEF m
  <2>4. channel' \in Seq(Sent) /\ channel' \in Seq(AnyMessage)
    <3>1. channel \in Seq(Sent) /\ channel \in Seq(AnyMessage)
      BY DEF TypeOK, SentInv
    <3>2. Append(channel, m) \in Seq(Sent) /\ Append(channel, m) \in Seq(AnyMessage)
      BY <2>2, <3>1, AppendProperties
    <3> QED
      BY <2>3, <3>1, <3>2
  <2>5. version' \in [Cache -> Version]
    BY <1>1, <2>1 DEF Publish, TypeOK
  <2>6. UNCHANGED <<counter, agent, beat, local, responses, receiver, requests, subscribed,
                    history>>
    BY <1>1 DEF Publish
  <2>7. TypeOK'
    BY <2>4, <2>5, <2>6 DEF TypeOK, agent, local, history
  <2>8. SentInv'
    BY <2>4, <2>6 DEF SentInv
  <2> QED
    BY <2>7, <2>8
<1>2. ASSUME Serve PROVE TypeInv'
  <2> DEFINE q == Head(requests)
             v == IF q.kind = "get" THEN version[q.cache] ELSE 0
             m == Message(q.kind, q.cache, q.id, v)
  <2>1. requests \in Seq(Asked) /\ requests \in Seq(Query) /\ requests # <<>>
    BY <1>2 DEF Serve, TypeOK, SentInv
  <2>2. q \in Asked /\ Tail(requests) \in Seq(Asked) /\ Tail(requests) \in Seq(Query)
    BY <2>1
  <2>3. /\ q.kind \in {"registration", "heartbeat", "get", "subscribe"}
        /\ q.cache \in Index /\ q.id \in Nat
        /\ q.kind \in {"get", "subscribe"} => q.cache \in Cache
    BY <2>2 DEF Asked, Query
  <2>4. v \in Version
    BY <2>3, Numbers DEF TypeOK
  <2>5. \/ q.kind = "subscribe" /\ subscribed' = subscribed \cup {q.cache} /\ channel' = channel
        \/ q.kind # "subscribe" /\ subscribed' = subscribed /\ channel' = Append(channel, m)
    BY <1>2 DEF Serve
  <2>6. q.kind # "subscribe" => m \in Sent /\ m \in AnyMessage
    BY <2>3, <2>4 DEF Message, Sent, AnyMessage
  <2>7. requests' = Tail(requests)
        /\ UNCHANGED <<counter, agent, beat, local, responses, receiver, version, history>>
    BY <1>2 DEF Serve
  <2> HIDE DEF q, v, m
  <2>8. channel' \in Seq(Sent) /\ channel' \in Seq(AnyMessage) /\ subscribed' \subseteq Cache
    <3>1. /\ channel \in Seq(Sent) /\ channel \in Seq(AnyMessage) /\ subscribed \subseteq Cache
      BY DEF TypeOK, SentInv
    <3>2. q.kind # "subscribe" =>
            Append(channel, m) \in Seq(Sent) /\ Append(channel, m) \in Seq(AnyMessage)
      BY <2>6, <3>1, AppendProperties
    <3> QED
      BY <2>3, <2>5, <3>1, <3>2
  <2>9. TypeOK'
    BY <2>2, <2>7, <2>8 DEF TypeOK, agent, local, history
  <2>10. SentInv'
    BY <2>2, <2>7, <2>8 DEF SentInv
  <2> QED
    BY <2>9, <2>10
<1>3. ASSUME Break PROVE TypeInv'
  <2>1. faults' \in 0..MaxFaults
    BY <1>3, SessionAssumption DEF Break, TypeOK
  <2>2. /\ connection' = "broken" /\ requests' = <<>> /\ subscribed' = {} /\ channel' = <<>>
        /\ UNCHANGED <<counter, stop_event, is_registered, beat, local, responses, receiver,
                       version, spoiled>>
    BY <1>3 DEF Break
  <2>3. /\ requests' \in Seq(Query) /\ channel' \in Seq(AnyMessage)
        /\ requests' \in Seq(Asked) /\ channel' \in Seq(Sent)
    BY <2>2, EmptySeq
  <2>4. TypeOK'
    BY <2>1, <2>2, <2>3 DEF TypeOK, local
  <2>5. SentInv'
    BY <2>2, <2>3 DEF SentInv
  <2> QED
    BY <2>4, <2>5
<1>4. ASSUME Stop PROVE TypeInv'
  <2>1. TypeOK'
    BY <1>4 DEF Stop, TypeOK, local, server, history
  <2>2. SentInv'
    BY <1>4 DEF Stop, SentInv, server
  <2> QED
    BY <2>1, <2>2
<1> QED
  BY <1>1, <1>2, <1>3, <1>4

LEMMA StutterTyped == TypeInv /\ UNCHANGED vars => TypeInv'
  BY DEF TypeInv, TypeOK, SentInv, vars, agent, local, server, history

LEMMA TypeInvIsInvariant == Spec => []TypeInv
<1>1. TypeInv /\ [Next]_vars => TypeInv'
  BY BeatTyped, TakeTyped, FailTyped, EnableTyped, ReceiverTyped, ServerTyped, StutterTyped
     DEF Next, Beat
<1> QED
  BY <1>1, InitTyped, PTL DEF Spec

\* Every variable of the session keeps its type, and the queue its limit.
THEOREM TypeCorrect == Spec => []TypeOK
<1>1. TypeInv => TypeOK
  BY DEF TypeInv
<1> QED
  BY <1>1, TypeInvIsInvariant, PTL

-----------------------------------------------------------------------------
(* The queue that all listeners share *)

LEMMA InitFetch == Init => FetchInv
  BY DEF Init, FetchInv

\* A step that neither changes the flags and the queue nor moves the thread away
\* from the fetching of a cache.
LEMMA FetchGoesOn ==
  ASSUME FetchInv, UNCHANGED <<enabled, unprocessed_messages_queue>>,
         beat.at = "drain" => UNCHANGED beat,
         beat.at \in {"fetch", "wait", "enable"} =>
           \/ beat'.at \in {"fetch", "wait", "enable"} /\ beat'.cache = beat.cache
           \/ beat.cache \notin Cache
  PROVE  FetchInv'
<1>1. ASSUME NEW n \in Cache, ~enabled'[n]
      PROVE  beat'.at \in {"fetch", "wait", "enable"} /\ beat'.cache = n
  BY <1>1 DEF FetchInv
<1>2. ASSUME NEW i \in DOMAIN unprocessed_messages_queue'
      PROVE  /\ unprocessed_messages_queue'[i].cache \in Cache
             /\ beat'.cache = unprocessed_messages_queue'[i].cache
             /\ beat'.at \in {"fetch", "wait", "enable", "drain"}
  BY <1>2 DEF FetchInv
<1> QED
  BY <1>1, <1>2 DEF FetchInv

LEMMA FetchInvIsKept ==
  ASSUME TypeInv, TypeInv', FetchInv, [Next]_vars
  PROVE  FetchInv'
<1> USE DEF TypeInv
<1>1. CASE \/ Leave \/ Stop \/ Break \/ Serve \/ (\E n \in Cache : Publish(n)) \/ UNCHANGED vars
  <2>1. UNCHANGED <<enabled, unprocessed_messages_queue>>
    BY <1>1 DEF Leave, Stop, Break, Serve, Publish, vars, local
  <2>2. UNCHANGED beat \/ beat.at = "loop"
    BY <1>1 DEF Leave, Stop, Break, Serve, Publish, vars, At
  <2> QED
    BY <2>1, <2>2, FetchGoesOn
<1>2. CASE Connect \/ Heartbeat \/ Finish \/ Unregister
  <2>1. UNCHANGED <<enabled, unprocessed_messages_queue>>
    BY <1>2 DEF Connect, Heartbeat, Finish, Unregister, local
  <2>2. beat.at \in {"loop", "finish", "unregister"}
    BY <1>2 DEF Connect, Heartbeat, Finish, Unregister, At
  <2> QED
    BY <2>1, <2>2, FetchGoesOn
<1>3. CASE Disable
  <2>1. /\ enabled' = [enabled EXCEPT ![beat.cache] = FALSE] /\ beat.at = "next"
        /\ beat' = [beat EXCEPT !.at = "fetch"] /\ UNCHANGED unprocessed_messages_queue
    BY <1>3 DEF Disable
  <2>2. beat'.at = "fetch" /\ beat'.cache = beat.cache /\ beat.cache \in Cache
    BY <2>1 DEF TypeOK, SentInv, Place
  <2>3. \A n \in Cache : enabled[n]
    BY <2>1 DEF FetchInv
  <2>4. \A n \in Cache : ~enabled'[n] => n = beat.cache
    BY <2>1, <2>3 DEF TypeOK
  <2>5. DOMAIN unprocessed_messages_queue = {}
    BY <2>1 DEF FetchInv
  <2> QED
    BY <2>1, <2>2, <2>4, <2>5 DEF FetchInv
<1>4. CASE Fetch
  <2>1. UNCHANGED <<enabled, unprocessed_messages_queue>> /\ beat.at = "fetch"
    BY <1>4 DEF Fetch, local
  <2>2. beat'.at \in {"wait", "enable"} /\ beat'.cache = beat.cache
    BY <1>4 DEF Fetch, Send, Waiting, Failing, At
  <2> QED
    BY <2>1, <2>2, FetchGoesOn
<1>5. CASE \E a \in responses : Take(a)
  <2>1. UNCHANGED <<enabled, unprocessed_messages_queue>> /\ beat.at = "wait"
    BY <1>5 DEF Take
  <2>2. CASE beat.cache \in Cache
    <3>1. beat.cache # 0 /\ beat \in Place
      BY <2>2, Numbers DEF TypeOK
    <3>2. beat' = At("enable", beat.cache) \/ beat' = AfterFailure
      BY <1>5, <3>1 DEF Take, Wanted
    <3>3. /\ At("enable", beat.cache).at = "enable"
          /\ At("enable", beat.cache).cache = beat.cache
      BY DEF At
    <3>4. beat'.at = "enable" /\ beat'.cache = beat.cache
      BY <3>1, <3>2, <3>3, AfterFailureTyped
    <3> QED
      BY <2>1, <3>4, FetchGoesOn
  <2>3. CASE beat.cache \notin Cache
    BY <2>1, <2>3, FetchGoesOn
  <2> QED
    BY <2>2, <2>3
<1>6. CASE Fail
  <2>1. /\ UNCHANGED <<enabled, unprocessed_messages_queue>> /\ beat' = AfterFailure
        /\ beat.at = "wait"
    BY <1>6 DEF Fail, local
  <2>2. \/ beat'.at = "enable" /\ beat'.cache = beat.cache
        \/ beat.cache \notin Cache
    BY <2>1, AfterFailureTyped, Numbers DEF TypeOK
  <2> QED
    BY <2>1, <2>2, FetchGoesOn
<1>7. CASE Enable \/ Dequeue \/ Unlock
  <2> DEFINE queue == unprocessed_messages_queue
  <2>1. CASE Enable
    <3>1. /\ enabled' = [enabled EXCEPT ![beat.cache] = TRUE] /\ beat.at = "enable"
          /\ beat' = [beat EXCEPT !.at = "drain"] /\ UNCHANGED queue
      BY <2>1 DEF Enable
    <3>2. /\ \A n \in Cache : enabled'[n]
          /\ beat'.at = "drain" /\ beat'.cache = beat.cache
      BY <3>1 DEF TypeOK, FetchInv, Place
    <3> QED
      BY <3>1, <3>2 DEF FetchInv
  <2>2. CASE Dequeue
    <3>1. /\ queue \in Seq(AnyMessage) /\ queue # <<>> /\ queue' = Tail(queue)
          /\ UNCHANGED <<beat, enabled>>
      BY <2>2 DEF Dequeue, TypeOK
    <3>2. \A i \in DOMAIN queue' : i + 1 \in DOMAIN queue /\ queue'[i] = queue[i + 1]
      BY <3>1
    <3> QED
      BY <3>1, <3>2 DEF FetchInv
  <2>3. CASE Unlock
    <3>1. /\ UNCHANGED enabled /\ queue' = <<>> /\ beat.at = "drain"
      BY <2>3 DEF Unlock, local
    <3>2. \A n \in Cache : enabled'[n]
      BY <3>1 DEF FetchInv
    <3> QED
      BY <3>1, <3>2 DEF FetchInv
  <2> QED
    BY <1>7, <2>1, <2>2, <2>3
<1>8. ASSUME NEW r \in Threads, Receiver(r) PROVE FetchInv'
  <2>1. CASE Receive \/ Look(r) \/ Handle(r)
    <3>1. UNCHANGED <<enabled, unprocessed_messages_queue, beat>>
      BY <2>1 DEF Receive, Look, Handle, local
    <3> QED
      BY <3>1, FetchGoesOn
  <2>2. CASE Enqueue(r)
    <3> DEFINE m == receiver[r].message
               queue == unprocessed_messages_queue
    <3>1. UNCHANGED <<beat, enabled>> /\ receiver[r].at = "queue"
      BY <2>2 DEF Enqueue
    <3>2. m.cache \in Cache
      BY <3>1 DEF SentInv, Sent
    <3>3. \/ UNCHANGED queue
          \/ queue' = Append(queue, m) /\ ~enabled[m.cache]
      BY <2>2 DEF Enqueue
    <3>4. CASE UNCHANGED queue
      BY <3>1, <3>4, FetchGoesOn
    <3>5. CASE queue' = Append(queue, m) /\ ~enabled[m.cache]
      <4>1. queue \in Seq(AnyMessage)
        BY DEF TypeOK
      <4> HIDE DEF m
      <4>2. \A i \in DOMAIN queue' : queue'[i] = m \/ (i \in DOMAIN queue /\ queue'[i] = queue[i])
        BY <3>5, <4>1
      <4> QED
        BY <3>1, <3>2, <3>5, <4>2 DEF FetchInv
    <3> QED
      BY <3>3, <3>4, <3>5
  <2> QED
    BY <1>8, <2>1, <2>2 DEF Receiver
<1> QED
  BY <1>1, <1>2, <1>3, <1>4, <1>5, <1>6, <1>7, <1>8 DEF Next, Beat

LEMMA FetchInvIsInvariant == Spec => []FetchInv
  BY InitFetch, FetchInvIsKept, TypeInvIsInvariant, PTL DEF Spec

\* The events that wait in the queue all listeners share are those of the cache whose
\* listener is disabled or empties it: dequeue_unprocessed_events gives no listener the
\* event of another, for any number of caches and any size of the queue.
THEOREM QueueIsOwned == Spec => []QueueOwned
<1>1. FetchInv => QueueOwned
  BY DEF FetchInv, QueueOwned
<1> QED
  BY <1>1, FetchInvIsInvariant, PTL

-----------------------------------------------------------------------------
(* The caches *)

Open == connection = "open"

Event(m, n) == m.kind = "event" /\ m.cache = n
About(m, n) == m.kind \in {"event", "get"} /\ m.cache = n
Hand == receiver["current"].message
Later(i, n) == \E j \in DOMAIN channel : i < j /\ Event(channel[j], n)
Quiet(n) == ~Later(0, n) /\ ~Event(Hand, n)

\* The caches the thread has yet to fetch on this connection, and those it has.
Before(n) ==
  \/ beat.at = "wait" /\ beat.cache = 0 /\ ~is_registered
  \/ beat.at \in {"next", "fetch"} /\ beat.cache <= n
  \/ beat.at \in {"wait", "enable", "drain"} /\ beat.cache \in Cache /\ beat.cache < n
Fetched(n) ==
  \/ is_registered \/ beat.at = "finish"
  \/ beat.at \in {"next", "fetch", "wait", "enable", "drain"} /\ n < beat.cache

\* A connection begins with nothing on its way, and a cache is fetched before the
\* agent is registered, with its listener disabled.
LinkInv ==
  /\ connection # "open" => channel = <<>> /\ requests = <<>> /\ subscribed = {}
  /\ connection = "none" =>
       receiver["current"] = Resting /\ \A a \in responses : ~a.own
  /\ beat.at = "loop" /\ ~is_registered => connection = "none"
  /\ is_registered =>
       beat.at \in {"loop", "unregister"} \/ (beat.at = "wait" /\ beat.cache = 0)
  /\ beat.at \in {"fetch", "wait", "enable"} /\ beat.cache \in Cache => ~enabled[beat.cache]

\* The agent asks for a cache after it has asked for its events.
AskedInv ==
  /\ \A i \in DOMAIN requests : requests[i].kind = "get" =>
       \/ requests[i].cache \in subscribed
       \/ \E j \in DOMAIN requests : /\ j < i /\ requests[j].kind = "subscribe"
                                     /\ requests[j].cache = requests[i].cache
  /\ \A n \in Cache : Before(n) =>
       /\ n \notin subscribed
       /\ \A i \in DOMAIN requests :
            requests[i].kind \in {"get", "subscribe"} => requests[i].cache # n

\* Of what the server sends about a cache, the last is how the cache is now.
ChannelInv ==
  /\ \A i \in DOMAIN channel, n \in Cache : About(channel[i], n) =>
       n \in subscribed /\ (Later(i, n) \/ channel[i].version = version[n])
  /\ \A n \in Cache : About(Hand, n) =>
       /\ n \in subscribed /\ (Later(0, n) \/ Hand.version = version[n])
       /\ Event(Hand, n) /\ receiver["current"].at = "handle" => enabled[n]

\* When nothing is on its way about a cache, the answer to its request, or the last
\* event in the queue, or the cache the agent holds, is up to date: unless it was
\* spoiled since its listener was disabled.
CacheInv ==
  /\ \A a \in responses, n \in Cache : a.own /\ a.kind = "get" /\ a.cache = n =>
       /\ n \in subscribed
       /\ /\ beat.at = "wait" /\ beat.cache = n /\ n \notin spoiled
          /\ unprocessed_messages_queue = <<>> /\ Quiet(n)
          => a.version = version[n]
  /\ unprocessed_messages_queue # <<>> /\ beat.cache \notin spoiled =>
       /\ beat.cache \in subscribed
       /\ Quiet(beat.cache) =>
            unprocessed_messages_queue[Len(unprocessed_messages_queue)].version
              = version[beat.cache]
  /\ \A n \in Cache \ spoiled : Fetched(n) =>
       n \in subscribed /\ (Quiet(n) => cache[n] = version[n])
  /\ beat.at \in {"enable", "drain"} /\ ~beat.failed /\ beat.cache \notin spoiled =>
       /\ beat.cache \in subscribed
       /\ unprocessed_messages_queue = <<>> /\ Quiet(beat.cache) =>
            cache[beat.cache] = version[beat.cache]

FreshInv == Open => AskedInv /\ ChannelInv /\ CacheInv

LEMMA QueueIsEmpty ==
  ASSUME TypeInv, FetchInv, beat.at \notin {"fetch", "wait", "enable", "drain"}
  PROVE  unprocessed_messages_queue = <<>>
<1> DEFINE queue == unprocessed_messages_queue
<1>1. queue \in Seq(AnyMessage) /\ DOMAIN queue = 1..Len(queue) /\ Len(queue) \in Nat
  BY LenProperties DEF TypeInv, TypeOK
<1>2. DOMAIN queue = {}
  BY DEF FetchInv
<1>3. Len(queue) = 0
  BY <1>1, <1>2
<1>4. QED
  BY <1>1, <1>3, EmptySeq

\* What waits in the queue is about the cache the thread fetches.
LEMMA QueueIsAbout ==
  ASSUME TypeInv, FetchInv, unprocessed_messages_queue # <<>>
  PROVE  beat.at \in {"fetch", "wait", "enable", "drain"} /\ beat.cache \in Cache
<1> DEFINE queue == unprocessed_messages_queue
<1>1. queue \in Seq(AnyMessage) /\ DOMAIN queue = 1..Len(queue) /\ Len(queue) \in Nat
  BY LenProperties DEF TypeInv, TypeOK
<1>2. 1 \in DOMAIN queue
  BY <1>1, EmptySeq
<1>3. QED
  BY <1>2 DEF FetchInv

LEMMA InitLink == Init => LinkInv /\ FreshInv
<1>1. SUFFICES ASSUME Init PROVE LinkInv /\ FreshInv
  OBVIOUS
<1>2. /\ connection = "none" /\ channel = <<>> /\ requests = <<>> /\ subscribed = {}
      /\ receiver = [r \in Threads |-> Resting] /\ ~is_registered /\ beat.at = "loop"
      /\ responses = {}
  BY <1>1 DEF Init, At
<1>3. receiver["current"] = Resting
  <2> HIDE DEF Resting
  <2>1. QED
    BY <1>2 DEF Threads
<1>4. QED
  BY <1>2, <1>3 DEF LinkInv, FreshInv, Open

\* Only the thread of the connection puts an answer of its own.
LEMMA OthersAnswer ==
  ASSUME NEW r \in Threads, r # "current", Receiver(r)
  PROVE  \A a \in responses' : a.own => a \in responses
<1>1. CASE Look(r)
  <2> DEFINE m == receiver[r].message
  <2>1. PICK b : b = [kind |-> m.kind, cache |-> m.cache, id |-> m.id, version |-> m.version,
                      own |-> r = "current"]
    OBVIOUS
  <2>2. \A a \in responses' : a \in responses \/ a = b
    BY <1>1, <2>1 DEF Look
  <2>3. ~ b.own
    BY <2>1
  <2> QED
    BY <2>2, <2>3
<1>2. CASE Enqueue(r) \/ Handle(r)
  BY <1>2 DEF Enqueue, Handle
<1> QED
  BY <1>1, <1>2 DEF Receiver

LEMMA LinkInvIsKept ==
  ASSUME TypeInv, TypeInv', FetchInv, LinkInv, [Next]_vars
  PROVE  LinkInv'
<1> USE DEF TypeInv
<1>1. CASE Connect
  BY <1>1 DEF Connect, LinkInv, At, Waiting, Cache
<1>2. CASE Heartbeat
  <2>1. /\ UNCHANGED <<is_registered, connection, enabled, receiver, subscribed, channel,
                       responses>>
        /\ is_registered
    BY <1>2 DEF Heartbeat, agent, local
  <2>2. \/ connection = "open" /\ beat' = Waiting(0, counter + 1)
        \/ connection # "open" /\ beat' = At("unregister", 0) /\ UNCHANGED requests
    BY <1>2 DEF Heartbeat, Send
  <2>3. beat'.at \in {"wait", "unregister"} /\ beat'.cache = 0
    BY <2>2 DEF Waiting, At
  <2>4. QED
    BY <2>1, <2>2, <2>3, Numbers DEF LinkInv
<1>3. CASE Leave
  BY <1>3 DEF Leave, LinkInv, At, agent, local, server
<1>4. CASE Disable
  <2>1. /\ UNCHANGED <<is_registered, connection, receiver, requests, subscribed, channel,
                       responses>>
        /\ beat.at = "next" /\ enabled' = [enabled EXCEPT ![beat.cache] = FALSE]
        /\ beat' = [beat EXCEPT !.at = "fetch"]
    BY <1>4 DEF Disable, agent, server
  <2>2. beat'.at = "fetch" /\ beat'.cache = beat.cache /\ beat.cache \in Cache
    BY <2>1 DEF TypeOK, SentInv, Place
  <2>3. ~ enabled'[beat.cache]
    BY <2>1, <2>2 DEF TypeOK
  <2>4. QED
    BY <2>1, <2>2, <2>3 DEF LinkInv
<1>5. CASE Fetch
  <2>1. /\ UNCHANGED <<is_registered, connection, enabled, receiver, subscribed, channel,
                       responses>>
        /\ beat.at = "fetch"
    BY <1>5 DEF Fetch, agent, local
  <2>2. \/ connection = "open" /\ beat' = Waiting(beat.cache, counter + 1)
        \/ connection # "open" /\ beat' = Failing("enable", beat.cache) /\ UNCHANGED requests
    BY <1>5 DEF Fetch, Send
  <2>3. beat'.at \in {"wait", "enable"} /\ beat'.cache = beat.cache
    BY <2>2 DEF Waiting, At, Failing
  <2>4. QED
    BY <2>1, <2>2, <2>3 DEF LinkInv
<1>6. CASE \E a \in responses : Take(a)
  <2>1. /\ UNCHANGED <<is_registered, connection, enabled, receiver, requests, subscribed, channel>>
        /\ beat.at = "wait" /\ beat \in Place /\ responses' \subseteq responses
    BY <1>6 DEF Take, server, TypeOK
  <2>2. \/ ~is_registered /\ beat.cache = 0 /\ beat' = At("next", 1)
        \/ is_registered /\ beat.cache = 0 /\ beat' = At("loop", 0)
        \/ beat.cache # 0 /\ beat' = At("enable", beat.cache)
        \/ beat' = AfterFailure
    BY <1>6 DEF Take, Wanted
  <2>3. \/ ~is_registered /\ beat.cache = 0 /\ beat'.at = "next"
        \/ is_registered /\ beat.cache = 0 /\ beat'.at = "loop"
        \/ beat.cache # 0 /\ beat'.at = "enable" /\ beat'.cache = beat.cache
        \/ beat.cache = 0 /\ beat'.at = "unregister"
    BY <2>1, <2>2, AfterFailureTyped, Numbers DEF At
  <2>4. QED
    BY <2>1, <2>3 DEF LinkInv
<1>7. CASE Fail
  <2>1. /\ UNCHANGED <<is_registered, connection, enabled, receiver, requests, subscribed, channel,
                       responses>>
        /\ beat.at = "wait" /\ beat \in Place /\ beat' = AfterFailure
    BY <1>7 DEF Fail, agent, local, server, TypeOK
  <2>2. \/ beat.cache # 0 /\ beat'.at = "enable" /\ beat'.cache = beat.cache
        \/ beat.cache = 0 /\ beat'.at = "unregister"
    BY <2>1, AfterFailureTyped, Numbers
  <2>3. QED
    BY <2>1, <2>2 DEF LinkInv
<1>8. CASE Enable \/ Dequeue \/ Unlock
  <2>1. /\ UNCHANGED <<is_registered, connection, receiver, requests, subscribed, channel,
                       responses>>
        /\ beat.at \in {"enable", "drain"} /\ beat.cache \in Cache
    BY <1>8 DEF Enable, Dequeue, Unlock, agent, server, SentInv
  <2>2. beat'.at \in {"drain", "unregister", "next", "finish"}
    BY <1>8 DEF Enable, Dequeue, Unlock, AfterEnable, At, TypeOK, Place
  <2>3. ~ is_registered
    BY <2>1, Numbers DEF LinkInv
  <2>4. QED
    BY <2>1, <2>2, <2>3 DEF LinkInv
<1>9. CASE Finish
  BY <1>9 DEF Finish, LinkInv, At, local, server
<1>10. CASE Unregister
  <2>1. /\ is_registered' = FALSE /\ connection' = "none" /\ requests' = <<>>
        /\ subscribed' = {} /\ channel' = <<>> /\ beat'.at \in {"loop", "end"}
        /\ receiver' = [r \in Threads |-> IF r = "old" THEN receiver["current"] ELSE Resting]
        /\ responses' = {}
    BY <1>10 DEF Unregister, At
  <2>2. receiver'["current"] = Resting
    BY <2>1 DEF Threads
  <2>3. QED
    BY <2>1, <2>2 DEF LinkInv
<1>11. ASSUME NEW r \in Threads, Receiver(r) PROVE LinkInv'
  <2>1. UNCHANGED <<is_registered, connection, beat, enabled, requests, subscribed>>
    BY <1>11 DEF Receiver, Receive, Look, Enqueue, Handle, agent, local, server
  <2>2. channel' = channel \/ channel # <<>>
    BY <1>11 DEF Receiver, Receive, Look, Enqueue, Handle, server
  <2>3. ASSUME connection = "none"
        PROVE  receiver'["current"] = Resting /\ \A a \in responses' : ~a.own
    <3>1. channel = <<>> /\ receiver["current"] = Resting /\ \A a \in responses : ~a.own
      BY <2>3 DEF LinkInv
    <3>2. receiver[r].at # "idle"
      BY <1>11, <3>1 DEF Receiver, Receive, Look, Enqueue, Handle
    <3>3. r # "current"
      BY <3>1, <3>2 DEF Resting
    <3>4. \E x : receiver' = [receiver EXCEPT ![r] = x]
      BY <1>11, <3>1, Zenon DEF Receiver, Receive, Look, Enqueue, Handle, Goes, Rests
    <3>5. receiver'["current"] = Resting
      BY <3>1, <3>3, <3>4 DEF TypeOK, Threads
    <3>6. \A a \in responses' : a \in responses \/ ~a.own
      BY <1>11, <3>3, OthersAnswer
    <3>7. QED
      BY <3>1, <3>5, <3>6
  <2>4. QED
    BY <2>1, <2>2, <2>3 DEF LinkInv
<1>12. CASE Serve
  <2>1. requests # <<>> /\ UNCHANGED <<is_registered, connection, beat, enabled, receiver, responses>>
    BY <1>12 DEF Serve, agent, local
  <2>2. QED
    BY <2>1 DEF LinkInv
<1>13. ASSUME NEW n \in Cache, Publish(n) PROVE LinkInv'
  <2>1. /\ UNCHANGED <<is_registered, connection, beat, enabled, receiver, requests, subscribed,
                       responses>>
        /\ n \notin subscribed => channel' = channel
    BY <1>13 DEF Publish, agent, local
  <2>2. QED
    BY <2>1 DEF LinkInv
<1>14. CASE Break
  <2>1. /\ connection = "open" /\ connection' = "broken" /\ requests' = <<>>
        /\ subscribed' = {} /\ channel' = <<>>
        /\ UNCHANGED <<is_registered, beat, enabled>>
    BY <1>14 DEF Break, local
  <2>2. QED
    BY <2>1 DEF LinkInv
<1>15. CASE Stop \/ UNCHANGED vars
  <2>1. UNCHANGED <<is_registered, connection, beat, enabled, receiver, requests, subscribed,
                    channel, responses>>
    BY <1>15 DEF Stop, vars, agent, local, server
  <2>2. QED
    BY <2>1 DEF LinkInv
<1>16. QED
  BY <1>1, <1>2, <1>3, <1>4, <1>5, <1>6, <1>7, <1>8, <1>9, <1>10, <1>11, <1>12, <1>13, <1>14,
     <1>15 DEF Next, Beat

\* A step of the thread by which nothing moves between the agent and the server.
LEMMA ChannelStays ==
  ASSUME ChannelInv, UNCHANGED <<channel, subscribed, version, receiver>>,
         \A n \in Cache : n \in subscribed /\ enabled[n] => enabled'[n]
  PROVE  ChannelInv'
BY DEF ChannelInv, Later, About, Event, Hand

LEMMA AskedStays ==
  ASSUME AskedInv, UNCHANGED <<requests, subscribed>>, \A n \in Cache : Before(n)' => Before(n)
  PROVE  AskedInv'
BY DEF AskedInv

LEMMA QuietStays ==
  ASSUME NEW n, UNCHANGED <<channel, receiver>>
  PROVE  Quiet(n)' <=> Quiet(n)
BY DEF Quiet, Later, Hand, Event

LEMMA CacheStays ==
  ASSUME CacheInv, TypeInv, FetchInv,
         UNCHANGED <<channel, receiver, subscribed, version, cache, unprocessed_messages_queue>>,
         responses' \subseteq responses, UNCHANGED spoiled,
         \A a \in responses : a.own /\ a.kind = "get" /\ beat'.at = "wait" /\ a.cache = beat'.cache =>
            a.cache \notin Cache \/ UNCHANGED beat,
         beat.at \in {"fetch", "wait", "enable", "drain"} /\ beat.cache \in Cache =>
            beat'.cache = beat.cache \/ unprocessed_messages_queue = <<>>,
         \A n \in Cache : Fetched(n)' => Fetched(n),
         beat'.at \in {"enable", "drain"} /\ ~beat'.failed =>
            beat.at \in {"enable", "drain"} /\ ~beat.failed /\ beat'.cache = beat.cache
  PROVE  CacheInv'
<1>1. ASSUME NEW a \in responses', NEW n \in Cache, a.own /\ a.kind = "get" /\ a.cache = n
      PROVE  /\ n \in subscribed'
             /\ /\ beat'.at = "wait" /\ beat'.cache = n /\ n \notin spoiled'
                /\ unprocessed_messages_queue' = <<>> /\ Quiet(n)'
                => a.version = version'[n]
  BY <1>1, QuietStays DEF CacheInv
<1>2. ASSUME unprocessed_messages_queue' # <<>>, beat'.cache \notin spoiled'
      PROVE  /\ beat'.cache \in subscribed'
             /\ Quiet(beat.cache)' =>
                  unprocessed_messages_queue'[Len(unprocessed_messages_queue')].version
                    = version'[beat'.cache]
  BY <1>2, QueueIsAbout, QuietStays DEF CacheInv
<1>3. \A n \in Cache \ spoiled' : Fetched(n)' =>
        n \in subscribed' /\ (Quiet(n)' => cache'[n] = version'[n])
  BY QuietStays DEF CacheInv
<1>4. ASSUME beat'.at \in {"enable", "drain"} /\ ~beat'.failed, beat'.cache \notin spoiled'
      PROVE  /\ beat'.cache \in subscribed'
             /\ unprocessed_messages_queue' = <<>> /\ Quiet(beat.cache)' =>
                  cache'[beat'.cache] = version'[beat'.cache]
  BY <1>4, QuietStays DEF CacheInv
<1>5. QED
  BY <1>1, <1>2, <1>3, <1>4 DEF CacheInv

\* More requests: a cache is asked for with its events.
LEMMA AsksMore ==
  ASSUME TypeInv, AskedInv, NEW new \in Seq(Asked), requests' = requests \o new,
         UNCHANGED subscribed,
         \A i \in DOMAIN new : new[i].kind = "get" =>
            \E j \in DOMAIN new : /\ j < i /\ new[j].kind = "subscribe"
                                  /\ new[j].cache = new[i].cache,
         \A n \in Cache : Before(n)' =>
            /\ Before(n)
            /\ \A i \in DOMAIN new : new[i].kind \in {"get", "subscribe"} => new[i].cache # n
  PROVE  AskedInv'
<1> DEFINE l == Len(requests)
<1>1. /\ requests \in Seq(Asked) /\ l \in Nat /\ DOMAIN requests = 1..l
      /\ Len(new) \in Nat /\ DOMAIN new = 1..Len(new)
  BY LenProperties DEF TypeInv, SentInv
<1>2. /\ requests' \in Seq(Asked) /\ Len(requests') = l + Len(new)
      /\ \A i \in 1..l + Len(new) : requests'[i] = IF i <= l THEN requests[i] ELSE new[i - l]
  BY <1>1, ConcatProperties
<1>3. DOMAIN requests' = 1..l + Len(new)
  BY <1>2, LenProperties
<1> HIDE DEF l
<1>4. /\ \A i \in DOMAIN requests : i \in DOMAIN requests' /\ requests'[i] = requests[i]
      /\ \A i \in DOMAIN new : l + i \in DOMAIN requests' /\ requests'[l + i] = new[i]
      /\ \A i \in DOMAIN requests' : i \in DOMAIN requests \/ i - l \in DOMAIN new
      /\ \A i \in DOMAIN requests' : i = l + (i - l)
  BY <1>1, <1>2, <1>3
<1>5. ASSUME NEW i \in DOMAIN requests', requests'[i].kind = "get"
      PROVE  \/ requests'[i].cache \in subscribed'
             \/ \E j \in DOMAIN requests' : /\ j < i /\ requests'[j].kind = "subscribe"
                                            /\ requests'[j].cache = requests'[i].cache
  <2>1. CASE i \in DOMAIN requests
    BY <1>4, <1>5, <2>1 DEF AskedInv
  <2>2. CASE i - l \in DOMAIN new
    <3>1. requests'[i] = new[i - l]
      BY <1>4, <2>2
    <3>2. PICK j \in DOMAIN new : /\ j < i - l /\ new[j].kind = "subscribe"
                                  /\ new[j].cache = new[i - l].cache
      BY <1>5, <2>2, <3>1
    <3>3. l + j < i
      BY <1>1, <1>3, <3>2
    <3>4. QED
      BY <1>4, <3>1, <3>2, <3>3
  <2>3. QED
    BY <1>4, <2>1, <2>2
<1>6. ASSUME NEW n \in Cache, Before(n)'
      PROVE  /\ n \notin subscribed'
             /\ \A i \in DOMAIN requests' :
                  requests'[i].kind \in {"get", "subscribe"} => requests'[i].cache # n
  BY <1>4, <1>6 DEF AskedInv
<1>7. QED
  BY <1>5, <1>6 DEF AskedInv

LEMMA ConnectFresh ==
  ASSUME TypeInv, FetchInv, LinkInv, Connect
  PROVE  FreshInv'
<1>1. /\ beat.at = "loop" /\ ~is_registered
      /\ requests' = <<Request("registration", 0, 1)>> /\ beat' = Waiting(0, 1)
      /\ UNCHANGED <<is_registered, enabled, spoiled, unprocessed_messages_queue, cache, responses,
                     receiver, subscribed, channel, version>>
      /\ connection = "none"
  BY DEF Connect, At, local, history, LinkInv
<1>2. /\ channel = <<>> /\ subscribed = {} /\ receiver["current"] = Resting
      /\ unprocessed_messages_queue = <<>>
  BY <1>1, QueueIsEmpty DEF LinkInv
<1>3. SUFFICES ASSUME Open' PROVE AskedInv' /\ ChannelInv' /\ CacheInv'
  BY DEF FreshInv
<1>4. \A a \in responses : ~a.own
  BY <1>1 DEF LinkInv
<1>5. beat'.at = "wait" /\ beat'.cache = 0
  BY <1>1 DEF Waiting, At
<1>6. DOMAIN requests' = {1} /\ requests'[1].kind = "registration"
  BY <1>1 DEF Request
<1>7. AskedInv'
  BY <1>1, <1>2, <1>6 DEF AskedInv
<1>8. DOMAIN channel = {} /\ Hand.kind = "none"
  BY <1>2 DEF Hand, Resting, Message
<1>9. ChannelInv'
  BY <1>1, <1>8 DEF ChannelInv, About, Event, Hand
<1>10. CacheInv'
  <2>1. \A n \in Cache : ~ Fetched(n)'
    BY <1>1, <1>5 DEF Fetched, Cache
  <2>2. QED
    BY <1>1, <1>2, <1>4, <1>5, <2>1 DEF CacheInv
<1>11. QED
  BY <1>7, <1>9, <1>10

LEMMA HeartbeatFresh ==
  ASSUME TypeInv, TypeInv', FetchInv, LinkInv, FreshInv, Heartbeat
  PROVE  FreshInv'
<1>1. /\ beat.at = "loop" /\ is_registered
      /\ UNCHANGED <<stop_event, is_registered, connection, enabled,
                     unprocessed_messages_queue, cache, responses, receiver, subscribed,
                     channel, version, spoiled>>
  BY DEF Heartbeat, At, agent, local, history
<1>2. SUFFICES ASSUME Open' PROVE AskedInv' /\ ChannelInv' /\ CacheInv'
  BY DEF FreshInv
<1>3. Open /\ AskedInv /\ ChannelInv /\ CacheInv
  BY <1>1, <1>2 DEF Open, FreshInv
<1>4. /\ beat' = Waiting(0, counter + 1)
      /\ requests' = requests \o [i \in DOMAIN <<"heartbeat">> |->
                                    Request(<<"heartbeat">>[i], 0, counter + 1)]
  BY <1>3 DEF Heartbeat, Send, Open
<1>5. beat'.at = "wait" /\ beat'.cache = 0
  BY <1>4 DEF Waiting, At
<1>6. ChannelInv'
  BY <1>1, <1>3, ChannelStays
<1>7. CacheInv'
  BY <1>1, <1>3, <1>5, CacheStays, Numbers DEF Fetched
<1>8. AskedInv'
  <2> DEFINE new == [i \in DOMAIN <<"heartbeat">> |->
                       Request(<<"heartbeat">>[i], 0, counter + 1)]
  <2>1. counter + 1 \in Nat
    BY DEF TypeInv, TypeOK
  <2>2. Request("heartbeat", 0, counter + 1) \in Asked
    BY <2>1, Numbers DEF Request, Asked, Query
  <2>3. new = <<Request("heartbeat", 0, counter + 1)>>
    OBVIOUS
  <2>4. new \in Seq(Asked) /\ DOMAIN new = {1} /\ new[1].kind = "heartbeat"
    BY <2>2, <2>3 DEF Request
  <2>5. \A n \in Cache : ~ Before(n)'
    BY <1>1, <1>5, Numbers DEF Before
  <2>6. requests' = requests \o new
    BY <1>4
  <2> HIDE DEF new
  <2>7. QED
    BY <1>1, <1>3, <2>4, <2>5, <2>6, AsksMore
<1>9. QED
  BY <1>6, <1>7, <1>8

LEMMA FetchFresh ==
  ASSUME TypeInv, TypeInv', FetchInv, LinkInv, FreshInv, Fetch
  PROVE  FreshInv'
<1> DEFINE c == beat.cache
<1>1. /\ beat.at = "fetch" /\ c \in Cache /\ c \in Index /\ c # 0 /\ c \in Nat
      /\ UNCHANGED <<stop_event, is_registered, connection, enabled,
                     unprocessed_messages_queue, cache, responses, receiver, subscribed,
                     channel, version, spoiled>>
  BY Numbers DEF Fetch, TypeInv, SentInv, agent, local, history, Cache
<1>2. SUFFICES ASSUME Open' PROVE AskedInv' /\ ChannelInv' /\ CacheInv'
  BY DEF FreshInv
<1>3. Open /\ AskedInv /\ ChannelInv /\ CacheInv /\ ~ is_registered
  BY <1>1, <1>2 DEF Open, FreshInv, LinkInv
<1>4. /\ beat' = Waiting(c, counter + 1)
      /\ requests' = requests \o [i \in DOMAIN <<"subscribe", "get">> |->
                                    Request(<<"subscribe", "get">>[i], c, counter + 1)]
  BY <1>3 DEF Fetch, Send, Open
<1>5. beat'.at = "wait" /\ beat'.cache = c
  BY <1>4 DEF Waiting, At
<1>6. Before(c) /\ c \notin subscribed
  <2>1. Before(c)
    BY <1>1 DEF Before
  <2>2. QED
    BY <1>1, <1>3, <2>1 DEF AskedInv
<1>7. ChannelInv'
  BY <1>1, <1>3, ChannelStays
<1>8. CacheInv'
  <2>1. \A a \in responses : a.own /\ a.kind = "get" => a.cache # c
    BY <1>1, <1>3, <1>6 DEF CacheInv
  <2>2. \A n \in Cache : Fetched(n)' => Fetched(n)
    BY <1>1, <1>5 DEF Fetched
  <2>3. QED
    BY <1>1, <1>3, <1>5, <2>1, <2>2, CacheStays
<1>9. AskedInv'
  <2> DEFINE new == [i \in DOMAIN <<"subscribe", "get">> |->
                       Request(<<"subscribe", "get">>[i], c, counter + 1)]
  <2>1. counter + 1 \in Nat
    BY DEF TypeInv, TypeOK
  <2>2. /\ Request("subscribe", c, counter + 1) \in Asked
        /\ Request("get", c, counter + 1) \in Asked
    BY <1>1, <2>1 DEF Request, Asked, Query
  <2>3. new = <<Request("subscribe", c, counter + 1), Request("get", c, counter + 1)>>
    OBVIOUS
  <2>4. /\ new \in Seq(Asked) /\ DOMAIN new = {1, 2}
        /\ new[1].kind = "subscribe" /\ new[1].cache = c
        /\ new[2].kind = "get" /\ new[2].cache = c
    BY <2>2, <2>3 DEF Request
  <2>5. ASSUME NEW n \in Cache, Before(n)' PROVE Before(n) /\ n # c
    <3>1. c < n
      BY <1>1, <1>5, <2>5 DEF Before
    <3>2. n \in Nat
      BY DEF Cache
    <3>3. c <= n /\ n # c
      BY <1>1, <3>1, <3>2
    <3>4. QED
      BY <1>1, <3>3 DEF Before
  <2>6. requests' = requests \o new
    BY <1>4
  <2> HIDE DEF new, c
  <2>7. \A i \in DOMAIN new : new[i].kind = "get" =>
          \E j \in DOMAIN new : j < i /\ new[j].kind = "subscribe" /\ new[j].cache = new[i].cache
    BY <2>4
  <2>8. \A i \in DOMAIN new : new[i].cache = c
    BY <2>4
  <2>9. QED
    BY <1>1, <1>3, <2>4, <2>5, <2>6, <2>7, <2>8, AsksMore
<1>10. QED
  BY <1>7, <1>8, <1>9

LEMMA BeatFresh ==
  ASSUME TypeInv, TypeInv', FetchInv, LinkInv, FreshInv,
         Leave \/ Disable \/ Fail \/ Finish \/ Stop \/ UNCHANGED vars
  PROVE  FreshInv'
<1>1. /\ UNCHANGED <<connection, unprocessed_messages_queue, cache, responses, receiver,
                     requests, subscribed, channel, version>>
      /\ UNCHANGED spoiled \/ (Disable /\ spoiled' = spoiled \ {beat.cache})
  BY DEF Leave, Disable, Fail, Finish, Stop, vars, agent, local, server, history
<1>2. SUFFICES ASSUME Open' PROVE AskedInv' /\ ChannelInv' /\ CacheInv'
  BY DEF FreshInv
<1>3. Open /\ AskedInv /\ ChannelInv /\ CacheInv
  BY <1>1, <1>2 DEF Open, FreshInv
<1>4. beat \in Place /\ beat.cache \in Index /\ enabled \in [Cache -> BOOLEAN]
  BY DEF TypeInv, TypeOK, Place
<1>5. CASE Leave \/ Stop \/ UNCHANGED vars
  <2>1. UNCHANGED <<is_registered, enabled, spoiled>>
    BY <1>5 DEF Leave, Stop, vars, agent, local, history
  <2>2. UNCHANGED beat \/ (beat.at = "loop" /\ beat'.at = "unregister")
    BY <1>5 DEF Leave, Stop, vars, At
  <2>3. \A n \in Cache : (Before(n)' => Before(n)) /\ (Fetched(n)' => Fetched(n))
    BY <2>1, <2>2 DEF Before, Fetched
  <2>4. ChannelInv' /\ AskedInv'
    BY <1>1, <1>3, <2>1, <2>3, ChannelStays, AskedStays
  <2>5. CacheInv'
    BY <1>1, <1>3, <2>1, <2>2, <2>3, CacheStays
  <2>6. QED
    BY <2>4, <2>5
<1>6. CASE Disable
  <2>1. /\ UNCHANGED is_registered /\ beat.at = "next" /\ beat.cache \in Cache
        /\ enabled' = [enabled EXCEPT ![beat.cache] = FALSE]
        /\ beat' = [beat EXCEPT !.at = "fetch"]
    BY <1>6 DEF Disable, agent, TypeInv, SentInv
  <2>2. beat'.at = "fetch" /\ beat'.cache = beat.cache
    BY <1>4, <2>1 DEF Place
  <2>3. \A n \in Cache : (Before(n)' => Before(n)) /\ (Fetched(n)' => Fetched(n))
    BY <2>1, <2>2 DEF Before, Fetched
  <2>4. beat.cache \notin subscribed
    <3>1. Before(beat.cache)
      BY <2>1 DEF Before, Cache
    <3>2. QED
      BY <1>3, <2>1, <3>1 DEF AskedInv
  <2>5. ChannelInv'
    BY <1>1, <1>3, <1>4, <2>1, <2>4, ChannelStays
  <2>6. AskedInv'
    BY <1>1, <1>3, <2>3, AskedStays
  <2>7. CacheInv'
    <3>1. unprocessed_messages_queue = <<>>
      BY <2>1, QueueIsEmpty
    <3>2. \A n \in Cache : Fetched(n)' => n # beat.cache
      <4>1. ~ is_registered /\ beat.cache \in Nat
        BY <2>1 DEF LinkInv, Cache
      <4>2. QED
        BY <2>1, <2>2, <4>1 DEF Fetched
    <3>3. \A n \in Cache \ spoiled' : Fetched(n)' => n \in Cache \ spoiled /\ Fetched(n)
      BY <1>1, <2>1, <2>3, <3>2
    <3>4. \A n : Quiet(n)' <=> Quiet(n)
      BY <1>1, QuietStays
    <3>5. QED
      BY <1>1, <1>3, <2>2, <3>1, <3>3, <3>4 DEF CacheInv
  <2>8. QED
    BY <2>5, <2>6, <2>7
<1>7. CASE Fail
  <2>1. /\ UNCHANGED <<is_registered, enabled, spoiled>> /\ beat.at = "wait"
        /\ beat' = AfterFailure
    BY <1>7 DEF Fail, agent, local
  <2>2. \/ beat.cache = 0 /\ beat'.at = "unregister"
        \/ /\ beat.cache \in Cache /\ beat'.at = "enable" /\ beat'.cache = beat.cache
           /\ beat'.failed
    <3>1. CASE beat.cache = 0
      BY <2>1, <3>1 DEF AfterFailure, At
    <3>2. CASE beat.cache # 0
      BY <1>4, <2>1, <3>2, Numbers DEF AfterFailure, Failing, At
    <3>3. QED
      BY <3>1, <3>2
  <2>3. \A n \in Cache : (Before(n)' => Before(n)) /\ (Fetched(n)' => Fetched(n))
    BY <2>1, <2>2, Numbers DEF Before, Fetched
  <2>4. ChannelInv' /\ AskedInv'
    BY <1>1, <1>3, <2>1, <2>3, ChannelStays, AskedStays
  <2>5. CacheInv'
    BY <1>1, <1>3, <2>1, <2>2, <2>3, Numbers, CacheStays
  <2>6. QED
    BY <2>4, <2>5
<1>8. CASE Finish
  <2>1. /\ UNCHANGED <<enabled, spoiled>> /\ beat.at = "finish"
        /\ is_registered' = (connection = "open")
        /\ beat' = IF connection = "open" THEN At("loop", 0) ELSE At("unregister", 0)
    BY <1>8 DEF Finish, local, history
  <2>2. beat'.at = "loop" /\ is_registered'
    BY <1>3, <2>1 DEF Open, At
  <2>3. \A n \in Cache : (Before(n)' => Before(n)) /\ (Fetched(n)' => Fetched(n))
    BY <2>1, <2>2 DEF Before, Fetched
  <2>4. ChannelInv' /\ AskedInv'
    BY <1>1, <1>3, <2>1, <2>3, ChannelStays, AskedStays
  <2>5. CacheInv'
    BY <1>1, <1>3, <2>1, <2>2, <2>3, CacheStays
  <2>6. QED
    BY <2>4, <2>5
<1>9. QED
  BY <1>5, <1>6, <1>7, <1>8

LEMMA TakeFresh ==
  ASSUME TypeInv, TypeInv', FetchInv, LinkInv, FreshInv, NEW a \in responses, Take(a)
  PROVE  FreshInv'
<1> DEFINE c == beat.cache
<1>1. /\ beat.at = "wait" /\ responses' \subseteq responses
      /\ UNCHANGED <<is_registered, connection, enabled, unprocessed_messages_queue, receiver,
                     requests, subscribed, channel, version>>
  BY DEF Take, server
<1>2. SUFFICES ASSUME Open' PROVE AskedInv' /\ ChannelInv' /\ CacheInv'
  BY DEF FreshInv
<1>3. Open /\ AskedInv /\ ChannelInv /\ CacheInv
  BY <1>1, <1>2 DEF Open, FreshInv
<1>4. /\ c \in Index /\ (c # 0 => c \in Cache) /\ 0 \notin Cache /\ beat \in Place
      /\ cache \in [Cache -> Version]
  BY Numbers DEF TypeInv, TypeOK, Place
<1>5. \/ /\ c = 0 /\ ~is_registered /\ beat' = At("next", 1) /\ UNCHANGED <<cache, spoiled>>
      \/ /\ c = 0 /\ is_registered /\ beat' = At("loop", 0) /\ UNCHANGED <<cache, spoiled>>
      \/ /\ c # 0 /\ a.kind = "get" /\ a.cache = c /\ beat' = At("enable", c)
         /\ cache' = [cache EXCEPT ![c] = a.version]
         /\ spoiled \subseteq spoiled' /\ (~a.own => c \in spoiled')
      \/ beat' = AfterFailure /\ UNCHANGED <<cache, spoiled>>
  <2>1. /\ c = 0 => {c} \cap Cache = {}
        /\ c # 0 => {c} \cap Cache = {c}
    BY <1>4
  <2>2. CASE a.kind = Wanted /\ a.cache = c
    <3>1. spoiled' = spoiled \cup (IF a.own THEN {} ELSE {c} \cap Cache) \/ UNCHANGED spoiled
      BY <2>2 DEF Take
    <3> QED
      BY <2>1, <2>2, <3>1 DEF Take, Wanted
  <2>3. CASE ~ (a.kind = Wanted /\ a.cache = c)
    BY <1>4, <2>3 DEF Take, Wanted
  <2> QED
    BY <2>2, <2>3
<1>6. ChannelInv'
  BY <1>1, <1>3, ChannelStays
<1>7. CASE c = 0 /\ ~is_registered /\ beat' = At("next", 1) /\ UNCHANGED <<cache, spoiled>>
  <2>1. beat'.at = "next" /\ beat'.cache = 1
    BY <1>7 DEF At
  <2>2. \A n \in Cache : Before(n) /\ ~ Fetched(n)'
    BY <1>1, <1>7, <2>1 DEF Before, Fetched, Cache
  <2>3. AskedInv'
    BY <1>1, <1>3, <2>2, AskedStays
  <2>4. CacheInv'
    BY <1>1, <1>3, <1>4, <1>7, <2>1, <2>2, CacheStays
  <2>5. QED
    BY <1>6, <2>3, <2>4
<1>8. CASE c = 0 /\ is_registered /\ beat' = At("loop", 0) /\ UNCHANGED <<cache, spoiled>>
  <2>1. beat'.at = "loop"
    BY <1>8 DEF At
  <2>2. \A n \in Cache : ~ Before(n)' /\ Fetched(n)
    BY <1>8, <2>1 DEF Before, Fetched
  <2>3. AskedInv'
    BY <1>1, <1>3, <2>2, AskedStays
  <2>4. CacheInv'
    BY <1>1, <1>3, <1>4, <1>8, <2>1, <2>2, CacheStays
  <2>5. QED
    BY <1>6, <2>3, <2>4
<1>9. CASE beat' = AfterFailure /\ UNCHANGED <<cache, spoiled>>
  <2>1. \/ c = 0 /\ beat'.at = "unregister"
        \/ c \in Cache /\ beat'.at = "enable" /\ beat'.cache = c /\ beat'.failed
    <3>1. CASE c = 0
      BY <1>9, <3>1 DEF AfterFailure, At
    <3>2. CASE c # 0
      BY <1>4, <1>9, <3>2 DEF AfterFailure, Failing, At
    <3>3. QED
      BY <3>1, <3>2
  <2>2. \A n \in Cache : (Before(n)' => Before(n)) /\ (Fetched(n)' => Fetched(n))
    BY <1>1, <2>1 DEF Before, Fetched
  <2>3. AskedInv'
    BY <1>1, <1>3, <2>2, AskedStays
  <2>4. CacheInv'
    BY <1>1, <1>3, <1>4, <1>9, <2>1, <2>2, CacheStays
  <2>5. QED
    BY <1>6, <2>3, <2>4
<1>10. CASE /\ c # 0 /\ a.kind = "get" /\ a.cache = c /\ beat' = At("enable", c)
            /\ cache' = [cache EXCEPT ![c] = a.version]
            /\ spoiled \subseteq spoiled' /\ (~a.own => c \in spoiled')
  <2>1. c \in Cache /\ beat'.at = "enable" /\ beat'.cache = c
    BY <1>4, <1>10 DEF At
  <2>2. \A n \in Cache : (Before(n)' => Before(n)) /\ (Fetched(n)' => Fetched(n) /\ n # c)
    <3>1. ~ is_registered
      BY <1>1, <1>4, <2>1 DEF LinkInv
    <3>2. \A n \in Cache : n \in Nat
      BY DEF Cache
    <3>3. QED
      BY <1>1, <2>1, <3>1, <3>2 DEF Before, Fetched
  <2>3. AskedInv'
    BY <1>1, <1>3, <2>2, AskedStays
  <2>4. /\ cache'[c] = a.version
        /\ \A n \in Cache : n # c => cache'[n] = cache[n]
    BY <1>4, <1>10, <2>1
  <2>5. \A n : Quiet(n)' <=> Quiet(n)
    BY <1>1, QuietStays
  <2>6. c \notin spoiled' =>
          /\ c \in subscribed
          /\ unprocessed_messages_queue = <<>> /\ Quiet(c) => a.version = version[c]
    BY <1>1, <1>3, <1>10, <2>1 DEF CacheInv
  <2>7. \A b \in responses', n \in Cache :
          b.own /\ b.kind = "get" /\ b.cache = n => n \in subscribed
    BY <1>1, <1>3 DEF CacheInv
  <2>8. \A n \in Cache \ spoiled' : Fetched(n)' =>
          n \in subscribed /\ (Quiet(n) => cache'[n] = version[n])
    BY <1>3, <1>10, <2>2, <2>4 DEF CacheInv
  <2>9. unprocessed_messages_queue # <<>> /\ Quiet(c) /\ c \notin spoiled' =>
          unprocessed_messages_queue[Len(unprocessed_messages_queue)].version = version[c]
    BY <1>3, <1>10 DEF CacheInv
  <2>10. CacheInv'
    BY <1>1, <2>1, <2>4, <2>5, <2>6, <2>7, <2>8, <2>9 DEF CacheInv
  <2>11. QED
    BY <1>6, <2>3, <2>10
<1>11. QED
  BY <1>5, <1>7, <1>8, <1>9, <1>10

LEMMA EnableFresh ==
  ASSUME TypeInv, TypeInv', FetchInv, LinkInv, FreshInv, Enable
  PROVE  FreshInv'
<1>1. /\ beat.at = "enable" /\ enabled' = [enabled EXCEPT ![beat.cache] = TRUE]
      /\ beat' = [beat EXCEPT !.at = "drain"]
      /\ UNCHANGED <<is_registered, connection, unprocessed_messages_queue, cache, responses,
                     receiver, requests, subscribed, channel, version, spoiled>>
  BY DEF Enable, agent, server, history
<1>2. SUFFICES ASSUME Open' PROVE AskedInv' /\ ChannelInv' /\ CacheInv'
  BY DEF FreshInv
<1>3. Open /\ AskedInv /\ ChannelInv /\ CacheInv
  BY <1>1, <1>2 DEF Open, FreshInv
<1>4. /\ beat'.at = "drain" /\ beat'.cache = beat.cache /\ beat'.failed = beat.failed
      /\ \A n \in Cache : enabled[n] => enabled'[n]
  BY <1>1 DEF TypeInv, TypeOK, Place
<1>5. \A n \in Cache : (Before(n)' => Before(n)) /\ (Fetched(n)' => Fetched(n))
  BY <1>1, <1>4 DEF Before, Fetched
<1>6. AskedInv' /\ ChannelInv'
  BY <1>1, <1>3, <1>4, <1>5, AskedStays, ChannelStays
<1>7. CacheInv'
  BY <1>1, <1>3, <1>4, <1>5, CacheStays
<1>8. QED
  BY <1>6, <1>7

LEMMA UnlockFresh ==
  ASSUME TypeInv, TypeInv', FetchInv, LinkInv, FreshInv, Unlock
  PROVE  FreshInv'
<1> DEFINE c == beat.cache
<1>1. /\ beat.at = "drain" /\ unprocessed_messages_queue = <<>> /\ beat' = AfterEnable
      /\ UNCHANGED <<is_registered, connection, enabled, unprocessed_messages_queue, cache,
                     responses, receiver, requests, subscribed, channel, version, spoiled>>
  BY DEF Unlock, agent, local, server, history
<1>2. SUFFICES ASSUME Open' PROVE AskedInv' /\ ChannelInv' /\ CacheInv'
  BY DEF FreshInv
<1>3. Open /\ AskedInv /\ ChannelInv /\ CacheInv
  BY <1>1, <1>2 DEF Open, FreshInv
<1>4. c \in Cache /\ c \in Nat /\ ~ is_registered
  BY <1>1 DEF TypeInv, SentInv, LinkInv, Cache
<1>5. \/ beat'.at = "unregister"
      \/ ~ beat.failed /\ beat'.at = "next" /\ beat'.cache = c + 1
      \/ ~ beat.failed /\ beat'.at = "finish" /\ ~ (c < Caches)
  BY <1>1 DEF AfterEnable, At
<1>6. \A n \in Cache : n \in Nat /\ n <= Caches /\ Caches \in Nat
  BY SessionAssumption DEF Cache
<1>7. \A n \in Cache : Before(n)' => Before(n)
  BY <1>1, <1>4, <1>5, <1>6 DEF Before
<1>8. \A n \in Cache : Fetched(n)' => Fetched(n) \/ (n = c /\ ~ beat.failed)
  BY <1>1, <1>4, <1>5, <1>6 DEF Fetched
<1>9. AskedInv' /\ ChannelInv'
  BY <1>1, <1>3, <1>7, AskedStays, ChannelStays
<1>10. CacheInv'
  <2>1. \A n : Quiet(n)' <=> Quiet(n)
    BY <1>1, QuietStays
  <2>2. \A n \in Cache \ spoiled : Fetched(n)' =>
          n \in subscribed /\ (Quiet(n) => cache[n] = version[n])
    BY <1>1, <1>3, <1>8 DEF CacheInv
  <2>3. \A a \in responses, n \in Cache :
          a.own /\ a.kind = "get" /\ a.cache = n => n \in subscribed
    BY <1>3 DEF CacheInv
  <2>4. QED
    BY <1>1, <1>5, <2>1, <2>2, <2>3 DEF CacheInv
<1>11. QED
  BY <1>9, <1>10

\* The queue is emptied in its order: the last event that waited is the last handled.
LEMMA DequeueFresh ==
  ASSUME TypeInv, TypeInv', FetchInv, LinkInv, FreshInv, Dequeue
  PROVE  FreshInv'
<1> DEFINE c == beat.cache
           queue == unprocessed_messages_queue
           last == queue[Len(queue)]
<1>1. /\ beat.at = "drain" /\ queue # <<>> /\ queue' = Tail(queue)
      /\ cache' = [cache EXCEPT ![c] = Head(queue).version]
      /\ UNCHANGED <<is_registered, connection, beat, enabled, responses, receiver, requests,
                     subscribed, channel, version, spoiled>>
  BY DEF Dequeue, agent, server, history
<1>2. SUFFICES ASSUME Open' PROVE AskedInv' /\ ChannelInv' /\ CacheInv'
  BY DEF FreshInv
<1>3. Open /\ AskedInv /\ ChannelInv /\ CacheInv
  BY <1>1, <1>2 DEF Open, FreshInv
<1>4. /\ c \in Cache /\ c \in Nat /\ ~ is_registered /\ cache \in [Cache -> Version]
      /\ queue \in Seq(AnyMessage)
  BY <1>1 DEF TypeInv, TypeOK, SentInv, LinkInv, Cache
<1>5. cache'[c] = Head(queue).version /\ \A n \in Cache : n # c => cache'[n] = cache[n]
  BY <1>1, <1>4
<1>6. \/ queue' = <<>> /\ Head(queue) = last
      \/ queue' # <<>> /\ queue'[Len(queue')] = last
  <2>1. /\ Tail(queue) \in Seq(AnyMessage) /\ Len(Tail(queue)) = Len(queue) - 1
        /\ Len(queue) \in Nat \ {0} /\ Head(queue) = queue[1]
        /\ \A i \in 1..Len(queue) - 1 : Tail(queue)[i] = queue[i + 1]
    BY <1>1, <1>4, HeadTailProperties, LenProperties, EmptySeq
  <2>2. CASE Len(queue) = 1
    <3>1. Len(Tail(queue)) = 0
      BY <2>1, <2>2
    <3>2. QED
      BY <1>1, <2>1, <2>2, <3>1, EmptySeq
  <2>3. CASE Len(queue) # 1
    <3>1. Tail(queue)[Len(queue) - 1] = queue[Len(queue)] /\ Len(Tail(queue)) # 0
      BY <2>1, <2>3
    <3>2. QED
      BY <1>1, <2>1, <3>1, EmptySeq
  <2>4. QED
    BY <2>2, <2>3
<1>7. \A n : (Quiet(n)' <=> Quiet(n)) /\ (Fetched(n)' <=> Fetched(n))
  BY <1>1, QuietStays DEF Fetched
<1>8. ~ Fetched(c)
  BY <1>1, <1>4 DEF Fetched
<1>9. c \notin spoiled => c \in subscribed /\ (Quiet(c) => last.version = version[c])
  BY <1>1, <1>3 DEF CacheInv
<1>10. AskedInv'
  BY <1>1, <1>3, AskedStays DEF Before
<1>11. ChannelInv'
  BY <1>1, <1>3, ChannelStays
<1>12. CacheInv'
  <2> HIDE DEF last
  <2>1. \A n \in Cache \ spoiled : Fetched(n) =>
          n \in subscribed /\ (Quiet(n) => cache'[n] = version[n])
    BY <1>3, <1>5, <1>8 DEF CacheInv
  <2>2. \A a \in responses, n \in Cache :
          a.own /\ a.kind = "get" /\ a.cache = n => n \in subscribed
    BY <1>3 DEF CacheInv
  <2>3. QED
    BY <1>1, <1>5, <1>6, <1>7, <1>9, <2>1, <2>2 DEF CacheInv
<1>13. QED
  BY <1>10, <1>11, <1>12

\* Nothing changes but what is on its way, of which some may have gone.
LEMMA CacheQuiet ==
  ASSUME CacheInv, UNCHANGED <<is_registered, beat, subscribed, version, cache,
                               unprocessed_messages_queue, responses, spoiled>>,
         \A n : Quiet(n)' => Quiet(n)
  PROVE  CacheInv'
<1>1. \A n : Fetched(n)' <=> Fetched(n)
  BY DEF Fetched
<1>2. QED
  BY <1>1 DEF CacheInv

LEMMA ReceiveFresh ==
  ASSUME TypeInv, TypeInv', FetchInv, LinkInv, FreshInv, Receive
  PROVE  FreshInv'
<1> DEFINE m == Head(channel)
           l == Len(channel)
           new == [at |-> "look", message |-> m]
<1>1. /\ receiver["current"] = Resting /\ channel # <<>> /\ channel' = Tail(channel)
      /\ receiver' = [receiver EXCEPT !["current"] = new]
      /\ UNCHANGED <<is_registered, connection, beat, enabled, unprocessed_messages_queue,
                     cache, responses, requests, subscribed, version, spoiled>>
  BY DEF Receive, agent, local, history
<1>2. SUFFICES ASSUME Open' PROVE AskedInv' /\ ChannelInv' /\ CacheInv'
  BY DEF FreshInv
<1>3. Open /\ AskedInv /\ ChannelInv /\ CacheInv
  BY <1>1, <1>2 DEF Open, FreshInv
<1>4. /\ channel \in Seq(Sent) /\ l \in Nat /\ DOMAIN channel = 1..l
  BY LenProperties DEF TypeInv, SentInv
<1>5. /\ l > 0 /\ m = channel[1] /\ Len(channel') = l - 1 /\ channel' \in Seq(Sent)
      /\ \A i \in 1..l - 1 : channel'[i] = channel[i + 1]
  <2>1. l # 0
    BY <1>1, <1>4, EmptySeq
  <2>2. Len(channel') = l - 1 /\ channel' \in Seq(Sent)
    BY <1>1, <1>4, HeadTailProperties
  <2>3. \A i \in 1..Len(channel') : channel'[i] = channel[i + 1]
    BY <1>1, <1>4, HeadTailProperties
  <2>4. QED
    BY <1>4, <2>1, <2>2, <2>3
<1>6. DOMAIN channel' = 1..l - 1
  BY <1>4, <1>5, LenProperties
<1> HIDE DEF m, l
<1>7. receiver'["current"] = new /\ Hand' = m /\ receiver'["current"].at = "look"
  BY <1>1 DEF TypeInv, TypeOK, Threads, Hand
<1>8. \A n : ~ Event(Hand, n)
  BY <1>1 DEF Hand, Event, Resting, Message
<1>9. ASSUME NEW i \in Nat, NEW n PROVE Later(i, n)' <=> Later(i + 1, n)
  <2>1. ASSUME NEW j \in DOMAIN channel', i < j, Event(channel'[j], n) PROVE Later(i + 1, n)
    <3>1. j + 1 \in DOMAIN channel /\ i + 1 < j + 1 /\ channel[j + 1] = channel'[j]
      BY <1>4, <1>5, <1>6, <2>1
    <3>2. QED
      BY <2>1, <3>1 DEF Later
  <2>2. ASSUME NEW j \in DOMAIN channel, i + 1 < j, Event(channel[j], n)
        PROVE  \E k \in DOMAIN channel' : i < k /\ Event(channel'[k], n)
    <3>1. j - 1 \in DOMAIN channel' /\ i < j - 1 /\ channel'[j - 1] = channel[j]
      BY <1>4, <1>5, <1>6, <2>2
    <3>2. QED
      BY <2>2, <3>1
  <2>3. Later(i, n)' <=> \E j \in DOMAIN channel' : i < j /\ Event(channel'[j], n)
    BY DEF Later, Event
  <2>4. QED
    BY <2>1, <2>2, <2>3 DEF Later
<1>10. \A n : Later(0, n)' <=> Later(1, n)
  <2>1. 0 \in Nat /\ 0 + 1 = 1
    OBVIOUS
  <2>2. QED
    BY <1>9, <2>1
<1>11. \A n : Quiet(n)' => Quiet(n)
  <2>1. ASSUME NEW n, Quiet(n)' PROVE Quiet(n)
    <3>1. ~ Later(1, n) /\ ~ Event(channel[1], n)
      BY <1>5, <1>7, <1>10, <2>1 DEF Quiet, Event
    <3>2. ~ Later(0, n)
      BY <1>4, <3>1 DEF Later
    <3>3. QED
      BY <1>8, <3>2 DEF Quiet
  <2>2. QED
    BY <2>1
<1>12. ChannelInv'
  <2>1. ASSUME NEW i \in DOMAIN channel', NEW n \in Cache, About(channel'[i], n)
        PROVE  n \in subscribed' /\ (Later(i, n)' \/ channel'[i].version = version'[n])
    <3>1. i \in Nat /\ i + 1 \in DOMAIN channel /\ channel'[i] = channel[i + 1]
      BY <1>4, <1>5, <1>6
    <3>2. n \in subscribed /\ (Later(i + 1, n) \/ channel[i + 1].version = version[n])
      BY <1>3, <2>1, <3>1 DEF ChannelInv
    <3>3. QED
      BY <1>1, <1>9, <3>1, <3>2
  <2>2. ASSUME NEW n \in Cache, About(Hand', n)
        PROVE  n \in subscribed' /\ (Later(0, n)' \/ Hand'.version = version'[n])
    <3>1. 1 \in DOMAIN channel /\ Hand' = channel[1]
      BY <1>4, <1>5, <1>7
    <3>2. n \in subscribed /\ (Later(1, n) \/ channel[1].version = version[n])
      BY <1>3, <2>2, <3>1 DEF ChannelInv
    <3>3. QED
      BY <1>1, <1>10, <3>1, <3>2
  <2>3. QED
    BY <1>7, <2>1, <2>2 DEF ChannelInv, About
<1>13. AskedInv'
  BY <1>1, <1>3, AskedStays DEF Before
<1>14. CacheInv'
  BY <1>1, <1>3, <1>11, CacheQuiet
<1>15. QED
  BY <1>12, <1>13, <1>14

\* What is on its way when a receiving thread goes on with its message.
LEMMA HandGoes ==
  ASSUME ChannelInv, CacheInv, AskedInv,
         UNCHANGED <<is_registered, beat, subscribed, version, cache, requests,
                     unprocessed_messages_queue, responses, channel, enabled, spoiled>>,
         Hand' = Hand,
         receiver'["current"].at = "handle" =>
           \/ receiver["current"].at = "handle" \/ enabled[Hand.cache]
  PROVE  AskedInv' /\ ChannelInv' /\ CacheInv'
<1>1. \A n : Quiet(n)' <=> Quiet(n)
  BY DEF Quiet, Later, Event
<1>2. CacheInv'
  BY <1>1, CacheQuiet
<1>3. AskedInv'
  BY AskedStays DEF Before
<1>4. ChannelInv'
  BY DEF ChannelInv, About, Event, Later
<1>5. QED
  BY <1>2, <1>3, <1>4

\* A thread of an earlier connection spoils no cache but the one its message is about.
LEMMA OldFresh ==
  ASSUME TypeInv, TypeInv', FetchInv, LinkInv, FreshInv,
         Look("old") \/ Enqueue("old") \/ Handle("old")
  PROVE  FreshInv'
<1> DEFINE queue == unprocessed_messages_queue
           n == receiver["old"].message.cache
<1>1. SUFFICES ASSUME Open' PROVE AskedInv' /\ ChannelInv' /\ CacheInv'
  BY DEF FreshInv
<1>2. /\ UNCHANGED <<is_registered, connection, beat, enabled, requests, subscribed,
                     channel, version>>
      /\ \E x : receiver' = [receiver EXCEPT !["old"] = x]
  BY Zenon DEF Look, Enqueue, Handle, Goes, Rests, agent, local, server
<1>3. Open /\ AskedInv /\ ChannelInv /\ CacheInv
  BY <1>1, <1>2 DEF Open, FreshInv
<1>4. receiver'["current"] = receiver["current"] /\ Hand' = Hand
  BY <1>2 DEF TypeInv, TypeOK, Threads, Hand
<1>5. \A k : (Quiet(k)' <=> Quiet(k)) /\ (Fetched(k)' <=> Fetched(k))
  BY <1>2, <1>4 DEF Quiet, Later, Event, Fetched
<1>6. AskedInv'
  BY <1>2, <1>3, AskedStays DEF Before
<1>7. ChannelInv'
  BY <1>2, <1>3, <1>4 DEF ChannelInv, Later, About, Event
<1>8. \A a \in responses' : a.own => a \in responses
  <2>1. "old" \in Threads /\ "old" # "current" /\ Receiver("old")
    BY DEF Threads, Receiver
  <2>2. QED
    BY <2>1, OthersAnswer
<1>9. /\ \A k \in Cache \ spoiled' : cache'[k] = cache[k] /\ k \notin spoiled
      /\ beat.cache \notin spoiled' => queue' = queue
      /\ queue = queue' \/ queue' # <<>>
  <2>1. CASE Look("old")
    BY <2>1 DEF Look, local, history
  <2>2. CASE Enqueue("old")
    <3>1. receiver["old"].at = "queue" /\ n \in Cache
      BY <2>2 DEF Enqueue, TypeInv, SentInv, Threads, Sent
    <3>2. UNCHANGED <<beat, enabled, cache>>
      BY <2>2 DEF Enqueue
    <3>3. \/ UNCHANGED <<queue, spoiled>>
          \/ ~ enabled[n] /\ spoiled' = spoiled \cup {n} /\ UNCHANGED queue
          \/ /\ ~ enabled[n] /\ spoiled' = spoiled \cup {n}
             /\ queue' = Append(queue, receiver["old"].message)
      BY <2>2 DEF Enqueue, Spoils
    <3>4. ~ enabled[n] => beat.cache = n
      BY <3>1 DEF FetchInv
    <3>5. Append(queue, receiver["old"].message) # <<>>
      <4>1. queue \in Seq(AnyMessage) /\ receiver["old"].message \in AnyMessage
        BY DEF TypeInv, TypeOK, Threads, Thread
      <4>2. QED
        BY <4>1, AppendProperties, LenProperties, EmptySeq
    <3> HIDE DEF n
    <3>6. QED
      BY <3>2, <3>3, <3>4, <3>5
  <2>3. CASE Handle("old")
    <3>1. /\ spoiled' = spoiled \cup {n} /\ UNCHANGED queue
          /\ cache' = [cache EXCEPT ![n] = receiver["old"].message.version]
      BY <2>3 DEF Handle, Spoils
    <3>2. cache \in [Cache -> Version]
      BY DEF TypeInv, TypeOK
    <3> HIDE DEF n
    <3>3. QED
      BY <3>1, <3>2
  <2>4. QED
    BY <2>1, <2>2, <2>3
<1>10. CacheInv'
  <2> HIDE DEF n
  <2>1. ASSUME NEW a \in responses', NEW k \in Cache, a.own /\ a.kind = "get" /\ a.cache = k
        PROVE  /\ k \in subscribed
               /\ /\ beat.at = "wait" /\ beat.cache = k /\ k \notin spoiled'
                  /\ queue' = <<>> /\ Quiet(k)
                  => a.version = version[k]
    BY <1>3, <1>8, <1>9, <2>1 DEF CacheInv
  <2>2. ASSUME queue' # <<>>, beat.cache \notin spoiled'
        PROVE  /\ beat.cache \in subscribed
               /\ Quiet(beat.cache) => queue'[Len(queue')].version = version[beat.cache]
    <3>1. queue' = queue
      BY <1>9, <2>2
    <3>2. beat.cache \in Cache
      BY <2>2, <3>1, QueueIsAbout
    <3>3. QED
      BY <1>3, <1>9, <2>2, <3>1, <3>2 DEF CacheInv
  <2>3. \A k \in Cache \ spoiled' : Fetched(k) =>
          k \in subscribed /\ (Quiet(k) => cache'[k] = version[k])
    BY <1>3, <1>9 DEF CacheInv
  <2>4. ASSUME beat.at \in {"enable", "drain"} /\ ~beat.failed /\ beat.cache \notin spoiled'
        PROVE  /\ beat.cache \in subscribed
               /\ queue' = <<>> /\ Quiet(beat.cache) => cache'[beat.cache] = version[beat.cache]
    <3>1. beat.cache \in Cache
      BY <2>4 DEF TypeInv, SentInv
    <3>2. QED
      BY <1>3, <1>9, <2>4, <3>1 DEF CacheInv
  <2>5. QED
    BY <1>2, <1>5, <2>1, <2>2, <2>3, <2>4 DEF CacheInv
<1>11. QED
  BY <1>6, <1>7, <1>10

\* The thread of the connection has done with its message.
LEMMA HandRests ==
  ASSUME TypeInv, Rests("current")
  PROVE  /\ receiver'["current"] = Resting /\ Hand'.kind = "none"
         /\ \A n : ~ Event(Hand', n) /\ ~ About(Hand', n)
<1>1. receiver'["current"] = Resting
  BY DEF Rests, TypeInv, TypeOK, Threads
<1>2. QED
  BY <1>1 DEF Hand, Resting, Message, Event, About

LEMMA LookFresh ==
  ASSUME TypeInv, TypeInv', FetchInv, LinkInv, FreshInv, Look("current")
  PROVE  FreshInv'
<1> DEFINE b == [kind |-> Hand.kind, cache |-> Hand.cache, id |-> Hand.id,
                 version |-> Hand.version, own |-> TRUE]
<1>1. UNCHANGED <<is_registered, connection, beat, enabled, unprocessed_messages_queue, cache,
                  requests, subscribed, channel, version, spoiled>>
  BY DEF Look, agent, local, server, history
<1>2. SUFFICES ASSUME Open' PROVE AskedInv' /\ ChannelInv' /\ CacheInv'
  BY DEF FreshInv
<1>3. Open /\ AskedInv /\ ChannelInv /\ CacheInv
  BY <1>1, <1>2 DEF Open, FreshInv
<1>4. \/ /\ Hand.kind # "event" /\ responses' \subseteq responses \cup {b} /\ Rests("current")
      \/ /\ responses' = responses
         /\ Goes("current", IF enabled[Hand.cache] THEN "handle" ELSE "queue")
  BY DEF Look, Hand
<1>5. CASE /\ responses' = responses
           /\ Goes("current", IF enabled[Hand.cache] THEN "handle" ELSE "queue")
  <2> DEFINE p == IF enabled[Hand.cache] THEN "handle" ELSE "queue"
  <2>1. p \in {"idle", "look", "queue", "handle"} /\ (p = "handle" => enabled[Hand.cache])
    OBVIOUS
  <2> HIDE DEF p
  <2>2. receiver'["current"].at = p /\ Hand' = Hand
    BY <1>5, <2>1, GoesTyped DEF TypeInv, TypeOK, Threads, Hand, p
  <2>3. QED
    BY <1>1, <1>3, <1>5, <2>1, <2>2, HandGoes
<1>6. CASE /\ Hand.kind # "event" /\ responses' \subseteq responses \cup {b}
           /\ Rests("current")
  <2>1. \A n : ~ Event(Hand', n) /\ ~ About(Hand', n)
    BY <1>6, HandRests
  <2>2. \A n : Quiet(n)' <=> Quiet(n)
    BY <1>1, <1>6, <2>1 DEF Quiet, Later, Event
  <2>3. AskedInv'
    BY <1>1, <1>3, AskedStays DEF Before
  <2>4. ChannelInv'
    BY <1>1, <1>3, <2>1 DEF ChannelInv, Later, About, Event
  <2>5. CacheInv'
    <3>1. b.kind = Hand.kind /\ b.cache = Hand.cache /\ b.version = Hand.version
      OBVIOUS
    <3> HIDE DEF b
    <3>2. ASSUME NEW n \in Cache, b.kind = "get", b.cache = n
          PROVE  n \in subscribed /\ (Quiet(n) => b.version = version[n])
      <4>1. About(Hand, n)
        BY <3>1, <3>2 DEF About
      <4>2. QED
        BY <1>3, <3>1, <4>1 DEF ChannelInv, Quiet
    <3>3. ASSUME NEW a \in responses', NEW n \in Cache, a.own, a.kind = "get", a.cache = n
          PROVE  /\ n \in subscribed
                 /\ /\ beat.at = "wait" /\ beat.cache = n /\ n \notin spoiled
                    /\ unprocessed_messages_queue = <<>> /\ Quiet(n)
                    => a.version = version[n]
      <4>1. CASE a \in responses
        BY <1>3, <3>3, <4>1 DEF CacheInv
      <4>2. CASE a = b
        BY <3>2, <3>3, <4>2
      <4>3. QED
        BY <1>6, <4>1, <4>2
    <3>4. \A n : Fetched(n)' <=> Fetched(n)
      BY <1>1 DEF Fetched
    <3>5. QED
      BY <1>1, <1>3, <2>2, <3>3, <3>4 DEF CacheInv
  <2>6. QED
    BY <2>3, <2>4, <2>5
<1>7. QED
  BY <1>4, <1>5, <1>6

LEMMA EnqueueFresh ==
  ASSUME TypeInv, TypeInv', FetchInv, LinkInv, FreshInv, Enqueue("current")
  PROVE  FreshInv'
<1> DEFINE queue == unprocessed_messages_queue
<1>1. /\ UNCHANGED <<is_registered, connection, beat, enabled, cache, requests, subscribed,
                     channel, version, responses>>
      /\ receiver["current"].at = "queue"
  BY DEF Enqueue, agent, server
<1>2. SUFFICES ASSUME Open' PROVE AskedInv' /\ ChannelInv' /\ CacheInv'
  BY DEF FreshInv
<1>3. Open /\ AskedInv /\ ChannelInv /\ CacheInv
  BY <1>1, <1>2 DEF Open, FreshInv
<1>4. PICK n \in Cache : /\ n = Hand.cache /\ Hand \in AnyMessage
                         /\ Event(Hand, n) /\ About(Hand, n)
  BY <1>1 DEF TypeInv, TypeOK, SentInv, Threads, Thread, Hand, Sent, Event, About
<1>5. \/ enabled[n] /\ UNCHANGED <<queue, spoiled>> /\ Goes("current", "handle")
      \/ /\ ~ enabled[n] /\ Rests("current")
         /\ \/ queue' = Append(queue, Hand) /\ UNCHANGED spoiled
            \/ queue' = queue /\ spoiled' = spoiled \cup {n}
  BY <1>4 DEF Enqueue, Hand, Spoils
<1>6. CASE enabled[n] /\ UNCHANGED <<queue, spoiled>> /\ Goes("current", "handle")
  <2>1. Hand' = Hand
    BY <1>6, GoesTyped DEF TypeInv, TypeOK, Threads, Hand
  <2>2. QED
    BY <1>1, <1>3, <1>4, <1>6, <2>1, HandGoes
<1>7. CASE /\ ~ enabled[n] /\ Rests("current")
           /\ \/ queue' = Append(queue, Hand) /\ UNCHANGED spoiled
              \/ queue' = queue /\ spoiled' = spoiled \cup {n}
  <2>1. \A k : ~ Event(Hand', k) /\ ~ About(Hand', k)
    BY <1>7, HandRests
  <2>2. \A k : /\ Quiet(k)' => ~ Later(0, k)
               /\ k # n /\ Quiet(k)' => Quiet(k)
    BY <1>1, <1>4 DEF Quiet, Later, Event
  <2>3. beat.at \in {"fetch", "wait", "enable"} /\ beat.cache = n
    BY <1>4, <1>7 DEF FetchInv
  <2>4. queue \in Seq(AnyMessage)
    BY DEF TypeInv, TypeOK
  <2>5. n \notin spoiled' => /\ queue' # <<>> /\ queue'[Len(queue')] = Hand
                            /\ UNCHANGED spoiled
    BY <1>4, <1>7, <2>4, AppendProperties, LenProperties, EmptySeq
  <2>6. n \in subscribed /\ (Later(0, n) \/ Hand.version = version[n])
    BY <1>3, <1>4 DEF ChannelInv
  <2>7. AskedInv'
    BY <1>1, <1>3, AskedStays DEF Before
  <2>8. ChannelInv'
    BY <1>1, <1>3, <2>1 DEF ChannelInv, Later, About, Event
  <2>9. CacheInv'
    <3>1. \A a \in responses', k \in Cache :
            a.own /\ a.kind = "get" /\ a.cache = k => k \in subscribed
      BY <1>1, <1>3 DEF CacheInv
    <3>2. n \notin spoiled' => (Quiet(n)' => queue'[Len(queue')].version = version[n])
      BY <2>2, <2>5, <2>6
    <3>3. \A k \in Cache : (Fetched(k)' <=> Fetched(k)) /\ (Fetched(k) => k # n)
      <4>1. ~ is_registered
        BY <1>4, <2>3, Numbers DEF LinkInv
      <4>2. ~ (n < n)
        BY <1>4 DEF Cache
      <4>3. QED
        BY <1>1, <2>3, <4>1, <4>2 DEF Fetched
    <3>4. \A k \in Cache \ spoiled' : Fetched(k)' =>
            k \in subscribed /\ (Quiet(k)' => cache[k] = version[k])
      BY <1>3, <1>7, <2>2, <3>3 DEF CacheInv
    <3>5. QED
      BY <1>1, <2>3, <2>5, <2>6, <3>1, <3>2, <3>4 DEF CacheInv
  <2>10. QED
    BY <2>7, <2>8, <2>9
<1>8. QED
  BY <1>5, <1>6, <1>7

LEMMA HandleFresh ==
  ASSUME TypeInv, TypeInv', FetchInv, LinkInv, FreshInv, Handle("current")
  PROVE  FreshInv'
<1> DEFINE queue == unprocessed_messages_queue
           n == Hand.cache
<1>1. /\ UNCHANGED <<is_registered, connection, beat, enabled, queue, requests, subscribed,
                     channel, version, responses>>
      /\ receiver["current"].at = "handle" /\ Rests("current")
      /\ cache' = [cache EXCEPT ![n] = Hand.version]
      /\ spoiled' = IF Locked(n) /\ queue # <<>> THEN spoiled \cup {n} ELSE spoiled
  BY DEF Handle, Spoils, agent, server, Hand
<1>2. SUFFICES ASSUME Open' PROVE AskedInv' /\ ChannelInv' /\ CacheInv'
  BY DEF FreshInv
<1>3. Open /\ AskedInv /\ ChannelInv /\ CacheInv
  BY <1>1, <1>2 DEF Open, FreshInv
<1>4. Hand.kind = "event" /\ n \in Cache /\ Event(Hand, n) /\ About(Hand, n)
  BY <1>1 DEF TypeInv, TypeOK, SentInv, Threads, Thread, Hand, Sent, Event, About
<1>5. /\ enabled[n] /\ n \in subscribed /\ (Later(0, n) \/ Hand.version = version[n])
  BY <1>1, <1>3, <1>4 DEF ChannelInv
<1> HIDE DEF n
<1>6. cache'[n] = Hand.version /\ \A k \in Cache : k # n => cache'[k] = cache[k]
  BY <1>1, <1>4 DEF TypeInv, TypeOK
<1>7. \A k : ~ Event(Hand', k) /\ ~ About(Hand', k)
  BY <1>1, HandRests
<1>8. \A k : /\ Quiet(k)' => ~ Later(0, k)
             /\ k # n /\ Quiet(k)' => Quiet(k)
  BY <1>1 DEF Quiet, Later, Event, n
<1>9. beat.at \in {"fetch", "wait", "enable"} /\ beat.cache \in Cache => beat.cache # n
  BY <1>5 DEF LinkInv
<1>10. AskedInv'
  BY <1>1, <1>3, AskedStays DEF Before
<1>11. ChannelInv'
  BY <1>1, <1>3, <1>7 DEF ChannelInv, Later, About, Event
<1>12. CacheInv'
  <2>1. ASSUME NEW a \in responses', NEW k \in Cache, a.own /\ a.kind = "get" /\ a.cache = k
        PROVE  /\ k \in subscribed
               /\ /\ beat.at = "wait" /\ beat.cache = k /\ k \notin spoiled' /\ queue = <<>>
                  /\ Quiet(k)'
                  => a.version = version[k]
    BY <1>1, <1>3, <1>8, <1>9, <2>1 DEF CacheInv
  <2>2. ASSUME queue # <<>>, beat.cache \notin spoiled'
        PROVE  /\ beat.cache \in subscribed
               /\ Quiet(beat.cache)' => queue[Len(queue)].version = version[beat.cache]
    <3>1. beat.at = "drain" => beat.cache # n
      BY <1>1, <2>2 DEF Locked
    <3>2. Quiet(beat.cache)' => Quiet(beat.cache)
      BY <1>1, <1>8, <1>9, <2>2, <3>1, QueueIsAbout
    <3>3. QED
      BY <1>1, <1>3, <2>2, <3>2 DEF CacheInv
  <2>3. ASSUME NEW k \in Cache \ spoiled', Fetched(k)'
        PROVE  k \in subscribed /\ (Quiet(k)' => cache'[k] = version[k])
    <3>1. Fetched(k)
      BY <1>1, <2>3 DEF Fetched
    <3>2. CASE k = n
      BY <1>5, <1>6, <1>8, <3>2
    <3>3. CASE k # n
      BY <1>1, <1>3, <1>6, <1>8, <3>1, <3>3 DEF CacheInv
    <3>4. QED
      BY <3>2, <3>3
  <2>4. ASSUME beat.at \in {"enable", "drain"} /\ ~beat.failed, beat.cache \notin spoiled'
        PROVE  /\ beat.cache \in subscribed
               /\ queue = <<>> /\ Quiet(beat.cache)' => cache'[beat.cache] = version[beat.cache]
    <3>1. beat.cache \in Cache /\ beat.cache \notin spoiled
      BY <1>1, <2>4 DEF TypeInv, SentInv
    <3>2. CASE beat.cache # n
      BY <1>1, <1>3, <1>6, <1>8, <2>4, <3>1, <3>2 DEF CacheInv
    <3>3. CASE beat.cache = n
      BY <1>1, <1>5, <1>6, <1>8, <3>3
    <3>4. QED
      BY <3>2, <3>3
  <2>5. QED
    BY <1>1, <2>1, <2>2, <2>3, <2>4 DEF CacheInv
<1>13. QED
  BY <1>10, <1>11, <1>12

\* The server sends one more message.
LEMMA SendsMore ==
  ASSUME TypeInv, NEW m \in Sent, channel' = Append(channel, m)
  PROVE  /\ DOMAIN channel = 1..Len(channel) /\ Len(channel) \in Nat
         /\ DOMAIN channel' = 1..Len(channel) + 1 /\ channel'[Len(channel) + 1] = m
         /\ \A i \in DOMAIN channel : channel'[i] = channel[i]
         /\ \A i \in 0..Len(channel) : \A k : Later(i, k)' <=> Later(i, k) \/ Event(m, k)
<1>1. channel \in Seq(Sent) /\ DOMAIN channel = 1..Len(channel) /\ Len(channel) \in Nat
  BY LenProperties DEF TypeInv, SentInv
<1>2. /\ channel' \in Seq(Sent) /\ Len(channel') = Len(channel) + 1
      /\ channel'[Len(channel) + 1] = m
      /\ \A i \in 1..Len(channel) : channel'[i] = channel[i]
  BY <1>1, AppendProperties
<1>3. DOMAIN channel' = 1..Len(channel) + 1
  BY <1>2, LenProperties
<1>4. ASSUME NEW i \in 0..Len(channel), NEW k PROVE Later(i, k)' <=> Later(i, k) \/ Event(m, k)
  <2>1. Later(i, k)' <=> \E j \in 1..Len(channel) + 1 : i < j /\ Event(channel'[j], k)
    BY <1>3 DEF Later, Event
  <2>2. Later(i, k) <=> \E j \in 1..Len(channel) : i < j /\ Event(channel[j], k)
    BY <1>1 DEF Later
  <2>3. ASSUME NEW j \in 1..Len(channel) + 1, i < j, Event(channel'[j], k)
        PROVE  (\E x \in 1..Len(channel) : i < x /\ Event(channel[x], k)) \/ Event(m, k)
    <3>1. j \in 1..Len(channel) \/ j = Len(channel) + 1
      BY <1>1
    <3>2. QED
      BY <1>2, <2>3, <3>1
  <2>4. ASSUME NEW j \in 1..Len(channel), i < j, Event(channel[j], k)
        PROVE  \E x \in 1..Len(channel) + 1 : i < x /\ Event(channel'[x], k)
    <3>1. j \in 1..Len(channel) + 1 /\ channel'[j] = channel[j]
      BY <1>1, <1>2
    <3>2. QED
      BY <2>4, <3>1
  <2>5. Event(m, k) => \E x \in 1..Len(channel) + 1 : i < x /\ Event(channel'[x], k)
    <3>1. Len(channel) + 1 \in 1..Len(channel) + 1 /\ i < Len(channel) + 1
      BY <1>1
    <3>2. QED
      BY <1>2, <3>1
  <2>6. QED
    BY <2>1, <2>2, <2>3, <2>4, <2>5
<1>5. QED
  BY <1>1, <1>2, <1>3, <1>4

\* A change of a cache to which the agent has not subscribed: none is up to date
\* by what the invariant says of it.
LEMMA PublishUnknown ==
  ASSUME TypeInv, FreshInv, Open, Open', NEW n \in Cache, n \notin subscribed,
         UNCHANGED <<is_registered, beat, enabled, unprocessed_messages_queue, cache, responses,
                     receiver, requests, subscribed, channel, spoiled>>,
         \A k \in Cache : k # n => version'[k] = version[k]
  PROVE  AskedInv' /\ ChannelInv' /\ CacheInv'
<1>1. AskedInv /\ ChannelInv /\ CacheInv
  BY DEF FreshInv
<1>2. \A k \in Cache : k \in subscribed => version'[k] = version[k]
  OBVIOUS
<1>3. AskedInv'
  BY <1>1, AskedStays DEF Before
<1>4. \A k : (Quiet(k)' <=> Quiet(k)) /\ (Fetched(k)' <=> Fetched(k))
  BY DEF Quiet, Later, Event, Hand, Fetched
<1>5. subscribed \subseteq Cache
  BY DEF TypeInv, TypeOK
<1>6. ChannelInv'
  BY <1>1, <1>2 DEF ChannelInv, About, Event, Hand, Later
<1>7. CacheInv'
  BY <1>1, <1>2, <1>4, <1>5 DEF CacheInv
<1>8. QED
  BY <1>3, <1>6, <1>7

\* A change that is sent to the agent: whatever it holds of the cache, there is a
\* later event on its way.
LEMMA PublishKnown ==
  ASSUME TypeInv, FreshInv, Open, Open', NEW n \in Cache, n \in subscribed,
         UNCHANGED <<is_registered, beat, enabled, unprocessed_messages_queue, cache, responses,
                     receiver, requests, subscribed, spoiled>>,
         version' = [version EXCEPT ![n] = version[n] + 1],
         NEW m \in Sent, Event(m, n), m.version = version[n] + 1,
         channel' = Append(channel, m)
  PROVE  AskedInv' /\ ChannelInv' /\ CacheInv'
<1>1. AskedInv /\ ChannelInv /\ CacheInv
  BY DEF FreshInv
<1>2. version'[n] = version[n] + 1 /\ \A k \in Cache : k # n => version'[k] = version[k]
  BY DEF TypeInv, TypeOK
<1>3. AskedInv'
  BY <1>1, AskedStays DEF Before
<1> DEFINE l == Len(channel)
<1>4. /\ DOMAIN channel = 1..l /\ l \in Nat
      /\ DOMAIN channel' = 1..l + 1 /\ channel'[l + 1] = m
      /\ \A i \in DOMAIN channel : channel'[i] = channel[i]
      /\ \A i \in 0..l : \A k : Later(i, k)' <=> Later(i, k) \/ Event(m, k)
  BY SendsMore
<1>5. \A k : k # n => ~ Event(m, k)
  BY DEF Event
<1> HIDE DEF l
<1>6. 0 \in 0..l
  BY <1>4
<1>7. \A k : (Quiet(k)' => Quiet(k) /\ k # n) /\ (Fetched(k)' <=> Fetched(k))
  BY <1>4, <1>6 DEF Quiet, Event, Hand, Fetched
<1>8. ASSUME NEW i \in DOMAIN channel', NEW k \in Cache, About(channel'[i], k)
      PROVE  k \in subscribed' /\ (Later(i, k)' \/ channel'[i].version = version'[k])
  <2>1. CASE i \in DOMAIN channel
    <3>1. i \in 0..l /\ About(channel[i], k) /\ channel'[i] = channel[i]
      BY <1>4, <1>8, <2>1
    <3>2. k \in subscribed /\ (Later(i, k) \/ channel[i].version = version[k])
      BY <1>1, <2>1, <3>1 DEF ChannelInv
    <3>3. QED
      BY <1>2, <1>4, <3>1, <3>2
  <2>2. CASE i = l + 1
    <3>1. channel'[i] = m /\ k = n
      BY <1>4, <1>8, <2>2 DEF About, Event
    <3>2. QED
      BY <1>2, <3>1
  <2>3. QED
    BY <1>4, <2>1, <2>2
<1>9. ASSUME NEW k \in Cache, About(Hand, k)
      PROVE  k \in subscribed' /\ (Later(0, k)' \/ Hand.version = version'[k])
  <2>1. k \in subscribed /\ (Later(0, k) \/ Hand.version = version[k])
    BY <1>1, <1>9 DEF ChannelInv
  <2>2. QED
    BY <1>2, <1>4, <1>6, <2>1
<1>10. ChannelInv'
  <2>1. \A k \in Cache : Event(Hand, k) /\ receiver["current"].at = "handle" => enabled[k]
    BY <1>1 DEF ChannelInv, Event, About
  <2>2. Hand' = Hand
    BY DEF Hand
  <2>3. QED
    BY <1>8, <1>9, <2>1, <2>2 DEF ChannelInv, About, Event
<1>11. subscribed \subseteq Cache
  BY DEF TypeInv, TypeOK
<1>12. CacheInv'
  BY <1>1, <1>2, <1>7, <1>11 DEF CacheInv
<1>13. QED
  BY <1>3, <1>10, <1>12

LEMMA PublishFresh ==
  ASSUME TypeInv, TypeInv', FetchInv, LinkInv, FreshInv, NEW n \in Cache, Publish(n)
  PROVE  FreshInv'
<1>1. /\ UNCHANGED <<is_registered, connection, beat, enabled, unprocessed_messages_queue,
                     cache, responses, receiver, requests, subscribed, spoiled>>
      /\ version' = [version EXCEPT ![n] = version[n] + 1]
      /\ channel' = IF n \in subscribed
                    THEN Append(channel, Message("event", n, 0, version[n] + 1)) ELSE channel
  BY DEF Publish, agent, local, history
<1>2. SUFFICES ASSUME Open' PROVE AskedInv' /\ ChannelInv' /\ CacheInv'
  BY DEF FreshInv
<1>3. Open
  BY <1>1, <1>2 DEF Open
<1>4. CASE n \notin subscribed
  <2>1. \A k \in Cache : k # n => version'[k] = version[k]
    BY <1>1 DEF TypeInv, TypeOK
  <2>2. QED
    BY <1>1, <1>2, <1>3, <1>4, <2>1, PublishUnknown
<1>5. CASE n \in subscribed
  <2> DEFINE m == Message("event", n, 0, version[n] + 1)
  <2>1. version[n] + 1 \in Version
    BY SessionAssumption DEF Publish, TypeInv, TypeOK, Version
  <2>2. m \in Sent
    BY <2>1, Numbers DEF Message, Sent, AnyMessage
  <2>3. Event(m, n) /\ m.version = version[n] + 1
    BY DEF Event, Message
  <2>4. channel' = Append(channel, m)
    BY <1>1, <1>5
  <2> HIDE DEF m
  <2>5. QED
    BY <1>1, <1>2, <1>3, <1>5, <2>2, <2>3, <2>4, PublishKnown
<1>6. QED
  BY <1>4, <1>5

LEMMA ServeFresh ==
  ASSUME TypeInv, TypeInv', FetchInv, LinkInv, FreshInv, Serve
  PROVE  FreshInv'
<1> DEFINE l == Len(requests)
<1>1. /\ requests # <<>> /\ requests' = Tail(requests)
      /\ UNCHANGED <<is_registered, connection, beat, enabled, unprocessed_messages_queue,
                     cache, responses, receiver, version, spoiled>>
  BY DEF Serve, agent, local, history
<1>2. PICK q : q = Head(requests)
  OBVIOUS
<1>3. \/ q.kind = "subscribe" /\ subscribed' = subscribed \cup {q.cache} /\ channel' = channel
      \/ /\ q.kind # "subscribe" /\ subscribed' = subscribed
         /\ channel' = Append(channel, Message(q.kind, q.cache, q.id,
                                 IF q.kind = "get" THEN version[q.cache] ELSE 0))
  BY <1>2 DEF Serve
<1>4. SUFFICES ASSUME Open' PROVE AskedInv' /\ ChannelInv' /\ CacheInv'
  BY DEF FreshInv
<1>5. Open /\ AskedInv /\ ChannelInv /\ CacheInv
  BY <1>1, <1>4 DEF Open, FreshInv
<1>6. /\ requests \in Seq(Asked) /\ l \in Nat /\ DOMAIN requests = 1..l
  BY LenProperties DEF TypeInv, SentInv
<1>7. /\ l > 0 /\ q = requests[1] /\ q \in Asked /\ DOMAIN requests' = 1..l - 1
      /\ \A i \in 1..l - 1 : requests'[i] = requests[i + 1]
  <2>1. l # 0
    BY <1>1, <1>6, EmptySeq
  <2>2. Len(requests') = l - 1 /\ requests' \in Seq(Asked)
    BY <1>1, <1>6, HeadTailProperties
  <2>3. \A i \in 1..Len(requests') : requests'[i] = requests[i + 1]
    BY <1>1, <1>6, HeadTailProperties
  <2>4. DOMAIN requests' = 1..Len(requests')
    BY <2>2, LenProperties
  <2>5. q = requests[1] /\ q \in Asked
    BY <1>1, <1>2, <1>6, <2>1
  <2>6. QED
    BY <1>6, <2>1, <2>2, <2>3, <2>4, <2>5
<1> HIDE DEF l
<1>8. /\ q.kind \in {"registration", "heartbeat", "get", "subscribe"}
      /\ q.cache \in Index /\ q.id \in Nat
      /\ q.kind \in {"get", "subscribe"} => q.cache \in Cache
  BY <1>7 DEF Asked, Query
<1>9. subscribed \subseteq subscribed'
  BY <1>3
<1>10. \A n \in Cache : Before(n)' => n \notin subscribed'
  <2>1. \A n \in Cache : Before(n)' <=> Before(n)
    BY <1>1 DEF Before
  <2>2. \A n \in Cache : Before(n) =>
          n \notin subscribed /\ (q.kind = "subscribe" => q.cache # n)
    BY <1>5, <1>6, <1>7 DEF AskedInv
  <2>3. QED
    BY <1>3, <2>1, <2>2
<1>11. AskedInv'
  <2>1. ASSUME NEW i \in DOMAIN requests', requests'[i].kind = "get"
        PROVE  \/ requests'[i].cache \in subscribed'
               \/ \E j \in DOMAIN requests' : /\ j < i /\ requests'[j].kind = "subscribe"
                                              /\ requests'[j].cache = requests'[i].cache
    <3>1. i + 1 \in DOMAIN requests /\ requests'[i] = requests[i + 1] /\ i \in Nat
      BY <1>6, <1>7
    <3>2. CASE requests[i + 1].cache \in subscribed
      BY <1>9, <3>1, <3>2
    <3>3. CASE \E j \in DOMAIN requests : /\ j < i + 1 /\ requests[j].kind = "subscribe"
                                          /\ requests[j].cache = requests[i + 1].cache
      <4>1. PICK j \in DOMAIN requests : /\ j < i + 1 /\ requests[j].kind = "subscribe"
                                         /\ requests[j].cache = requests[i + 1].cache
        BY <3>3
      <4>2. CASE j = 1
        BY <1>3, <1>7, <3>1, <4>1, <4>2
      <4>3. CASE j # 1
        <5>1. /\ j - 1 \in DOMAIN requests' /\ j - 1 < i
              /\ requests'[j - 1] = requests[j]
          BY <1>6, <1>7, <3>1, <4>1, <4>3
        <5>2. QED
          BY <3>1, <4>1, <5>1
      <4>4. QED
        BY <4>2, <4>3
    <3>4. QED
      BY <1>5, <2>1, <3>1, <3>2, <3>3 DEF AskedInv
  <2>2. ASSUME NEW n \in Cache, Before(n)', NEW i \in DOMAIN requests',
               requests'[i].kind \in {"get", "subscribe"}
        PROVE  requests'[i].cache # n
    <3>1. i + 1 \in DOMAIN requests /\ requests'[i] = requests[i + 1]
      BY <1>6, <1>7
    <3>2. Before(n)
      BY <1>1, <2>2 DEF Before
    <3>3. QED
      BY <1>5, <2>2, <3>1, <3>2 DEF AskedInv
  <2>3. QED
    BY <1>10, <2>1, <2>2 DEF AskedInv
<1>12. CASE q.kind = "subscribe" /\ channel' = channel
  <2>1. \A n : (Quiet(n)' <=> Quiet(n)) /\ (Fetched(n)' <=> Fetched(n))
    BY <1>1, <1>12 DEF Quiet, Later, Event, Hand, Fetched
  <2>2. ChannelInv'
    BY <1>1, <1>5, <1>9, <1>12 DEF ChannelInv, About, Event, Hand, Later
  <2>3. CacheInv'
    BY <1>1, <1>5, <1>9, <2>1 DEF CacheInv
  <2>4. QED
    BY <1>11, <2>2, <2>3
<1>13. CASE /\ q.kind # "subscribe" /\ subscribed' = subscribed
            /\ channel' = Append(channel, Message(q.kind, q.cache, q.id,
                                    IF q.kind = "get" THEN version[q.cache] ELSE 0))
  <2>1. PICK m : /\ m = Message(q.kind, q.cache, q.id,
                                IF q.kind = "get" THEN version[q.cache] ELSE 0)
                 /\ channel' = Append(channel, m)
    BY <1>13
  <2>2. (IF q.kind = "get" THEN version[q.cache] ELSE 0) \in Version
    BY <1>8, Numbers DEF TypeInv, TypeOK
  <2>3. /\ m \in Sent /\ m.kind = q.kind /\ m.cache = q.cache
        /\ m.kind = "get" => m.version = version[q.cache]
    BY <1>8, <1>13, <2>1, <2>2 DEF Message, Sent, AnyMessage
  <2>4. /\ DOMAIN channel = 1..Len(channel) /\ Len(channel) \in Nat
        /\ DOMAIN channel' = 1..Len(channel) + 1 /\ channel'[Len(channel) + 1] = m
        /\ \A i \in DOMAIN channel : channel'[i] = channel[i]
        /\ \A i \in 0..Len(channel) : \A k : Later(i, k)' <=> Later(i, k) \/ Event(m, k)
    BY <2>1, <2>3, SendsMore
  <2>5. m.kind # "event"
    BY <1>8, <2>3
  <2>6. \A k : ~ Event(m, k)
    BY <2>5 DEF Event
  <2>7. 0 \in 0..Len(channel)
    BY <2>4
  <2>8. \A n : (Quiet(n)' <=> Quiet(n)) /\ (Fetched(n)' <=> Fetched(n))
    BY <1>1, <2>4, <2>6, <2>7 DEF Quiet, Event, Hand, Fetched
  <2>9. m.kind = "get" => m.cache \in subscribed
    <3>1. 1 \in DOMAIN requests /\ requests[1] = q /\ ~ (\E j \in DOMAIN requests : j < 1)
      BY <1>6, <1>7
    <3>2. q.kind = "get" => q.cache \in subscribed
      BY <1>5, <3>1 DEF AskedInv
    <3>3. QED
      BY <2>3, <3>2
  <2>10. ASSUME NEW i \in DOMAIN channel', NEW k \in Cache, About(channel'[i], k)
         PROVE  k \in subscribed' /\ (Later(i, k)' \/ channel'[i].version = version'[k])
    <3>1. CASE i \in DOMAIN channel
      <4>1. i \in 0..Len(channel) /\ About(channel[i], k) /\ channel'[i] = channel[i]
        BY <2>4, <2>10, <3>1
      <4>2. k \in subscribed /\ (Later(i, k) \/ channel[i].version = version[k])
        BY <1>5, <3>1, <4>1 DEF ChannelInv
      <4>3. QED
        BY <1>1, <1>13, <2>4, <4>1, <4>2
    <3>2. CASE i = Len(channel) + 1
      <4>1. m.kind = "get" /\ k = m.cache /\ channel'[i] = m
        BY <2>4, <2>5, <2>10, <3>2 DEF About
      <4>2. QED
        BY <1>1, <1>13, <2>3, <2>9, <4>1
    <3>3. QED
      BY <2>4, <3>1, <3>2
  <2>11. ChannelInv'
    <3>1. \A k \in Cache : About(Hand, k) =>
            /\ k \in subscribed /\ (Later(0, k)' \/ Hand.version = version[k])
            /\ Event(Hand, k) /\ receiver["current"].at = "handle" => enabled[k]
      BY <1>5, <2>4, <2>7 DEF ChannelInv
    <3>2. Hand' = Hand
      BY <1>1 DEF Hand
    <3>3. QED
      BY <1>1, <1>13, <2>10, <3>1, <3>2 DEF ChannelInv, About, Event
  <2>12. CacheInv'
    BY <1>1, <1>5, <1>13, <2>8 DEF CacheInv
  <2>13. QED
    BY <1>11, <2>11, <2>12
<1>14. QED
  BY <1>3, <1>12, <1>13

LEMMA FreshInvIsKept ==
  ASSUME TypeInv, TypeInv', FetchInv, LinkInv, FreshInv, [Next]_vars
  PROVE  FreshInv'
<1>1. CASE Beat
  <2>1. ASSUME NEW a \in responses, Take(a) PROVE FreshInv'
    BY <2>1, TakeFresh
  <2>2. CASE Unregister
    BY <2>2 DEF Unregister, FreshInv, Open
  <2>3. QED
    BY <1>1, <2>1, <2>2, ConnectFresh, HeartbeatFresh, FetchFresh, EnableFresh, DequeueFresh, UnlockFresh,
       BeatFresh
    DEF Beat
<1>2. CASE Break
  BY <1>2 DEF Break, FreshInv, Open
<1>3. ASSUME NEW r \in Threads, Receiver(r) PROVE FreshInv'
  <2>1. r = "current" \/ r = "old"
    BY DEF Threads
  <2>2. QED
    BY <1>3, <2>1, ReceiveFresh, LookFresh, EnqueueFresh, HandleFresh, OldFresh DEF Receiver
<1>4. CASE Serve
  BY <1>4, ServeFresh
<1>5. ASSUME NEW n \in Cache, Publish(n) PROVE FreshInv'
  BY <1>5, PublishFresh
<1>6. CASE Fail \/ Stop \/ UNCHANGED vars
  BY <1>6, BeatFresh
<1>7. QED
  BY <1>1, <1>2, <1>3, <1>4, <1>5, <1>6 DEF Next

LEMMA FreshInvIsInvariant == Spec => [](LinkInv /\ FreshInv)
<1>1. TypeInv /\ TypeInv' /\ FetchInv /\ LinkInv /\ FreshInv /\ [Next]_vars
        => LinkInv' /\ FreshInv'
  BY LinkInvIsKept, FreshInvIsKept
<1> QED
  BY <1>1, InitLink, TypeInvIsInvariant, FetchInvIsInvariant, PTL DEF Spec

\* When the agent is registered and nothing is on its way to it, what it holds of a
\* cache is what the server holds, whatever was published while it connected, fetched
\* and listened, for any number of caches, messages and faults: unless that very cache
\* was spoiled by an event dropped, overtaken or of an earlier connection.
THEOREM CachesAreCurrent == Spec => []CachesCurrent
<1>1. ASSUME TypeInv, LinkInv, FreshInv PROVE CachesCurrent
  <2>1. SUFFICES ASSUME is_registered, connection = "open", channel = <<>>,
                        receiver["current"] = Resting
                 PROVE  \A n \in Cache \ spoiled : cache[n] = version[n]
    BY DEF CachesCurrent
  <2>2. CacheInv
    BY <1>1, <2>1 DEF FreshInv, Open
  <2>3. \A n \in Cache : Fetched(n) /\ Quiet(n)
    BY <2>1 DEF Fetched, Quiet, Later, Event, Hand, Resting, Message
  <2>4. QED
    BY <2>2, <2>3 DEF CacheInv
<1> QED
  BY <1>1, TypeInvIsInvariant, FreshInvIsInvariant, PTL

=============================================================================
