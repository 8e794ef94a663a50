------------------------- MODULE TransmissionQueue -------------------------
(***************************************************************************)
(* The transmission queue of the device (src/lib/astarte_device_sdk/       *)
(* device/transmission_queue.c), its persistent part (storage/trans.c) and *)
(* the worker that drains it (process_transmission_queue in device/core.c).*)
(*                                                                         *)
(* Application threads insert, the worker publishes and discards.  Nothing *)
(* locks the queue as a whole: only a k_msgq operation and a key-value     *)
(* call are atomic, and each is one step here.  A message goes to the      *)
(* queue of its class: "interface" (an introspection update) or one of the *)
(* three retentions.  The key-value namespace of the stored messages is a  *)
(* function on a ring of ids (uint32_t in the code), what KVMap promises.  *)
(*                                                                         *)
(* Abstracted: payload, QoS and timestamp; token pacing and sleeps, which  *)
(* only delay the worker.                                                  *)
(***************************************************************************)
EXTENDS Integers, Sequences, FiniteSets, SequencesExt, FiniteSetsExt

CONSTANTS
    Senders,     \* application threads
    Classes,     \* the classes of message each of them sends
    MaxSends,    \* how many messages each sends (a bound of the model)
    QueueSize,   \* CONFIG_ASTARTE_DEVICE_SDK_TRANSMISSION_QUEUE_SIZE
    StoreSize,   \* stored messages within the quota of the namespace
    IdSpace,     \* number of storage ids, 2^32 in the code
    FirstId,     \* the head index that the past of the device has led to
    MaxFaults,   \* power losses, re-creations and errors of key-value calls
                 \* considered, together (a bound of the model)
    NoMsg

\* The order in which astarte_transmission_queue_peek looks at the queues.
PeekOrder == <<"interface", "discard", "volatile", "stored">>

ASSUME ClassAssumption == Classes \in [Senders -> SUBSET Range(PeekOrder)]
ASSUME BoundAssumption ==
    /\ MaxSends \in [Senders -> Nat] /\ MaxFaults \in Nat
    /\ QueueSize \in Nat \ {0} /\ StoreSize \in Nat \ {0}
    /\ IdSpace \in Nat /\ IdSpace > StoreSize + 1
    /\ FirstId \in 0 .. IdSpace - 1

StoreIds == 0 .. IdSpace - 1
Next1(id) == (id + 1) % IdSpace

Msg == [by : Senders, nr : Nat, class : Range(PeekOrder), seq : Nat]
RamQueues == {"interface", "discard", "volatile"}

ASSUME NoMsgAssumption == NoMsg \notin Msg

VARIABLES
    queue,      \* RAM: the three k_msgq
    next_seq,   \* RAM: next_sequence_number
    head, tail, \* RAM: storage_indexes
    store,      \* flash: the transmission namespace
    sender,     \* RAM: where each application thread is in insert
    worker,     \* RAM: where the worker is
    connected,  \* the CONNECTION event bit
    sends,      \* messages each thread has begun to send
    raced,      \* history: whether two threads were in insert at once
    published,  \* history: what the MQTT client was given
    gone,       \* history: messages given up for a reason the code states
    boot,       \* number of reboots so far
    errors      \* number of key-value errors so far

indexes == <<head, tail>>
flash == <<store, errors>>
calls == <<sends, raced>>
vars == <<queue, next_seq, indexes, flash, sender, worker, connected, calls,
          published, gone, boot>>

Idle == [pc |-> "idle", msg |-> NoMsg]
Looping == [pc |-> "loop", seen |-> {}, msg |-> NoMsg]
Name(m) == [by |-> m.by, nr |-> m.nr]

Occupied == {id \in StoreIds : store[id] # NoMsg}

SenderPcs == {"idle", "count", "put", "evict", "reput", "moved_head", "moved_tail"}
WorkerPcs == {"loop", "held", "discard", "moved_head"} \cup
             {"peek1", "peek2", "peek3", "peek4"}

TypeOK ==
    /\ queue \in [RamQueues -> Seq(Msg)]
    /\ \A c \in RamQueues : Len(queue[c]) <= QueueSize
    /\ next_seq \in Nat
    /\ head \in StoreIds /\ tail \in StoreIds
    /\ store \in [StoreIds -> Msg \cup {NoMsg}]
    /\ sender \in [Senders -> [pc : SenderPcs, msg : Msg \cup {NoMsg}]]
    /\ worker \in [pc : WorkerPcs, seen : SUBSET Msg, msg : Msg \cup {NoMsg}]
    /\ connected \in BOOLEAN
    /\ \A t \in Senders : sends[t] \in 0 .. MaxSends[t]
    /\ raced \in BOOLEAN
    /\ published \in Seq([msg : Msg, boot : 0 .. MaxFaults])
    /\ gone \subseteq [by : Senders, nr : Nat, why : {"overtaken", "given up"}]
    /\ boot \in 0 .. MaxFaults
    /\ errors \in 0 .. MaxFaults

-----------------------------------------------------------------------------
(* astarte_storage_transmission_get_indexes: the indexes are not stored, they *)
(* are worked out from the ids found in the namespace, whatever their order.  *)

\* Mutated: the ids are taken not to have wrapped around.
IndexesOf_Linear(ids) ==
    IF ids = {} THEN [head |-> 1, tail |-> 0]
    ELSE [head |-> Min(ids), tail |-> Max(ids)]

IndexesOf(ids) ==
    LET n == Cardinality(ids)
        missing == IdSpace - n
        sumMissing == (IdSpace * (IdSpace - 1)) \div 2 - SumSet(ids)
        sumHT == (2 * sumMissing) \div missing
        diffHT == missing + 1
    IN  IF ids = {} THEN [head |-> 1, tail |-> 0]
        ELSE IF Max(ids) - Min(ids) + 1 = n
        THEN [head |-> Min(ids), tail |-> Max(ids)]
        ELSE [head |-> ((sumHT + diffHT) \div 2) % IdSpace,
              tail |-> ((sumHT - diffHT) \div 2) % IdSpace]

\* Mutated: the last number is used again.
SeqAfter_Reused(last) == IF last = NoMsg THEN 0 ELSE last.seq

\* The number that astarte_transmission_queue_init resumes from.
SeqAfter(last) == IF last = NoMsg THEN 0 ELSE last.seq + 1

Init ==
    /\ queue = [c \in RamQueues |-> <<>>]
    /\ next_seq = 0
    /\ head = FirstId /\ tail = (FirstId + IdSpace - 1) % IdSpace
    /\ store = [id \in StoreIds |-> NoMsg]
    /\ sender = [t \in Senders |-> Idle]
    /\ worker = Looping
    /\ connected = FALSE
    /\ sends = [t \in Senders |-> 0] /\ raced = FALSE
    /\ published = <<>> /\ gone = {} /\ boot = 0 /\ errors = 0

-----------------------------------------------------------------------------
(* astarte_transmission_queue_insert, on an application thread. *)

At(t, pc) == sender[t].pc = pc
SenderTo(t, pc) == sender' = [sender EXCEPT ![t].pc = pc]
Returned(t) == sender' = [sender EXCEPT ![t] = Idle]
Given(m, why) == [by |-> m.by, nr |-> m.nr, why |-> why]
GiveUp(msgs) == gone' = gone \cup {Given(m, "given up") : m \in msgs}

\* Messages are evicted or purged: the history keeps whether the worker had
\* looked at them and not gone on.
Why(m) == IF m \in worker.seen \cup {worker.msg} THEN "overtaken" ELSE "given up"
Drop(msgs) == gone' = gone \cup {Given(m, Why(m)) : m \in msgs}

\* The sequence number is read ...
Take(t, c) ==
    /\ At(t, "idle") /\ sends[t] < MaxSends[t] /\ c \in Classes[t]
    /\ sends' = [sends EXCEPT ![t] = @ + 1]
    /\ raced' = (raced \/ \E o \in Senders : ~At(o, "idle"))
    /\ sender' = [sender EXCEPT ![t] =
        [pc |-> "count",
         msg |-> [by |-> t, nr |-> sends[t] + 1, class |-> c, seq |-> next_seq]]]
    /\ UNCHANGED <<queue, next_seq, indexes, flash, worker, connected,
                   published, gone, boot>>

\* ... and written back incremented.
Count(t) ==
    /\ At(t, "count")
    /\ next_seq' = sender[t].msg.seq + 1
    /\ SenderTo(t, "put")
    /\ UNCHANGED <<queue, indexes, flash, worker, connected, calls, published, gone, boot>>

\* k_msgq_put at the first attempt or after an eviction.
PutRam(t) ==
    /\ At(t, "put") \/ At(t, "reput")
    /\ LET m == sender[t].msg IN
       /\ m.class \in RamQueues
       /\ IF Len(queue[m.class]) < QueueSize
          THEN /\ queue' = [queue EXCEPT ![m.class] = Append(@, m)]
               /\ Returned(t) /\ UNCHANGED gone
          ELSE /\ IF At(t, "put") THEN SenderTo(t, "evict") /\ UNCHANGED gone
                  ELSE Returned(t) /\ GiveUp({m})
               /\ UNCHANGED queue
    /\ UNCHANGED <<next_seq, indexes, flash, worker, connected, calls, published, boot>>

\* k_msgq_get makes room; if the worker emptied the queue in the meantime the
\* new message is dropped.
EvictRam(t) ==
    /\ At(t, "evict")
    /\ LET m == sender[t].msg IN
       /\ m.class \in RamQueues
       /\ IF queue[m.class] = <<>>
          THEN Returned(t) /\ GiveUp({m}) /\ UNCHANGED queue
          ELSE /\ queue' = [queue EXCEPT ![m.class] = Tail(@)]
               /\ SenderTo(t, "reput") /\ Drop({Head(queue[m.class])})
    /\ UNCHANGED <<next_seq, indexes, flash, worker, connected, calls, published, boot>>

Fault == boot + errors < MaxFaults
KvError == Fault /\ errors' = errors + 1

\* A key-value insertion fails for want of room, or after an error that may
\* have left the record in place.
PushFails(m) ==
    \/ /\ store[Next1(tail)] = NoMsg /\ Cardinality(Occupied) >= StoreSize
       /\ UNCHANGED flash
    \/ KvError /\ store' \in {store, [store EXCEPT ![Next1(tail)] = m]}

PushDone(m) ==
    /\ store[Next1(tail)] # NoMsg \/ Cardinality(Occupied) < StoreSize
    /\ store' = [store EXCEPT ![Next1(tail)] = m]
    /\ UNCHANGED errors

\* astarte_storage_transmission_push writes the record after the tail ...
Push(t) ==
    /\ At(t, "put") \/ At(t, "reput")
    /\ LET m == sender[t].msg IN
       /\ m.class = "stored"
       /\ \/ PushDone(m) /\ SenderTo(t, "moved_tail") /\ UNCHANGED gone
          \/ PushFails(m) /\ At(t, "put") /\ SenderTo(t, "evict") /\ UNCHANGED gone
          \/ PushFails(m) /\ At(t, "reput") /\ Returned(t) /\ GiveUp({m})
    /\ UNCHANGED <<queue, next_seq, indexes, worker, connected, calls, published, boot>>

\* ... and then moves the tail.
MoveTail(t) ==
    /\ At(t, "moved_tail")
    /\ tail' = Next1(tail)
    /\ Returned(t)
    /\ UNCHANGED <<queue, next_seq, head, flash, worker, connected, calls,
                   published, gone, boot>>

\* astarte_key_value_delete of the head.  An error reported after the intent
\* was logged does not undo the deletion: the next call finishes it.
Deleted == [store EXCEPT ![head] = NoMsg]
DeleteHead(ok) ==
    IF ok THEN store[head] # NoMsg /\ store' = Deleted /\ UNCHANGED errors
    ELSE \/ store[head] = NoMsg /\ UNCHANGED flash
         \/ KvError /\ store' \in {store, Deleted}

EvictStored(t) ==
    /\ At(t, "evict") /\ sender[t].msg.class = "stored"
    /\ \/ DeleteHead(TRUE) /\ SenderTo(t, "moved_head") /\ Drop({store[head]})
       \/ /\ DeleteHead(FALSE) /\ Returned(t)
          /\ GiveUp({sender[t].msg} \cup ({store[head]} \ {store'[head], NoMsg}))
    /\ UNCHANGED <<queue, next_seq, indexes, worker, connected, calls, published, boot>>

\* Mutated: the head stays on the deleted record.
MoveHead_Forgotten(t) ==
    /\ At(t, "moved_head")
    /\ SenderTo(t, "reput")
    /\ UNCHANGED <<queue, next_seq, indexes, flash, worker, connected, calls,
                   published, gone, boot>>

MoveHead(t) ==
    /\ At(t, "moved_head")
    /\ head' = Next1(head)
    /\ SenderTo(t, "reput")
    /\ UNCHANGED <<queue, next_seq, tail, flash, worker, connected, calls,
                   published, gone, boot>>

-----------------------------------------------------------------------------
(* The worker thread. *)

AtW(pc) == worker.pc = pc

PeekPcs == <<"peek1", "peek2", "peek3", "peek4">>
AfterPeek(n) == IF n = 4 THEN "held" ELSE PeekPcs[n + 1]

\* With the connection bit set the worker looks at the queue.
StartPeek ==
    /\ AtW("loop") /\ connected
    /\ worker' = [Looping EXCEPT !.pc = "peek1"]
    /\ UNCHANGED <<queue, next_seq, indexes, flash, sender, connected, calls,
                   published, gone, boot>>

FrontOf(c) ==
    IF c = "stored" THEN IF store[head] = NoMsg THEN {} ELSE {store[head]}
    ELSE IF queue[c] = <<>> THEN {} ELSE {Head(queue[c])}

\* The oldest of the fronts that were seen; on a tie the code prefers the
\* interface, then the volatile, discard and stored message.
Preference == <<"interface", "volatile", "discard", "stored">>
Rank(m) == CHOOSE n \in 1 .. 4 : Preference[n] = m.class
Older(m, o) == m.seq < o.seq \/ (m.seq = o.seq /\ Rank(m) <= Rank(o))
Oldest(seen) == CHOOSE m \in seen : \A o \in seen : Older(m, o)

\* One queue after the other is looked at, none of them locked.
Look(n) ==
    /\ AtW(PeekPcs[n])
    /\ LET seen == worker.seen \cup FrontOf(PeekOrder[n]) IN
       worker' = IF n < 4 THEN [worker EXCEPT !.pc = AfterPeek(n), !.seen = seen]
                 ELSE IF seen = {} THEN Looping
                 ELSE [pc |-> "held", seen |-> {}, msg |-> Oldest(seen)]
    /\ UNCHANGED <<queue, next_seq, indexes, flash, sender, connected, calls,
                   published, gone, boot>>

\* An error of the storage ends the peek whatever the other queues hold.
LookFails ==
    /\ AtW("peek4") /\ KvError
    /\ worker' = Looping
    /\ UNCHANGED <<queue, next_seq, indexes, store, sender, connected, calls,
                   published, gone, boot>>

\* astarte_device_dispatcher_publish_data hands the message to the MQTT client;
\* an introspection update is applied at this point instead.
Publish ==
    /\ AtW("held")
    /\ published' = Append(published, [msg |-> worker.msg, boot |-> boot])
    /\ worker' = [worker EXCEPT !.pc = "discard"]
    /\ UNCHANGED <<queue, next_seq, indexes, flash, sender, connected, calls, gone, boot>>

\* Mutated: the message is discarded although it was not sent.
PublishFails_Discards ==
    /\ AtW("held") /\ worker.msg.class # "interface"
    /\ worker' = [worker EXCEPT !.pc = "discard"]
    /\ UNCHANGED <<queue, next_seq, indexes, flash, sender, connected, calls,
                   published, gone, boot>>

\* It fails before anything is sent (no memory for the topic): retried later.
PublishFails ==
    /\ AtW("held") /\ worker.msg.class # "interface"
    /\ worker' = Looping
    /\ UNCHANGED <<queue, next_seq, indexes, flash, sender, connected, calls,
                   published, gone, boot>>

\* Mutated: a published message is not discarded.
DiscardRam_Kept ==
    /\ AtW("discard") /\ worker.msg.class \in RamQueues
    /\ worker' = Looping
    /\ UNCHANGED <<queue, next_seq, indexes, flash, sender, connected, calls,
                   published, gone, boot>>

\* discard_by_retention and discard_interface remove whatever is now in front.
DiscardRam ==
    /\ AtW("discard") /\ worker.msg.class \in RamQueues
    /\ queue' = [queue EXCEPT ![worker.msg.class] = IF @ = <<>> THEN @ ELSE Tail(@)]
    /\ worker' = Looping
    /\ UNCHANGED <<next_seq, indexes, flash, sender, connected, calls, published,
                   gone, boot>>

DiscardStored ==
    /\ AtW("discard") /\ worker.msg.class = "stored"
    /\ \/ DeleteHead(TRUE) /\ worker' = [Looping EXCEPT !.pc = "moved_head"]
       \/ DeleteHead(FALSE) /\ worker' = Looping
    /\ UNCHANGED <<queue, next_seq, indexes, sender, connected, calls, published,
                   gone, boot>>

\* Mutated: the head stays on the deleted record.
WorkerMovesHead_Forgotten ==
    /\ AtW("moved_head")
    /\ worker' = Looping
    /\ UNCHANGED <<queue, next_seq, indexes, flash, sender, connected, calls,
                   published, gone, boot>>

\* Mutated: the head does not wrap around.
WorkerMovesHead_NoWrap ==
    /\ AtW("moved_head")
    /\ head' = head + 1
    /\ worker' = Looping
    /\ UNCHANGED <<queue, next_seq, tail, flash, sender, connected, calls,
                   published, gone, boot>>

WorkerMovesHead ==
    /\ AtW("moved_head")
    /\ head' = Next1(head)
    /\ worker' = Looping
    /\ UNCHANGED <<queue, next_seq, tail, flash, sender, connected, calls,
                   published, gone, boot>>

-----------------------------------------------------------------------------
(* The environment. *)

\* The end of the handshake, in the worker's poll between two messages.
Connect ==
    /\ AtW("loop") /\ ~connected
    /\ connected' = TRUE
    /\ UNCHANGED <<queue, next_seq, indexes, flash, sender, worker, calls,
                   published, gone, boot>>

\* astarte_device_dispatcher_on_disconnected, called when the session ends: by
\* the worker's poll, within a publish of the worker that finds the transport
\* broken, or on the thread of the application that disconnects, wherever the
\* worker then is, and also before the handshake has set the bit.  It clears
\* the bit and gets message after message to discard until there is none: a
\* get is a step, which others may come between, and the next is the same step
\* again.
Disconnect ==
    /\ connected' = FALSE
    /\ Drop(FrontOf("discard"))
    /\ queue' = [queue EXCEPT !["discard"] = IF @ = <<>> THEN @ ELSE Tail(@)]
    /\ UNCHANGED <<next_seq, indexes, flash, sender, worker, calls, published, boot>>

RamMessages ==
    (UNION {Range(queue[c]) : c \in RamQueues})
        \cup ({sender[t].msg : t \in Senders} \ {NoMsg})

\* astarte_transmission_queue_init: empty queues, indexes from the storage.
Initialised(kept) ==
    /\ LET ix == IndexesOf({id \in StoreIds : kept[id] # NoMsg}) IN
       /\ head' = ix.head /\ tail' = ix.tail
       /\ next_seq' = SeqAfter(kept[ix.tail])
    /\ queue' = [c \in RamQueues |-> <<>>]
    /\ sender' = [t \in Senders |-> Idle]
    /\ worker' = Looping /\ connected' = FALSE

\* The power is lost, and with it what is in RAM.
Reboot ==
    /\ Fault /\ boot' = boot + 1
    /\ Initialised(store)
    /\ GiveUp(RamMessages)
    /\ UNCHANGED <<flash, calls, published>>

\* astarte_device_destroy: the worker is joined, astarte_transmission_queue_clear
\* discards from the head for as long as there is something, and the next
\* astarte_device_new starts from what is left.
Run(n) == {(head + i) % IdSpace : i \in 0 .. n}
Recreate ==
    /\ AtW("loop") /\ \A t \in Senders : At(t, "idle")
    /\ Fault /\ boot' = boot + 1
    /\ LET cleared == UNION {Run(n) : n \in {k \in 0 .. IdSpace - 1 : Run(k) \subseteq Occupied}}
           kept == [id \in StoreIds |-> IF id \in cleared THEN NoMsg ELSE store[id]]
       IN  /\ store' = kept
           /\ Initialised(kept)
           /\ GiveUp(RamMessages \cup {store[id] : id \in cleared})
    /\ UNCHANGED <<errors, calls, published>>

Insert(t) ==
    \/ \E c \in Range(PeekOrder) : Take(t, c)
    \/ Count(t) \/ PutRam(t) \/ EvictRam(t) \/ Push(t) \/ MoveTail(t)
    \/ EvictStored(t) \/ MoveHead(t)

Progress == \/ StartPeek \/ (\E n \in 1 .. 4 : Look(n)) \/ Publish
            \/ DiscardRam \/ DiscardStored \/ WorkerMovesHead

Next ==
    \/ \E t \in Senders : Insert(t)
    \/ Progress \/ LookFails \/ PublishFails
    \/ Connect \/ Disconnect \/ Reboot \/ Recreate

Spec == Init /\ [][Next]_vars

\* The worker thread is never blocked, and neither is a thread inside insert.
FairSpec ==
    /\ Spec
    /\ WF_vars(Progress)
    /\ WF_vars(\E t \in Senders : Insert(t) /\ sender[t].pc # "idle")

-----------------------------------------------------------------------------
(* Properties. *)

Delivered(t, n) == \E i \in DOMAIN published : Name(published[i].msg) = [by |-> t, nr |-> n]
Held(t, n) == [by |-> t, nr |-> n] \in
    {Name(m) : m \in RamMessages \cup {store[id] : id \in Occupied}}

\* No message disappears: until it was given to the MQTT client a message stays
\* in the queue ("Message safely remains at the head of the queue", core.c),
\* unless it was evicted, purged, refused, cleared or lost with the RAM.
NothingLost ==
    \A t \in Senders : \A n \in 1 .. sends[t] :
        \/ Delivered(t, n) \/ Held(t, n)
        \/ \E g \in gone : g.by = t /\ g.nr = n

\* One thread at a time has inserted, and the storage has worked.
Undisturbed == ~raced /\ errors = 0

\* So it is, full queues and lost sessions included, unless an eviction or a
\* purge removes a message that the worker has looked at: its discard otherwise
\* removes the message that was published.
NothingLostUnlessOvertaken ==
    Undisturbed /\ (\A g \in gone : g.why # "overtaken") => NothingLost

\* i was published before j by the same thread.
Earlier(i, j) == i < j /\ published[i].msg.by = published[j].msg.by

\* Within a class the messages of a thread are published in the order of the
\* calls and once, stored ones again only after a power loss before their
\* removal ("Next absolute sequence number, required to keep the queue
\* ordered", a field of the queue).  Races of two threads and errors of the
\* storage may upset the stored messages, and no others.
PublishedInClassOrder ==
    \A i, j \in DOMAIN published :
        Earlier(i, j) /\ published[i].msg.class = published[j].msg.class =>
            \/ published[i].msg.nr < published[j].msg.nr
            \/ /\ published[i].msg.class = "stored"
               /\ \/ ~Undisturbed
                  \/ published[i].msg.nr = published[j].msg.nr
                     /\ published[i].boot < published[j].boot

\* The indexes as they are once a half-done push or discard is complete.
HeadDone == IF AtW("moved_head") \/ \E t \in Senders : At(t, "moved_head")
         THEN Next1(head) ELSE head
TailDone == IF \E t \in Senders : At(t, "moved_tail") THEN Next1(tail) ELSE tail

\* The stored messages occupy exactly the ring segment from head to tail: "the
\* *missing* elements form a single contiguous arithmetic sequence" (trans.c).
StoreIsContiguous ==
    LET n == Cardinality(Occupied) IN
    Undisturbed =>
        /\ Occupied = {(HeadDone + i) % IdSpace : i \in 0 .. n - 1}
        /\ Next1(TailDone) = (HeadDone + n) % IdSpace

\* Whenever the power may be lost, the indexes that the next boot works out of
\* the ids alone are those the queue had (get_indexes, wrap-around included).
RebootFindsIndexes ==
    Undisturbed /\ Occupied # {} =>
        IndexesOf(Occupied) = [head |-> HeadDone, tail |-> TailDone]

\* Numbers given to new messages are beyond those already in use, so that new
\* messages do not overtake the stored ones, also after a reboot.
SequenceAhead ==
    Undisturbed =>
        /\ \A id \in Occupied : store[id].seq < next_seq
        /\ \A c \in RamQueues : \A m \in Range(queue[c]) : m.seq < next_seq

Empty == Occupied = {} /\ \A c \in RamQueues : queue[c] = <<>>

\* While connected, and if publishing stops failing, the queue drains, in spite
\* of the power losses and evictions there were.
Drains ==
    <>[]connected /\ <>[][~PublishFails /\ ~LookFails]_vars =>
        <>[](Undisturbed => Empty)
=============================================================================
