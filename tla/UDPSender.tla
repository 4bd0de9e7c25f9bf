----------------------------- MODULE UDPSender -----------------------------
(***************************************************************************)
(* Metrics: initializeStatsDClient (main.cpp), StatsDClient                *)
(* (metrics/StatsDClient.cpp) and the UDPSender it owns, which collects    *)
(* messages in batches that a thread of its own sends                      *)
(* (third_party/UDPSender.hpp).                                            *)
(*                                                                         *)
(* The callers are the threads of the io_context.  A batch is the sequence *)
(* of its messages, a message a number; its text is only its length.       *)
(* queueMessage takes two steps, because it takes the lock only if the     *)
(* batching thread exists; without it, two callers in it at once are a     *)
(* data race on the queue, which may lose messages from then on.           *)
(***************************************************************************)
EXTENDS Integers, Sequences, SequencesExt, FiniteSets

CONSTANTS Callers, None,
          Lengths,          \* of the messages
          MaxMessages,      \* bound of the messages
          BatchSizes,       \* values of metrics_batch_size, an int
          Intervals,        \* values of metrics_send_interval_in_millis, an int
          SizeModulus       \* 2^64: an int becomes a uint64_t

ASSUME UDPSenderAssumption ==
  /\ None \notin Callers
  /\ Lengths \subseteq Nat /\ MaxMessages \in Nat
  /\ BatchSizes \subseteq Int /\ Intervals \subseteq Int /\ SizeModulus \in Nat \ {0}

VARIABLES
  client,           \* "dummy", "real", "destroying", "destroyed", or "terminated"
  initialized, m_batchsize,
  thread,           \* what the batching thread does; "none" if there is none
  m_mustExit,
  queue, staged,    \* m_batchingMessageQueue and stagedMessageQueue
  lock,             \* the caller that holds m_batchingMutex
  inside,           \* the callers inside queueMessage, with their message
  raced,            \* two of them were, without a lock
  length,           \* of each message passed to StatsDClient::send
  accepted,         \* history: the messages queued, in order
  datagrams         \* history: the texts passed to sendto, in order

vars == <<client, initialized, m_batchsize, thread, m_mustExit, queue, staged, lock,
          inside, raced, length, accepted, datagrams>>
config == <<client, initialized, m_batchsize>>

Threads == {"none", "check", "swap", "send", "sleep", "ended"}

SenderTypeOK ==
  /\ client \in {"dummy", "real", "destroying", "destroyed", "terminated"}
  /\ initialized \in BOOLEAN /\ m_batchsize \in Nat
  /\ thread \in Threads /\ m_mustExit \in BOOLEAN /\ raced \in BOOLEAN
  /\ queue \in Seq(Seq(1 .. MaxMessages)) /\ staged \in Seq(Seq(1 .. MaxMessages))
  /\ lock \in Callers \cup {None}
  /\ inside \in [Callers -> 0 .. MaxMessages]
  /\ length \in Seq(Lengths) /\ Len(length) <= MaxMessages
  /\ accepted \in Seq(1 .. MaxMessages) /\ datagrams \in Seq(Seq(1 .. MaxMessages))

-----------------------------------------------------------------------------
\* initializeStatsDClient and the constructor of StatsDClient: without
\* STATSD_SERVER, a colon in it or a number after it, metrics are ignored.
initializeStatsDClient(endpoint) == IF endpoint = "host:port" THEN "real" ELSE "dummy"

\* The constructor: a host that is empty or cannot be resolved leaves the sender
\* uninitialized, and there is a thread only if it can send and may wait.
Init ==
  /\ \E endpoint \in {"", "no_colon", "no_number", "host:port"} :
       client = initializeStatsDClient(endpoint)
  /\ initialized \in IF client = "real" THEN BOOLEAN ELSE {FALSE}
  /\ \E size \in BatchSizes, interval \in Intervals :
       /\ m_batchsize = size % SizeModulus
       /\ thread = IF initialized /\ size # 0 /\ interval # 0 THEN "check" ELSE "none"
  /\ m_mustExit = FALSE
  /\ queue = <<>> /\ staged = <<>>
  /\ lock = None /\ inside = [c \in Callers |-> 0] /\ raced = FALSE
  /\ length = <<>> /\ accepted = <<>> /\ datagrams = <<>>

joinable == thread # "none"

Total(lengths) ==
  LET sum[n \in 0 .. Len(lengths)] ==
        IF n = 0 THEN 0 ELSE sum[n - 1] + lengths[n]
  IN sum[Len(lengths)]

\* The text of a batch: its messages, separated by newlines.
BatchLength(batch) ==
  Total([i \in DOMAIN batch |-> length[batch[i]]]) + Len(batch) - 1

\* sendto, which may fail: the error is kept in m_errorMessage and the text is
\* not sent again.
sendToDaemon(batch) == datagrams' = Append(datagrams, batch)

-----------------------------------------------------------------------------
(* StatsDClient::increment, gauge and the like, and UDPSender::send.       *)

\* A message is sent at once, or the caller enters queueMessage.
send(c, len) ==
  /\ client = "real" /\ inside[c] = 0 /\ Len(length) < MaxMessages
  /\ length' = Append(length, len)
  /\ IF m_batchsize > 0
     THEN /\ joinable => lock = None
          /\ lock' = IF joinable THEN c ELSE lock
          /\ inside' = [inside EXCEPT ![c] = Len(length) + 1]
          /\ raced' = (raced \/ (~joinable /\ \E d \in Callers : inside[d] # 0))
          /\ UNCHANGED datagrams
     ELSE /\ sendToDaemon(<<Len(length) + 1>>)
          /\ UNCHANGED <<lock, inside, raced>>
  /\ UNCHANGED <<config, thread, m_mustExit, queue, staged, accepted>>

\* Mutant: a batch of exactly m_batchsize is full.
Mutant_Full(batch) == BatchLength(batch) >= m_batchsize

Full(batch) == BatchLength(batch) > m_batchsize

\* A batch is opened if there is none or the last one is full; reserve throws if
\* the size is not one that a string can have.
Opens == queue # <<>> => Full(Last(queue))
max_size == SizeModulus \div 2 - 1
reserve_throws == Opens /\ (m_batchsize + 256) % SizeModulus > max_size

queueMessage(c) ==
  /\ inside[c] # 0 /\ ~reserve_throws
  /\ \/ queue' = IF Opens
                 THEN Append(queue, <<inside[c]>>)
                 ELSE Append(Front(queue), Append(Last(queue), inside[c]))
     \/ raced /\ UNCHANGED queue
  /\ accepted' = Append(accepted, inside[c])
  /\ inside' = [inside EXCEPT ![c] = 0]
  /\ lock' = IF lock = c THEN None ELSE lock
  /\ UNCHANGED <<config, thread, m_mustExit, staged, raced, length, datagrams>>

\* The exception cannot leave queueMessage, which is noexcept: the program ends,
\* and all of its threads with it.
queueMessage_terminates(c) ==
  /\ inside[c] # 0 /\ reserve_throws
  /\ client' = "terminated"
  /\ thread' = IF joinable THEN "ended" ELSE "none"
  /\ inside' = [d \in Callers |-> 0] /\ lock' = None
  /\ UNCHANGED <<initialized, m_batchsize, m_mustExit, queue, staged, raced, length,
                 accepted, datagrams>>

-----------------------------------------------------------------------------
(* The batching thread.                                                    *)

\* Mutant: the thread swaps without the lock.
Mutant_swap ==
  /\ thread = "swap"
  /\ staged' = queue
  /\ \E rest \in {<<>>, queue} : queue' = rest
  /\ thread' = "send"
  /\ UNCHANGED <<config, m_mustExit, lock, inside, raced, length, accepted, datagrams>>

check ==
  /\ thread = "check"
  /\ thread' = IF m_mustExit THEN "ended" ELSE "swap"
  /\ UNCHANGED <<config, m_mustExit, queue, staged, lock, inside, raced, length,
                 accepted, datagrams>>

swap ==
  /\ thread = "swap" /\ lock = None
  /\ staged' = queue /\ queue' = <<>>
  /\ thread' = "send"
  /\ UNCHANGED <<config, m_mustExit, lock, inside, raced, length, accepted, datagrams>>

sendStaged ==
  /\ thread = "send"
  /\ IF staged = <<>>
     THEN thread' = "sleep" /\ UNCHANGED <<staged, datagrams>>
     ELSE sendToDaemon(Head(staged)) /\ staged' = Tail(staged) /\ UNCHANGED thread
  /\ UNCHANGED <<config, m_mustExit, queue, lock, inside, raced, length, accepted>>

\* Mutant: the thread goes on with the next batch without looking at m_mustExit.
Mutant_sleep ==
  /\ thread = "sleep" /\ thread' = "swap"
  /\ UNCHANGED <<config, m_mustExit, queue, staged, lock, inside, raced, length,
                 accepted, datagrams>>

sleep ==
  /\ thread = "sleep" /\ thread' = "check"
  /\ UNCHANGED <<config, m_mustExit, queue, staged, lock, inside, raced, length,
                 accepted, datagrams>>

BatchingThread == check \/ swap \/ sendStaged \/ sleep

-----------------------------------------------------------------------------
(* The destructor: main destroys the client after the I/O threads ended.   *)
(* What is still queued is not sent.                                       *)

destroy ==
  /\ client = "real" /\ \A c \in Callers : inside[c] = 0
  /\ IF initialized /\ joinable
     THEN client' = "destroying" /\ m_mustExit' = TRUE
     ELSE client' = "destroyed" /\ UNCHANGED m_mustExit
  /\ UNCHANGED <<initialized, m_batchsize, thread, queue, staged, lock, inside, raced,
                 length, accepted, datagrams>>

join ==
  /\ client = "destroying" /\ thread = "ended"
  /\ client' = "destroyed"
  /\ UNCHANGED <<initialized, m_batchsize, thread, m_mustExit, queue, staged, lock,
                 inside, raced, length, accepted, datagrams>>

Over == client \in {"dummy", "destroyed", "terminated"} /\ UNCHANGED vars

Next ==
  \/ \E c \in Callers : \/ queueMessage(c) \/ queueMessage_terminates(c)
                        \/ \E len \in Lengths : send(c, len)
  \/ check \/ swap \/ sendStaged \/ sleep
  \/ destroy \/ join
  \/ Over

\* Threads that can go on do; the lock is given to everyone who keeps asking.
Fairness ==
  /\ WF_vars(BatchingThread) /\ SF_vars(swap) /\ WF_vars(join)
  /\ \A c \in Callers : WF_vars(queueMessage(c) \/ queueMessage_terminates(c))

Spec == Init /\ [][Next]_vars /\ Fairness

-----------------------------------------------------------------------------
(* Properties.                                                             *)

\* Every message that was queued is handed to sendto once, in the order of
\* queueing, or still waits in its place: none is lost by the exchange of the
\* queues, duplicated or overtaken, however many threads send.
MessagesAreConserved ==
  (m_batchsize > 0 /\ ~raced) =>
    FlattenSeq(datagrams \o staged \o queue) = accepted

\* Batches are as large as m_batchsize asks: only the last of the queue may have
\* room, and none would have been full before its last message.
BatchesAreFull ==
  ~raced =>
    /\ \A i \in 1 .. Len(queue) - 1 : BatchLength(queue[i]) > m_batchsize
    /\ \A i \in DOMAIN queue :
         Len(queue[i]) > 1 => BatchLength(Front(queue[i])) <= m_batchsize

\* With a batching thread no two callers are in the queue at the same time.
QueueIsLocked ==
  joinable =>
    /\ ~raced
    /\ \A c, d \in Callers : inside[c] # 0 /\ inside[d] # 0 => c = d

\* With a batching thread the queue is locked, every queued message goes out
\* unless the client is destroyed or the program terminated first, and the
\* destructor returns.
SenderMakesProgress ==
  /\ []QueueIsLocked
  /\ \A m \in 1 .. MaxMessages :
       (joinable /\ m \in ToSet(accepted))
         ~> (m \in ToSet(FlattenSeq(datagrams)) \/ client # "real")
  /\ client = "destroying" ~> client = "destroyed"
=============================================================================
