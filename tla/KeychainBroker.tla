--------------------------- MODULE KeychainBroker ---------------------------
(***************************************************************************)
(* The broker of the Keychain (usage-daemon/src/keychain.rs) for one item: *)
(* callers queue requests with a deadline, one thread serves them in turn  *)
(* through a helper process that may be killed, and keeps what it read.    *)
(* Other applications read and write the item as they please, and macOS    *)
(* may want to ask the user before it is read (guarded).                   *)
(***************************************************************************)
EXTENDS Integers, Sequences, SequencesExt

CONSTANTS
  KeychainCallers,
  Operations,     \* the requests that are made: a subset of Operation
  QueueCapacity,  \* QUEUE_CAPACITY
  MaxRequests,    \* bound on the requests
  MaxOutside,     \* bound on what other applications and the user do
  MaxSteps        \* bound on both together

Reads == {"get", "revalidate", "authorize"}
Mutations == {"set", "create", "replace", "delete"}
Operation == Reads \union Mutations \union {"invalidate"}
ASSUME BrokerAssumption ==
  /\ Operations \subseteq Operation /\ QueueCapacity \in Nat \ {0}
  /\ MaxRequests \in Nat /\ MaxOutside \in Nat /\ MaxSteps \in Nat

VARIABLES
  contents,      \* all that the item ever held, 0 while there is none
  guarded,       \* silent reads and writes are refused
  channel,       \* the bounded channel of requests
  moved,         \* requests the broker has moved from it (its own pending queue)
  broker,        \* what the thread does: the request, how far, its result
  cache,         \* read_cache
  calls,         \* what each caller waits for, or was answered
  outside,       \* what others did so far
  asked,         \* requests that were queued so far
  writes,        \* history: those of them that write
  acknowledged,  \* history: where contents has the last write that was confirmed
  granted        \* history: a read was allowed by the user, and nothing has ended that

brokerVars == <<contents, guarded, channel, moved, broker, cache, calls, outside, asked, writes, acknowledged, granted>>
queues == <<channel, moved>>
histories == <<asked, writes, acknowledged, granted>>

Nothing == [is |-> "nothing"]
Value(v) == [is |-> "value", v |-> v]       \* Value(0) is Response::Missing
Plain(what) == [is |-> what]
Content == Last(contents)

BrokerInit ==
  /\ contents \in {<<0>>, <<1>>} /\ guarded \in BOOLEAN
  /\ channel = <<>> /\ moved = <<>> /\ broker = Nothing /\ cache = Nothing
  /\ calls = [c \in KeychainCallers |-> Nothing] /\ outside = 0
  /\ asked = 0 /\ writes = {} /\ acknowledged = 0 /\ granted = FALSE
-----------------------------------------------------------------------------
Known(c) == IF calls[c].is = "answered" /\ calls[c].result.is = "value" THEN {calls[c].result.v} \ {0} ELSE {}

(* The requests that c may make: it sets what is new or what it read, and  *)
(* replaces only what it read.                                             *)
RequestsOf(c) ==
  UNION {[op : {op}, n : {asked + 1}, by : {c},
          new : (IF op \in {"set", "create", "replace"} THEN {asked + 2} ELSE {0})
                \union (IF op = "set" THEN Known(c) ELSE {}),
          old : IF op = "replace" THEN Known(c) ELSE {0}] : op \in Operations}

(* Broker::invoke: try_send, or a full queue.                              *)
Invoke(c) ==
  /\ calls[c].is # "waiting" /\ asked < MaxRequests /\ asked + outside < MaxSteps
  /\ \E e \in RequestsOf(c) :
       /\ IF Len(channel) < QueueCapacity
          THEN /\ channel' = Append(channel, e) /\ asked' = e.n
               /\ writes' = IF e.op \in Mutations THEN writes \union {e.n} ELSE writes
               /\ calls' = [calls EXCEPT ![c] = [is |-> "waiting", n |-> e.n, op |-> e.op, floor |-> acknowledged]]
          ELSE /\ calls' = [calls EXCEPT ![c] = Plain("queue full")]
               /\ UNCHANGED <<channel, asked, writes>>
  /\ UNCHANGED <<contents, guarded, moved, broker, cache, outside, acknowledged, granted>>

(* Its deadline passes, whether or not a helper was started for it.        *)
GiveUp(c) ==
  /\ calls[c].is = "waiting"
  /\ calls' = [calls EXCEPT ![c] = Plain("timeout")]
  /\ UNCHANGED <<contents, guarded, queues, broker, cache, outside, histories>>

Waits(e) == calls[e.by].is = "waiting" /\ calls[e.by].n = e.n
Answers(es, result, from) ==
  [c \in KeychainCallers |->
     IF ~ \E e \in es : e.by = c /\ Waits(e) THEN calls[c]
     ELSE IF calls[c].op \notin Reads THEN Plain("done")
     ELSE [is |-> "answered", op |-> calls[c].op, floor |-> calls[c].floor, result |-> result,
           allowed |-> granted, overtook |-> \E k \in writes : from < k /\ k < calls[c].n]]
-----------------------------------------------------------------------------
(* What is answered without a helper: a read that is recent, a write of    *)
(* what is known to be there, and every invalidation.                      *)
Cached(e) ==
  CASE e.op = "get" /\ cache # Nothing /\ cache.recent -> cache.response
    [] e.op = "set" /\ cache # Nothing /\ cache.response = Value(e.new) -> Plain("ok")
    [] e.op = "invalidate" -> Plain("ok")
    [] OTHER -> Nothing

(* Mutant: what was read is kept when the item is written.                 *)
KeepRead(e, result) ==
  CASE e.op \in Reads /\ result # Value(0) /\ result.is \in {"value", "denied"} ->
         [is |-> "cached", response |-> result, recent |-> TRUE]
    [] (e.op \in Reads /\ result = Value(0)) \/ e.op = "invalidate" -> Nothing
    [] OTHER -> cache

(* update_read_cache: a mutation that failed leaves the item uncertain.    *)
Updated(e, result) ==
  CASE e.op \in Reads /\ result # Value(0) /\ result.is \in {"value", "denied"} ->
         [is |-> "cached", response |-> result, recent |-> TRUE]
    [] e.op \in Mutations \ {"delete"} /\ result.is = "ok" -> [is |-> "cached", response |-> Value(e.new), recent |-> TRUE]
    [] e.op \in Reads /\ result.is \notin {"value", "denied"} -> cache
    [] OTHER -> Nothing

(* "Allow once": a value at hand outlives a refusal to read it again.      *)
Usable(e, result) ==
  IF /\ e.op \in {"get", "revalidate"} /\ result.is = "denied"
     /\ cache # Nothing /\ cache.response.is = "value"
  THEN cache.response ELSE result

Granted(e, result) ==
  CASE e.op = "authorize" /\ result.is = "value" /\ result # Value(0) -> TRUE
    [] e.op \in {"get", "revalidate"} /\ result # Value(0) -> granted
    [] OTHER -> FALSE

(* The thread takes the next request, its own queue first, and leaves one  *)
(* whose deadline has passed.                                              *)
Take ==
  /\ broker = Nothing /\ moved \o channel # <<>>
  /\ LET e == Head(moved \o channel) IN
     /\ IF moved # <<>> THEN moved' = Tail(moved) /\ UNCHANGED channel
                        ELSE channel' = Tail(channel) /\ UNCHANGED moved
     /\ \/ ~Waits(e) /\ UNCHANGED <<broker, cache, calls, granted>>
        \/ /\ Waits(e) /\ Cached(e) = Nothing
           /\ broker' = [is |-> "started", e |-> e]
           /\ UNCHANGED <<cache, calls, granted>>
        \/ /\ Waits(e) /\ Cached(e) # Nothing
           /\ calls' = Answers({e}, Cached(e), e.n)
           /\ cache' = IF e.op = "invalidate" THEN Nothing ELSE cache
           /\ granted' = (granted /\ e.op # "invalidate")
           /\ broker' = [is |-> "answered", e |-> e, result |-> Cached(e)]
  /\ UNCHANGED <<contents, guarded, outside, asked, writes, acknowledged>>

(* The helper has ended, with an answer or killed at the deadline.         *)
Answer ==
  /\ broker.is = "ended"
  /\ LET e == broker.e
         result == Usable(e, broker.result)
     IN /\ calls' = Answers({e}, result, e.n)
        /\ cache' = Updated(e, result)
        /\ granted' = Granted(e, result)
        /\ acknowledged' = IF e.op \in Mutations /\ result.is = "ok" THEN broker.place ELSE acknowledged
        /\ broker' = [is |-> "answered", e |-> e, result |-> result]
  /\ UNCHANGED <<contents, guarded, queues, outside, asked, writes>>

(* Then the channel is emptied: reads that came in the meantime share the  *)
(* result of a read, up to the first request that cannot.                  *)
Shares(e) == e.op = "get" /\ broker.e.op = "get" /\ Waits(e)
Drain ==
  /\ broker.is = "answered"
  /\ LET first == SelectInSeq(channel, LAMBDA e : ~Shares(e))
         until == IF first = 0 THEN Len(channel) ELSE first - 1
     IN /\ calls' = Answers({channel[i] : i \in 1 .. until}, broker.result, broker.e.n)
        /\ moved' = moved \o SubSeq(channel, until + 1, Len(channel))
  /\ channel' = <<>> /\ broker' = Nothing
  /\ UNCHANGED <<contents, guarded, cache, outside, histories>>
-----------------------------------------------------------------------------
(* perform, in the helper.                                                 *)
Ended(result, place) == broker' = [is |-> "ended", e |-> broker.e, result |-> result, place |-> place]
Left == UNCHANGED <<guarded, queues, cache, calls, outside, histories>>

HelperReads ==
  /\ broker.is = "started" /\ broker.e.op \in Reads
  /\ \/ (guarded => broker.e.op = "authorize") /\ Ended(Value(Content), 0)
     \/ guarded /\ Ended(Plain("denied"), 0)
  /\ Left /\ UNCHANGED contents

(* write_password and the comparison of a compare-and-set look at the item *)
(* first; an application that does not take the lock may change it before  *)
(* it is written.                                                          *)
HelperChecks ==
  /\ broker.is = "started" /\ broker.e.op \in {"set", "replace"}
  /\ LET e == broker.e IN
     \/ guarded /\ Ended(Plain("denied"), 0)
     \/ /\ ~guarded /\ e.op = "set" /\ Content = e.new /\ Ended(Plain("ok"), Len(contents))
     \/ /\ ~guarded /\ e.op = "replace" /\ Content # e.old
        /\ Ended(IF Content = 0 THEN Value(0) ELSE Plain("conflict"), 0)
     \/ /\ ~guarded /\ (IF e.op = "set" THEN Content # e.new ELSE Content = e.old)
        /\ broker' = [broker EXCEPT !.is = "checked"]
  /\ Left /\ UNCHANGED contents

(* create_password only inserts; a deletion needs no look either.          *)
HelperWrites ==
  /\ \/ broker.is = "checked"
     \/ broker.is = "started" /\ broker.e.op \in {"create", "delete"}
  /\ \/ guarded /\ Ended(Plain("denied"), 0) /\ UNCHANGED contents
     \/ ~guarded /\ broker.e.op = "create" /\ Content # 0 /\ Ended(Plain("conflict"), 0) /\ UNCHANGED contents
     \/ ~guarded /\ (broker.e.op = "create" => Content = 0)
        /\ contents' = Append(contents, broker.e.new)
        /\ Ended(Plain("ok"), Len(contents'))
  /\ Left

(* invoke_helper_command: the helper fails, or is killed at the deadline,  *)
(* before or after it has changed the item.                                *)
HelperFails ==
  /\ broker.is \in {"started", "checked", "ended"}
  /\ broker.is = "ended" => broker.result.is # "failed"
  /\ Ended(Plain("failed"), 0)
  /\ Left /\ UNCHANGED contents

(* The cached read passes CACHE_REVALIDATION_INTERVAL.                     *)
CacheAges ==
  /\ cache # Nothing /\ cache.recent
  /\ cache' = [cache EXCEPT !.recent = FALSE]
  /\ UNCHANGED <<contents, guarded, queues, broker, calls, outside, histories>>

(* Another application writes or deletes the item, or access changes.      *)
Outside ==
  /\ outside < MaxOutside /\ asked + outside < MaxSteps
  /\ outside' = outside + 1
  /\ \/ \E v \in {0, MaxRequests + 2 + outside} \ {Content} :
          contents' = Append(contents, v) /\ UNCHANGED guarded
     \/ guarded' = ~guarded /\ UNCHANGED contents
  /\ UNCHANGED <<queues, broker, cache, calls, histories>>

BrokerNext ==
  \/ \E c \in KeychainCallers : Invoke(c) \/ GiveUp(c)
  \/ Take \/ Answer \/ Drain
  \/ HelperReads \/ HelperChecks \/ HelperWrites \/ HelperFails
  \/ CacheAges \/ Outside

BrokerSpec == BrokerInit /\ [][BrokerNext]_brokerVars
-----------------------------------------------------------------------------
WasAnswered(c) == calls[c].is = "answered"

(* A read never answers with what the item held before a write that was    *)
(* confirmed by the time the read was asked for, however many caches,      *)
(* shared answers and killed helpers lie in between (run_broker).          *)
AcknowledgedWritesSeen ==
  \A c \in KeychainCallers :
    WasAnswered(c) /\ calls[c].result.is = "value" =>
      \E i \in DOMAIN contents : i >= calls[c].floor /\ contents[i] = calls[c].result.v

(* What the user allowed once is not asked for again: no silent read is    *)
(* refused until a write, an invalidation or another question to the user  *)
(* that is declined ends it (run_broker).                                  *)
AllowOnceHolds ==
  \A c \in KeychainCallers :
    WasAnswered(c) /\ calls[c].op \in {"get", "revalidate"} /\ calls[c].allowed => calls[c].result.is # "denied"

(* Reads through the broker see its writes and need no second permission.  *)
BrokerSound == AcknowledgedWritesSeen /\ AllowOnceHolds

(* "In particular, a read queued after a write must never reuse the        *)
(* preceding read result." (keychain.rs, run_broker)                       *)
ReadsInOrder ==
  \A c \in KeychainCallers : WasAnswered(c) => ~calls[c].overtook

BrokerTypeOK ==
  /\ guarded \in BOOLEAN /\ granted \in BOOLEAN
  /\ Len(channel) <= QueueCapacity /\ acknowledged \in 0 .. Len(contents)
  /\ broker.is \in {"nothing", "started", "checked", "ended", "answered"}
  /\ \A c \in KeychainCallers : calls[c].is \in {"nothing", "waiting", "answered", "done", "timeout", "queue full"}
=============================================================================
