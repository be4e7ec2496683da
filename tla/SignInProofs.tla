---------------------------- MODULE SignInProofs ----------------------------
(***************************************************************************)
(* Proofs about the sign-ins that are shared: through the broker of the    *)
(* Keychain, among the tasks that refresh Claude's, and by sessions that   *)
(* are opened for an account; and about what is reported of an account by  *)
(* several sources, by Codex and by Cursor, and shown of several accounts. *)
(***************************************************************************)
EXTENDS MCParts, FiniteSetTheorems, SequenceTheorems, WellFoundedInduction, TLAPS

(* The Keychain's broker: what a request, an answer and a cached read are. *)
Results == [is : {"value"}, v : Nat] \union [is : {"ok", "denied", "conflict", "failed"}]
Request == [op : Operation, n : Nat, by : KeychainCallers, new : Nat, old : Nat]
CallState ==
  [is : {"nothing", "queue full", "timeout", "done"}]
    \union [is : {"waiting"}, n : Nat, op : Operation, floor : Nat]
    \union [is : {"answered"}, op : Reads, floor : Nat, result : Results, allowed : BOOLEAN, overtook : BOOLEAN]
Serving ==
  {Nothing} \union [is : {"started", "checked"}, e : Request]
    \union [is : {"ended"}, e : Request, result : Results, place : Nat]
    \union [is : {"answered"}, e : Request, result : Results]

BrokerTypes ==
  /\ contents \in Seq(Nat) /\ contents # <<>>
  /\ guarded \in BOOLEAN /\ granted \in BOOLEAN
  /\ channel \in Seq(Request) /\ moved \in Seq(Request)
  /\ broker \in Serving
  /\ cache \in {Nothing} \union [is : {"cached"}, response : Results, recent : BOOLEAN]
  /\ calls \in [KeychainCallers -> CallState]
  /\ asked \in Nat /\ acknowledged \in 0 .. Len(contents)

(* A caller that waits waits for its last request, and was told of no      *)
(* write that is not confirmed.                                            *)
MadeSoFar(e) == e.n <= asked /\ (Waits(e) => calls[e.by].op = e.op)
Pending ==
  {channel[i] : i \in DOMAIN channel} \union {moved[i] : i \in DOMAIN moved}
    \union (IF broker = Nothing THEN {} ELSE {broker.e})
RequestsAreMade == \A e \in Pending : MadeSoFar(e)
FloorsAreConfirmed == \A c \in KeychainCallers : calls[c].is = "waiting" => calls[c].floor <= acknowledged

(* A value that was read is not older than the last write that was         *)
(* confirmed, and neither is what is cached; a write that has ended well   *)
(* is where it is said to be.                                              *)
UpToDate(result) ==
  result.is = "value" => \E i \in DOMAIN contents : acknowledged <= i /\ contents[i] = result.v
ResultsAreUpToDate ==
  /\ broker.is = "ended" => UpToDate(broker.result)
  /\ broker.is = "answered" /\ broker.e.op = "get" => UpToDate(broker.result)
  /\ cache # Nothing => UpToDate(cache.response)
WritesAreThere ==
  broker.is = "ended" /\ broker.e.op \in Mutations /\ broker.result.is = "ok" =>
    /\ broker.place \in DOMAIN contents /\ acknowledged <= broker.place
    /\ contents[broker.place] = broker.e.new

(* While a read is allowed there is a value to answer silent reads with.   *)
AllowedIsCached ==
  granted => /\ cache # Nothing /\ cache.response.is = "value"
             /\ broker.is = "answered" /\ broker.e.op = "get" => broker.result.is # "denied"

BrokerInv ==
  /\ BrokerTypes /\ RequestsAreMade /\ FloorsAreConfirmed
  /\ ResultsAreUpToDate /\ WritesAreThere /\ AllowedIsCached
  /\ BrokerSound

(* What the broker is at, from what it says it is.                         *)
LEMMA ServingShapes ==
  ASSUME BrokerTypes
  PROVE  /\ broker.is \in {"nothing", "started", "checked", "ended", "answered"}
         /\ broker = Nothing <=> broker.is = "nothing"
         /\ broker # Nothing => broker.e \in Request
         /\ broker.is \in {"started", "checked"} => broker = [is |-> broker.is, e |-> broker.e]
         /\ broker.is \in {"ended", "answered"} => broker.result \in Results
         /\ broker.is = "ended" => broker.place \in Nat
  BY DEF BrokerTypes, Serving, Nothing

(* Whatever is queued, put off or served is a request.                     *)
LEMMA PendingTyped == ASSUME BrokerTypes PROVE Pending \subseteq Request
<1>1. \A i \in DOMAIN channel : channel[i] \in Request
  BY DEF BrokerTypes
<1>2. \A i \in DOMAIN moved : moved[i] \in Request
  BY DEF BrokerTypes
<1>3. broker # Nothing => broker.e \in Request
  BY ServingShapes
<1> QED
  BY <1>1, <1>2, <1>3 DEF Pending

(* What a call holds, from what it says it is.                             *)
LEMMA CallShapes ==
  ASSUME BrokerTypes, NEW c \in KeychainCallers
  PROVE  /\ calls[c] \in CallState
         /\ calls[c].is = "waiting" => calls[c].n \in Nat /\ calls[c].op \in Operation /\ calls[c].floor \in Nat
         /\ calls[c].is = "answered" => calls[c].op \in Reads /\ calls[c].floor \in Nat /\ calls[c].result \in Results
<1>1. calls[c] \in CallState
  BY DEF BrokerTypes
<1>2. CASE calls[c] \in [is : {"nothing", "queue full", "timeout", "done"}]
  <2>1. calls[c].is \in {"nothing", "queue full", "timeout", "done"}
    BY <1>2
  <2> QED
    BY <1>1, <2>1
<1>3. CASE calls[c] \in [is : {"waiting"}, n : Nat, op : Operation, floor : Nat]
  BY <1>1, <1>3
<1>4. CASE calls[c] \in [is : {"answered"}, op : Reads, floor : Nat, result : Results, allowed : BOOLEAN, overtook : BOOLEAN]
  BY <1>1, <1>4
<1> QED
  BY <1>1, <1>2, <1>3, <1>4 DEF CallState

(* What is cached, if anything, is a response.                             *)
LEMMA CacheShapes ==
  ASSUME BrokerTypes, cache # Nothing
  PROVE  cache.response \in Results /\ cache.recent \in BOOLEAN /\ cache.is = "cached"
  BY DEF BrokerTypes

(* Only a value that was read carries one.                                 *)
LEMMA ResultShapes ==
  ASSUME NEW r \in Results
  PROVE  /\ r.is \in {"value", "ok", "denied", "conflict", "failed"}
         /\ r.is = "value" => r.v \in Nat /\ r = Value(r.v)
         /\ r # Nothing
  BY DEF Results, Value, Plain, Nothing

(* The content of the Keychain is what was written last.                   *)
LEMMA ContentIsLast ==
  ASSUME BrokerTypes
  PROVE  /\ Content = contents[Len(contents)] /\ Len(contents) \in DOMAIN contents /\ Content \in Nat
         /\ UpToDate(Value(Content))
<1>1. contents \in Seq(Nat) /\ contents # <<>> /\ acknowledged \in 0 .. Len(contents)
  BY DEF BrokerTypes
<1>2. Len(contents) \in Nat /\ Len(contents) >= 1 /\ DOMAIN contents = 1 .. Len(contents)
  BY <1>1
<1>3. Content = contents[Len(contents)]
  BY DEF Content, Last
<1> QED
  BY <1>1, <1>2, <1>3 DEF UpToDate, Value

(* Appending to what the item held keeps results up to date.               *)
LEMMA GrowingKeeps ==
  ASSUME BrokerTypes, NEW v \in Nat, contents' = Append(contents, v), acknowledged' = acknowledged, NEW r
  PROVE  /\ contents' \in Seq(Nat) /\ contents' # <<>> /\ Len(contents') = Len(contents) + 1 /\ acknowledged' \in 0 .. Len(contents')
         /\ \A i \in DOMAIN contents : i \in DOMAIN contents' /\ contents'[i] = contents[i]
         /\ Len(contents') \in DOMAIN contents' /\ contents'[Len(contents')] = v /\ acknowledged <= Len(contents')
<1>1. contents \in Seq(Nat) /\ acknowledged \in 0 .. Len(contents)
  BY DEF BrokerTypes
<1> QED
  BY <1>1


Extends == \A i \in DOMAIN contents : i \in DOMAIN contents' /\ contents'[i] = contents[i]

(* A value that is up to date stays so while contents grow and no more is  *)
(* acknowledged.                                                           *)
LEMMA StaysUpToDate ==
  ASSUME Extends, acknowledged' = acknowledged, NEW r, UpToDate(r)
  PROVE  UpToDate(r)'
  BY DEF Extends, UpToDate

(* The calls that are answered now, and those that were before.            *)
AnsweredWell(c) ==
  /\ calls[c].result.is = "value" => \E i \in DOMAIN contents : i >= calls[c].floor /\ contents[i] = calls[c].result.v
  /\ calls[c].op \in {"get", "revalidate"} /\ calls[c].allowed => calls[c].result.is # "denied"

(* Answers that were sound stay so while contents only grow.               *)
LEMMA AnswersStaySound ==
  ASSUME BrokerSound, Extends,
         \A c \in KeychainCallers : calls'[c] = calls[c] \/ calls'[c].is # "answered" \/ AnsweredWell(c)'
  PROVE  BrokerSound'
<1>1. ASSUME NEW c \in KeychainCallers, calls'[c].is = "answered" PROVE AnsweredWell(c)'
  <2>1. CASE calls'[c] = calls[c]
    <3>1. AnsweredWell(c)
      BY <1>1, <2>1 DEF BrokerSound, AcknowledgedWritesSeen, AllowOnceHolds, WasAnswered, AnsweredWell
    <3> QED
      BY <2>1, <3>1 DEF AnsweredWell, Extends
  <2> QED
    BY <1>1, <2>1
<1> QED
  BY <1>1 DEF BrokerSound, AcknowledgedWritesSeen, AllowOnceHolds, WasAnswered, AnsweredWell

(* Calls that end leave the others waiting for what they did.              *)
LEMMA EndingKeepsMade ==
  ASSUME BrokerTypes, NEW e \in Request, MadeSoFar(e), asked' = asked,
         \A c \in KeychainCallers : calls'[c] = calls[c] \/ calls'[c].is # "waiting"
  PROVE  MadeSoFar(e)'
<1>1. e.by \in KeychainCallers
  BY DEF Request
<1>2. CASE calls'[e.by] = calls[e.by]
  BY <1>2 DEF MadeSoFar, Waits
<1>3. CASE calls'[e.by].is # "waiting"
  BY <1>3 DEF MadeSoFar, Waits
<1> QED
  BY <1>1, <1>2, <1>3

(* Ending a call changes no floor of another.                              *)
LEMMA EndingKeepsFloors ==
  ASSUME FloorsAreConfirmed, acknowledged \in Nat, acknowledged' \in Nat, acknowledged <= acknowledged', BrokerTypes,
         \A c \in KeychainCallers : calls'[c] = calls[c] \/ calls'[c].is # "waiting"
  PROVE  FloorsAreConfirmed'
<1> SUFFICES ASSUME NEW c \in KeychainCallers, calls'[c].is = "waiting" PROVE calls'[c].floor <= acknowledged'
  BY DEF FloorsAreConfirmed
<1>1. calls'[c] = calls[c] /\ calls[c].is = "waiting"
  OBVIOUS
<1>2. calls[c].floor \in Nat /\ calls[c].floor <= acknowledged
  BY <1>1, CallShapes DEF FloorsAreConfirmed
<1> QED
  BY <1>1, <1>2

(* Answers: calls that waited for one of the requests end.                 *)
LEMMA AnswersEndCalls ==
  ASSUME BrokerTypes, FloorsAreConfirmed, NEW es \in SUBSET Request, \A e \in es : MadeSoFar(e), NEW result \in Results, NEW from,
         calls' = Answers(es, result, from)
  PROVE  /\ calls' \in [KeychainCallers -> CallState]
         /\ \A c \in KeychainCallers : calls'[c] = calls[c] \/ calls'[c].is # "waiting"
         /\ \A c \in KeychainCallers : calls'[c].is = "answered" /\ calls'[c] # calls[c] =>
              /\ calls'[c].result = result /\ calls'[c].floor <= acknowledged /\ calls'[c].floor \in Nat
              /\ calls'[c].allowed = granted
              /\ \E e \in es : calls'[c].op = e.op
<1>1. ASSUME NEW c \in KeychainCallers
      PROVE  /\ calls'[c] \in CallState
             /\ calls'[c] = calls[c] \/ calls'[c].is # "waiting"
             /\ calls'[c].is = "answered" /\ calls'[c] # calls[c] =>
                  /\ calls'[c].result = result /\ calls'[c].floor <= acknowledged /\ calls'[c].floor \in Nat
                  /\ calls'[c].allowed = granted
                  /\ \E e \in es : calls'[c].op = e.op
  <2>1. CASE ~ \E e \in es : e.by = c /\ Waits(e)
    <3>1. calls'[c] = calls[c]
      BY <2>1 DEF Answers
    <3> QED
      BY <3>1, CallShapes
  <2>2. CASE \E e \in es : e.by = c /\ Waits(e)
    <3>1. PICK e \in es : e.by = c /\ Waits(e)
      BY <2>2
    <3>2. calls[c].is = "waiting" /\ calls[c].op = e.op
      BY <3>1 DEF MadeSoFar, Waits
    <3>3. calls[c].floor \in Nat /\ calls[c].floor <= acknowledged /\ calls[c].op \in Operation
      BY <3>2, CallShapes DEF FloorsAreConfirmed
    <3>4. CASE calls[c].op \notin Reads
      <4>1. calls'[c] = Plain("done")
        BY <2>2, <3>4 DEF Answers
      <4>2. calls'[c].is = "done" /\ calls'[c] \in CallState
        BY <4>1 DEF Plain, CallState
      <4> QED
        BY <4>2
    <3>5. CASE calls[c].op \in Reads
      <4>1. PICK b \in BOOLEAN : calls'[c] = [is |-> "answered", op |-> calls[c].op, floor |-> calls[c].floor, result |-> result,
                                              allowed |-> granted, overtook |-> b]
        <5> DEFINE b == \E k \in writes : from < k /\ k < calls[c].n
        <5>1. calls'[c] = [is |-> "answered", op |-> calls[c].op, floor |-> calls[c].floor, result |-> result,
                           allowed |-> granted, overtook |-> b]
          BY <2>2, <3>5 DEF Answers
        <5>2. b \in BOOLEAN
          OBVIOUS
        <5> HIDE DEF b
        <5> QED
          BY <5>1, <5>2
      <4>2. granted \in BOOLEAN
        BY DEF BrokerTypes
      <4>3. calls'[c] \in CallState
        <5>1. [is |-> "answered", op |-> calls[c].op, floor |-> calls[c].floor, result |-> result, allowed |-> granted, overtook |-> b]
                \in [is : {"answered"}, op : Reads, floor : Nat, result : Results, allowed : BOOLEAN, overtook : BOOLEAN]
          BY <3>3, <3>5, <4>2
        <5> QED
          BY <4>1, <5>1 DEF CallState
      <4> QED
        BY <3>1, <3>2, <3>3, <4>1, <4>3
    <3> QED
      BY <3>4, <3>5
  <2> QED
    BY <2>1, <2>2
<1>2. calls' = [c \in KeychainCallers |-> calls'[c]]
  BY DEF Answers
<1> QED
  BY <1>1, <1>2


(* The requests of queue and broker are typed wherever they are taken      *)
(* from.                                                                   *)
LEMMA RequestsAreTyped ==
  ASSUME BrokerTypes, NEW c \in KeychainCallers, NEW e \in RequestsOf(c)
  PROVE  e \in Request /\ e.n = asked + 1 /\ e.by = c
<1>1. Known(c) \subseteq Nat
  <2>1. CASE calls[c].is = "answered" /\ calls[c].result.is = "value"
    <3>1. calls[c].result.v \in Nat
      BY <2>1, CallShapes, ResultShapes
    <3> QED
      BY <3>1 DEF Known
  <2>2. CASE ~ (calls[c].is = "answered" /\ calls[c].result.is = "value")
    BY <2>2 DEF Known
  <2> QED
    BY <2>1, <2>2
<1>2. asked \in Nat
  BY DEF BrokerTypes
<1>3. PICK op \in Operations :
        e \in [op : {op}, n : {asked + 1}, by : {c},
               new : (IF op \in {"set", "create", "replace"} THEN {asked + 2} ELSE {0}) \union (IF op = "set" THEN Known(c) ELSE {}),
               old : IF op = "replace" THEN Known(c) ELSE {0}]
  BY DEF RequestsOf
<1>4. e.new \in Nat /\ e.old \in Nat
  BY <1>1, <1>2, <1>3
<1>5. op \in Operation
  BY <1>3, BrokerAssumption
<1> QED
  BY <1>2, <1>3, <1>4, <1>5 DEF Request

(* A call that is made, or is refused because the queue is full.           *)
LEMMA InvokeKeeps == ASSUME BrokerInv, NEW c \in KeychainCallers, Invoke(c) PROVE BrokerInv'
<1>0. BrokerTypes /\ RequestsAreMade /\ FloorsAreConfirmed /\ ResultsAreUpToDate /\ WritesAreThere /\ AllowedIsCached /\ BrokerSound
  BY DEF BrokerInv
<1>1. PICK e \in RequestsOf(c) :
        IF Len(channel) < QueueCapacity
        THEN /\ channel' = Append(channel, e) /\ asked' = e.n
             /\ calls' = [calls EXCEPT ![c] = [is |-> "waiting", n |-> e.n, op |-> e.op, floor |-> acknowledged]]
        ELSE /\ calls' = [calls EXCEPT ![c] = Plain("queue full")]
             /\ UNCHANGED <<channel, asked>>
  BY DEF Invoke
<1>2. UNCHANGED <<contents, guarded, moved, broker, cache, acknowledged, granted>> /\ calls[c].is # "waiting"
  BY DEF Invoke
<1>3. e \in Request /\ e.n = asked + 1 /\ e.by = c /\ asked \in Nat
  BY <1>0, RequestsAreTyped DEF BrokerTypes
<1>4. Extends
  BY <1>2 DEF Extends
<1>5. /\ calls' \in [KeychainCallers -> CallState] /\ \A d \in KeychainCallers : d # c => calls'[d] = calls[d]
      /\ asked' >= asked /\ asked' \in Nat
      /\ calls'[c].is = "waiting" =>
           calls'[c].n = asked' /\ calls'[c].op = e.op /\ calls'[c].floor = acknowledged /\ asked' = asked + 1
      /\ calls'[c].is # "answered"
      /\ channel' = channel \/ (channel' = Append(channel, e) /\ calls'[c].is = "waiting")
  <2>1. calls \in [KeychainCallers -> CallState] /\ acknowledged \in Nat
    BY <1>0 DEF BrokerTypes
  <2>2. CASE Len(channel) < QueueCapacity
    <3>1. /\ channel' = Append(channel, e) /\ asked' = e.n
          /\ calls' = [calls EXCEPT ![c] = [is |-> "waiting", n |-> e.n, op |-> e.op, floor |-> acknowledged]]
      BY <1>1, <2>2
    <3> DEFINE w == [is |-> "waiting", n |-> e.n, op |-> e.op, floor |-> acknowledged]
    <3>2. w.is = "waiting" /\ w.n = e.n /\ w.op = e.op /\ w.floor = acknowledged
      OBVIOUS
    <3>3. w \in CallState
      BY <1>3, <2>1 DEF Request, CallState
    <3>4. calls' = [calls EXCEPT ![c] = w]
      BY <3>1
    <3> HIDE DEF w
    <3>5. calls' \in [KeychainCallers -> CallState] /\ calls'[c] = w /\ \A d \in KeychainCallers : d # c => calls'[d] = calls[d]
      BY <2>1, <3>3, <3>4
    <3>6. asked' >= asked /\ asked' \in Nat /\ asked' = asked + 1
      BY <1>3, <3>1
    <3>7. calls'[c].is = "waiting" /\ calls'[c].n = e.n /\ calls'[c].op = e.op /\ calls'[c].floor = acknowledged
      BY <3>2, <3>5
    <3>8. asked' = e.n /\ channel' = Append(channel, e)
      BY <3>1
    <3> QED
      BY <3>5, <3>6, <3>7, <3>8
  <2>3. CASE ~(Len(channel) < QueueCapacity)
    <3>1. channel' = channel /\ asked' = asked /\ calls' = [calls EXCEPT ![c] = Plain("queue full")]
      BY <1>1, <2>3
    <3>2. Plain("queue full") \in CallState /\ Plain("queue full").is = "queue full"
      BY DEF Plain, CallState
    <3>3. calls' \in [KeychainCallers -> CallState] /\ calls'[c] = Plain("queue full") /\ \A d \in KeychainCallers : d # c => calls'[d] = calls[d]
      BY <2>1, <3>1, <3>2
    <3>4. asked' = asked /\ channel' = channel
      BY <3>1
    <3>5. asked' >= asked /\ asked' \in Nat
      BY <1>3, <3>4
    <3>6. calls'[c].is = "queue full"
      BY <3>2, <3>3
    <3> QED
      BY <3>3, <3>4, <3>5, <3>6
  <2> QED
    BY <2>2, <2>3
<1>6. /\ channel' \in Seq(Request)
      /\ \A i \in DOMAIN channel' : \/ i \in DOMAIN channel /\ channel'[i] = channel[i]
                                    \/ channel'[i] = e /\ calls'[c].is = "waiting"
  <2>1. channel \in Seq(Request)
    BY <1>0 DEF BrokerTypes
  <2>2. CASE channel' = channel
    BY <2>1, <2>2
  <2>3. CASE channel' = Append(channel, e) /\ calls'[c].is = "waiting"
    <3>1. \A i \in DOMAIN channel' : (i \in DOMAIN channel /\ channel'[i] = channel[i]) \/ channel'[i] = e
      BY <2>1, <2>3, <1>3
    <3> QED
      BY <2>1, <2>3, <1>3, <3>1
  <2> QED
    BY <1>5, <2>2, <2>3
<1>7. BrokerTypes'
  BY <1>0, <1>2, <1>5, <1>6 DEF BrokerTypes
<1>8. ASSUME NEW x \in Request, MadeSoFar(x) PROVE MadeSoFar(x)'
  <2>1. x.n <= asked /\ x.n \in Nat /\ x.by \in KeychainCallers
    BY <1>8 DEF MadeSoFar, Request
  <2>2. x.n <= asked' /\ x.n # e.n
    BY <1>3, <1>5, <2>1
  <2>3. CASE x.by # c
    <3>1. calls'[x.by] = calls[x.by]
      BY <1>5, <2>1, <2>3
    <3> QED
      BY <1>8, <2>2, <3>1 DEF MadeSoFar, Waits
  <2>4. CASE x.by = c
    <3>1. ~Waits(x)'
      <4>1. x.n # asked' \/ calls'[c].is # "waiting"
        BY <1>3, <1>5, <2>1
      <4> QED
        BY <2>4, <4>1, <1>5 DEF Waits
    <3> QED
      BY <2>2, <3>1 DEF MadeSoFar
  <2> QED
    BY <2>3, <2>4
<1>9. calls'[c].is = "waiting" => MadeSoFar(e)'
  BY <1>3, <1>5 DEF MadeSoFar, Waits
<1>10. RequestsAreMade'
  <2>1. Pending' \subseteq Pending \union (IF calls'[c].is = "waiting" THEN {e} ELSE {})
    BY <1>2, <1>6 DEF Pending
  <2>2. Pending \subseteq Request
    BY <1>0, PendingTyped
  <2>3. \A x \in Pending : MadeSoFar(x)'
    BY <1>0, <1>8, <2>2 DEF RequestsAreMade
  <2> QED
    BY <1>9, <2>1, <2>3 DEF RequestsAreMade
<1>11. FloorsAreConfirmed'
  <2> SUFFICES ASSUME NEW d \in KeychainCallers, calls'[d].is = "waiting" PROVE calls'[d].floor <= acknowledged
    BY <1>2 DEF FloorsAreConfirmed
  <2>1. acknowledged \in Nat
    BY <1>0 DEF BrokerTypes
  <2>2. CASE d # c
    BY <1>0, <1>5, <2>2 DEF FloorsAreConfirmed
  <2>3. CASE d = c
    BY <1>5, <2>1, <2>3
  <2> QED
    BY <2>2, <2>3
<1>12. BrokerSound'
  <2>1. \A d \in KeychainCallers : calls'[d] = calls[d] \/ calls'[d].is # "answered" \/ AnsweredWell(d)'
    BY <1>5
  <2> QED
    BY <1>0, <1>4, <2>1, AnswersStaySound
<1>13. (ResultsAreUpToDate /\ WritesAreThere /\ AllowedIsCached)'
  BY <1>0, <1>2 DEF ResultsAreUpToDate, WritesAreThere, AllowedIsCached, UpToDate
<1> QED
  BY <1>7, <1>10, <1>11, <1>12, <1>13 DEF BrokerInv

(* Requests stay made when calls end and none is added.                   *)
LEMMA EndingKeepsRequests ==
  ASSUME BrokerTypes, RequestsAreMade, asked' = asked, Pending' \subseteq Pending,
         \A c \in KeychainCallers : calls'[c] = calls[c] \/ calls'[c].is # "waiting"
  PROVE  RequestsAreMade'
<1>1. \A e \in Request : MadeSoFar(e) => MadeSoFar(e)'
  BY EndingKeepsMade
<1>2. Pending \subseteq Request
  BY PendingTyped
<1> QED
  BY <1>1, <1>2 DEF RequestsAreMade

(* A caller's timeout keeps the invariant: what it asked for stays queued. *)
LEMMA GiveUpKeeps == ASSUME BrokerInv, NEW c \in KeychainCallers, GiveUp(c) PROVE BrokerInv'
<1>0. BrokerTypes /\ RequestsAreMade /\ FloorsAreConfirmed /\ ResultsAreUpToDate /\ WritesAreThere /\ AllowedIsCached /\ BrokerSound
  BY DEF BrokerInv
<1>1. /\ calls' = [calls EXCEPT ![c] = Plain("timeout")]
      /\ UNCHANGED <<contents, guarded, channel, moved, broker, cache, asked, acknowledged, granted>>
  BY DEF GiveUp, queues, histories
<1>2. calls' \in [KeychainCallers -> CallState] /\ \A d \in KeychainCallers : calls'[d] = calls[d] \/ calls'[d].is = "timeout"
  BY <1>0, <1>1 DEF BrokerTypes, Plain, CallState
<1>3. BrokerTypes'
  BY <1>0, <1>1, <1>2 DEF BrokerTypes
<1>4. RequestsAreMade'
  <2>1. Pending' = Pending
    BY <1>1 DEF Pending
  <2>2. \A d \in KeychainCallers : calls'[d] = calls[d] \/ calls'[d].is # "waiting"
    BY <1>2
  <2> QED
    BY <1>0, <1>1, <2>1, <2>2, EndingKeepsRequests
<1>5. FloorsAreConfirmed'
  BY <1>0, <1>1, <1>2, EndingKeepsFloors DEF BrokerTypes
<1>6. BrokerSound'
  BY <1>0, <1>1, <1>2, AnswersStaySound DEF Extends
<1>7. (ResultsAreUpToDate /\ WritesAreThere /\ AllowedIsCached)'
  BY <1>0, <1>1 DEF ResultsAreUpToDate, WritesAreThere, AllowedIsCached, UpToDate
<1> QED
  BY <1>3, <1>4, <1>5, <1>6, <1>7 DEF BrokerInv

(* What is answered without a helper is up to date, and a value as long as *)
(* it was allowed.                                                         *)
LEMMA CachedIsUpToDate ==
  ASSUME BrokerInv, NEW e \in Request, Cached(e) # Nothing
  PROVE  /\ Cached(e) \in Results /\ UpToDate(Cached(e))
         /\ e.op \in {"get", "revalidate"} => e.op = "get" /\ Cached(e) = cache.response /\ cache # Nothing
<1>1. CASE e.op = "get" /\ cache # Nothing /\ cache.recent
  <2>1. Cached(e) = cache.response
    BY <1>1 DEF Cached
  <2> QED
    BY <1>1, <2>1, CacheShapes DEF BrokerInv, ResultsAreUpToDate
<1>2. CASE ~ (e.op = "get" /\ cache # Nothing /\ cache.recent)
  <2>1. Cached(e) = Plain("ok") /\ e.op \in {"set", "invalidate"}
    BY <1>2 DEF Cached
  <2> QED
    BY <2>1 DEF Plain, Results, UpToDate
<1> QED
  BY <1>1, <1>2

(* Taking a request, answered from the cache or not, keeps the invariant.  *)
LEMMA TakeKeeps == ASSUME BrokerInv, Take PROVE BrokerInv'
<1>0. BrokerTypes /\ RequestsAreMade /\ FloorsAreConfirmed /\ ResultsAreUpToDate /\ WritesAreThere /\ AllowedIsCached /\ BrokerSound
  BY DEF BrokerInv
<1> DEFINE e == Head(moved \o channel)
<1>1. /\ broker = Nothing /\ moved \o channel # <<>>
      /\ IF moved # <<>> THEN moved' = Tail(moved) /\ UNCHANGED channel ELSE channel' = Tail(channel) /\ UNCHANGED moved
      /\ \/ ~Waits(e) /\ UNCHANGED <<broker, cache, calls, granted>>
         \/ /\ Waits(e) /\ Cached(e) = Nothing
            /\ broker' = [is |-> "started", e |-> e]
            /\ UNCHANGED <<cache, calls, granted>>
         \/ /\ Waits(e) /\ Cached(e) # Nothing
            /\ calls' = Answers({e}, Cached(e), e.n)
            /\ cache' = IF e.op = "invalidate" THEN Nothing ELSE cache
            /\ granted' = (granted /\ e.op # "invalidate")
            /\ broker' = [is |-> "answered", e |-> e, result |-> Cached(e)]
      /\ UNCHANGED <<contents, guarded, asked, acknowledged>>
  BY DEF Take
<1>2. /\ e \in Request /\ e \in Pending
      /\ channel' \in Seq(Request) /\ \A i \in DOMAIN channel' : \E j \in DOMAIN channel : channel'[i] = channel[j]
      /\ moved' \in Seq(Request) /\ \A i \in DOMAIN moved' : \E j \in DOMAIN moved : moved'[i] = moved[j]
  <2>1. channel \in Seq(Request) /\ moved \in Seq(Request)
    BY <1>0 DEF BrokerTypes
  <2>2. CASE moved # <<>>
    <3>1. e = moved[1] /\ 1 \in DOMAIN moved
      BY <2>1, <2>2
    <3>2. moved' = Tail(moved) /\ channel' = channel
      BY <1>1, <2>2
    <3>3. moved' \in Seq(Request) /\ \A i \in DOMAIN moved' : i + 1 \in DOMAIN moved /\ moved'[i] = moved[i + 1]
      BY <2>1, <2>2, <3>2
    <3> QED
      BY <2>1, <3>1, <3>2, <3>3 DEF Pending
  <2>3. CASE moved = <<>>
    <3>1. channel # <<>> /\ e = channel[1] /\ 1 \in DOMAIN channel
      BY <2>1, <2>3, <1>1
    <3>2. moved' = moved /\ channel' = Tail(channel)
      BY <1>1, <2>3
    <3>3. channel' \in Seq(Request) /\ \A i \in DOMAIN channel' : i + 1 \in DOMAIN channel /\ channel'[i] = channel[i + 1]
      BY <2>1, <3>1, <3>2
    <3> QED
      BY <2>1, <3>1, <3>2, <3>3 DEF Pending
  <2> QED
    BY <2>2, <2>3
<1> HIDE DEF e
<1>3. Extends /\ acknowledged \in Nat /\ granted \in BOOLEAN
  BY <1>0, <1>1 DEF Extends, BrokerTypes
<1>4. CASE calls' = calls /\ UNCHANGED <<cache, granted>> /\ broker' \in {Nothing, [is |-> "started", e |-> e]}
  <2>1. broker' \in Serving /\ (broker' # Nothing => broker'.e = e) /\ broker'.is \in {"nothing", "started"}
    BY <1>2, <1>4 DEF Serving, Nothing
  <2>2. BrokerTypes'
    BY <1>0, <1>1, <1>2, <1>4, <2>1 DEF BrokerTypes
  <2>3. RequestsAreMade'
    <3>1. Pending' \subseteq Pending
      BY <1>1, <1>2, <2>1 DEF Pending
    <3> QED
      BY <1>0, <1>1, <1>4, <3>1, EndingKeepsRequests
  <2>4. FloorsAreConfirmed' /\ BrokerSound'
    BY <1>0, <1>1, <1>4 DEF FloorsAreConfirmed, BrokerSound, AcknowledgedWritesSeen, AllowOnceHolds, WasAnswered
  <2>5. (ResultsAreUpToDate /\ WritesAreThere /\ AllowedIsCached)'
    BY <1>0, <1>1, <1>4, <2>1 DEF ResultsAreUpToDate, WritesAreThere, AllowedIsCached, UpToDate
  <2> QED
    BY <2>2, <2>3, <2>4, <2>5 DEF BrokerInv
<1>5. CASE /\ Waits(e) /\ Cached(e) # Nothing
           /\ calls' = Answers({e}, Cached(e), e.n)
           /\ cache' = IF e.op = "invalidate" THEN Nothing ELSE cache
           /\ granted' = (granted /\ e.op # "invalidate")
           /\ broker' = [is |-> "answered", e |-> e, result |-> Cached(e)]
  <2> DEFINE r == Cached(e)
  <2>0. /\ r \in Results /\ UpToDate(r)
        /\ e.op \in {"get", "revalidate"} => e.op = "get" /\ r = cache.response /\ cache # Nothing
    BY <1>2, <1>5, CachedIsUpToDate
  <2>1. /\ calls' = Answers({e}, r, e.n)
        /\ cache' = IF e.op = "invalidate" THEN Nothing ELSE cache
        /\ granted' = (granted /\ e.op # "invalidate")
        /\ broker' = [is |-> "answered", e |-> e, result |-> r]
    BY <1>5
  <2> HIDE DEF r
  <2>2. /\ calls' \in [KeychainCallers -> CallState]
        /\ \A c \in KeychainCallers : calls'[c] = calls[c] \/ calls'[c].is # "waiting"
        /\ \A c \in KeychainCallers : calls'[c].is = "answered" /\ calls'[c] # calls[c] =>
             /\ calls'[c].result = r /\ calls'[c].floor <= acknowledged /\ calls'[c].floor \in Nat
             /\ calls'[c].allowed = granted
             /\ calls'[c].op = e.op
    <3>1. {e} \in SUBSET Request /\ \A x \in {e} : MadeSoFar(x)
      BY <1>0, <1>2 DEF RequestsAreMade
    <3>2. /\ calls' \in [KeychainCallers -> CallState]
          /\ \A c \in KeychainCallers : calls'[c] = calls[c] \/ calls'[c].is # "waiting"
          /\ \A c \in KeychainCallers : calls'[c].is = "answered" /\ calls'[c] # calls[c] =>
               /\ calls'[c].result = r /\ calls'[c].floor <= acknowledged /\ calls'[c].floor \in Nat
               /\ calls'[c].allowed = granted
               /\ \E x \in {e} : calls'[c].op = x.op
      BY <1>0, <2>0, <2>1, <3>1, AnswersEndCalls
    <3> QED
      BY <3>2
  <2>3. broker' \in Serving /\ broker' # Nothing /\ broker'.is = "answered" /\ broker'.e = e /\ broker'.result = r
    BY <1>2, <2>0, <2>1 DEF Serving, Nothing
  <2>4. cache' \in {Nothing, cache} /\ granted' \in BOOLEAN /\ (granted' => granted /\ cache' = cache)
    BY <1>3, <2>1
  <2>5. BrokerTypes'
    BY <1>0, <1>1, <1>2, <2>2, <2>3, <2>4 DEF BrokerTypes
  <2>6. RequestsAreMade'
    <3>1. Pending' \subseteq Pending
      BY <1>2, <2>3 DEF Pending
    <3> QED
      BY <1>0, <1>1, <2>2, <3>1, EndingKeepsRequests
  <2>7. FloorsAreConfirmed'
    BY <1>0, <1>1, <1>3, <2>2, EndingKeepsFloors
  <2>8. granted /\ e.op \in {"get", "revalidate"} => r.is # "denied"
    BY <1>0, <2>0 DEF AllowedIsCached
  <2>9. BrokerSound'
    <3>1. ASSUME NEW c \in KeychainCallers, calls'[c].is = "answered", calls'[c] # calls[c] PROVE AnsweredWell(c)'
      <4>1. /\ calls'[c].result = r /\ calls'[c].floor <= acknowledged /\ calls'[c].floor \in Nat
            /\ calls'[c].allowed = granted /\ calls'[c].op = e.op
        BY <2>2, <3>1
      <4>2. r.is = "value" => \E i \in DOMAIN contents : calls'[c].floor <= i /\ contents[i] = r.v
        <5> SUFFICES ASSUME r.is = "value" PROVE \E i \in DOMAIN contents : calls'[c].floor <= i /\ contents[i] = r.v
          OBVIOUS
        <5>1. PICK i \in DOMAIN contents : acknowledged <= i /\ contents[i] = r.v
          BY <2>0 DEF UpToDate
        <5>2. i \in Nat
          BY <1>0, <5>1 DEF BrokerTypes
        <5> QED
          BY <1>3, <4>1, <5>1, <5>2
      <4> QED
        BY <1>1, <2>8, <4>1, <4>2 DEF AnsweredWell
    <3> QED
      BY <1>0, <1>3, <3>1, AnswersStaySound
  <2>10. (ResultsAreUpToDate /\ WritesAreThere /\ AllowedIsCached)'
    <3>1. ResultsAreUpToDate' /\ WritesAreThere'
      BY <1>0, <1>1, <2>0, <2>3, <2>4 DEF ResultsAreUpToDate, WritesAreThere, UpToDate
    <3>2. AllowedIsCached'
      BY <1>0, <2>3, <2>4, <2>8 DEF AllowedIsCached
    <3> QED
      BY <3>1, <3>2
  <2> QED
    BY <2>5, <2>6, <2>7, <2>9, <2>10 DEF BrokerInv
<1> QED
  BY <1>1, <1>4, <1>5


(* An answer that comes from a helper, or from what was read before, is as *)
(* up to date as is known, and what is cached afterwards is so too.        *)
LEMMA UsableIsUpToDate ==
  ASSUME BrokerInv, broker.is = "ended"
  PROVE  LET r == Usable(broker.e, broker.result) IN
         /\ r \in Results /\ UpToDate(r)
         /\ broker.e.op \in Mutations => r = broker.result
         /\ granted /\ broker.e.op \in {"get", "revalidate"} => r.is # "denied"
<1> DEFINE r == Usable(broker.e, broker.result)
<1>0. BrokerTypes /\ ResultsAreUpToDate /\ AllowedIsCached /\ broker.result \in Results
  BY ServingShapes DEF BrokerInv
<1>1. CASE /\ broker.e.op \in {"get", "revalidate"} /\ broker.result.is = "denied"
           /\ cache # Nothing /\ cache.response.is = "value"
  <2>1. r = cache.response
    BY <1>1 DEF Usable
  <2>2. cache.response \in Results
    BY <1>0, <1>1, CacheShapes
  <2>3. broker.e.op \notin Mutations
    BY <1>1 DEF Mutations
  <2>4. UpToDate(cache.response)
    BY <1>0, <1>1 DEF ResultsAreUpToDate
  <2> QED
    BY <1>1, <2>1, <2>2, <2>3, <2>4
<1>2. CASE ~ (/\ broker.e.op \in {"get", "revalidate"} /\ broker.result.is = "denied"
              /\ cache # Nothing /\ cache.response.is = "value")
  <2>1. r = broker.result
    BY <1>2 DEF Usable
  <2>2. UpToDate(broker.result)
    BY <1>0 DEF ResultsAreUpToDate
  <2>3. granted => cache # Nothing /\ cache.response.is = "value"
    BY <1>0 DEF AllowedIsCached
  <2> QED
    BY <1>0, <1>2, <2>1, <2>2, <2>3
<1> QED
  BY <1>1, <1>2

(* Answering a request keeps the invariant, with what is cached and        *)
(* remembered of it.                                                       *)
LEMMA AnswerKeeps == ASSUME BrokerInv, Answer PROVE BrokerInv'
<1>0. BrokerTypes /\ RequestsAreMade /\ FloorsAreConfirmed /\ ResultsAreUpToDate /\ WritesAreThere /\ AllowedIsCached /\ BrokerSound
  BY DEF BrokerInv
<1> DEFINE e == broker.e
           r == Usable(broker.e, broker.result)
<1>1. /\ broker.is = "ended" /\ UNCHANGED <<contents, guarded, channel, moved, asked>>
      /\ calls' = Answers({e}, r, e.n)
      /\ cache' = Updated(e, r)
      /\ granted' = Granted(e, r)
      /\ acknowledged' = IF e.op \in Mutations /\ r.is = "ok" THEN broker.place ELSE acknowledged
      /\ broker' = [is |-> "answered", e |-> e, result |-> r]
  BY DEF Answer, queues
<1>2. e \in Request /\ e \in Pending /\ broker # Nothing
  BY <1>0, <1>1, ServingShapes DEF Pending
<1>3. /\ r \in Results /\ UpToDate(r)
      /\ granted /\ e.op \in {"get", "revalidate"} => r.is # "denied"
      /\ e.op \in Mutations => r = broker.result
  BY <1>1, UsableIsUpToDate
<1>4. /\ acknowledged \in Nat /\ acknowledged' \in 0 .. Len(contents) /\ acknowledged <= acknowledged'
      /\ e.op \notin Mutations \/ r.is # "ok" => acknowledged' = acknowledged
      /\ e.op \in Mutations /\ r.is = "ok" => acknowledged' \in DOMAIN contents /\ contents[acknowledged'] = e.new
  <2>1. contents \in Seq(Nat) /\ acknowledged \in 0 .. Len(contents) /\ Len(contents) \in Nat
    BY <1>0 DEF BrokerTypes
  <2>2. CASE e.op \in Mutations /\ r.is = "ok"
    <3>1. /\ broker.place \in DOMAIN contents /\ acknowledged <= broker.place
          /\ contents[broker.place] = e.new
      BY <1>0, <1>1, <1>3, <2>2 DEF WritesAreThere
    <3>2. acknowledged' = broker.place
      BY <1>1, <2>2
    <3> QED
      BY <2>1, <2>2, <3>1, <3>2
  <2>3. CASE ~ (e.op \in Mutations /\ r.is = "ok")
    <3>1. acknowledged' = acknowledged
      BY <1>1, <2>3
    <3> QED
      BY <2>1, <2>3, <3>1
  <2> QED
    BY <2>2, <2>3
<1>5. \E x \in Request, y \in Results : x = e /\ y = r
  BY <1>2, <1>3
<1> HIDE DEF e, r
<1>6. /\ calls' \in [KeychainCallers -> CallState]
      /\ \A c \in KeychainCallers : calls'[c] = calls[c] \/ calls'[c].is # "waiting"
      /\ \A c \in KeychainCallers : calls'[c].is = "answered" /\ calls'[c] # calls[c] =>
           /\ calls'[c].result = r /\ calls'[c].floor <= acknowledged /\ calls'[c].floor \in Nat
           /\ calls'[c].allowed = granted
           /\ calls'[c].op = e.op
  <2>1. {e} \in SUBSET Request /\ \A x \in {e} : MadeSoFar(x)
    BY <1>0, <1>2 DEF RequestsAreMade
  <2>2. /\ calls' \in [KeychainCallers -> CallState]
        /\ \A c \in KeychainCallers : calls'[c] = calls[c] \/ calls'[c].is # "waiting"
        /\ \A c \in KeychainCallers : calls'[c].is = "answered" /\ calls'[c] # calls[c] =>
             /\ calls'[c].result = r /\ calls'[c].floor <= acknowledged /\ calls'[c].floor \in Nat
             /\ calls'[c].allowed = granted
             /\ \E x \in {e} : calls'[c].op = x.op
    BY <1>0, <1>1, <1>3, <2>1, AnswersEndCalls
  <2> QED
    BY <2>2
<1>7. broker' \in Serving /\ broker' # Nothing /\ broker'.is = "answered" /\ broker'.e = e /\ broker'.result = r
  BY <1>1, <1>2, <1>3 DEF Serving, Nothing
<1>8. cache' \in {Nothing} \union [is : {"cached"}, response : Results, recent : BOOLEAN]
      /\ (cache' # Nothing => UpToDate(cache.response)')
  <2>0. cache \in {Nothing} \union [is : {"cached"}, response : Results, recent : BOOLEAN]
    BY <1>0 DEF BrokerTypes
  <2>1. CASE e.op \in Reads /\ r = Value(0)
    <3>1. cache' = Nothing
      BY <1>1, <2>1 DEF Updated, Reads, Mutations, Value
    <3> QED
      BY <3>1
  <2>2. CASE e.op \in Reads /\ r # Value(0) /\ r.is \in {"value", "denied"}
    <3>1. cache' = [is |-> "cached", response |-> r, recent |-> TRUE]
      BY <1>1, <2>2 DEF Updated, Reads, Mutations
    <3>2. acknowledged' = acknowledged
      BY <1>4, <2>2 DEF Reads, Mutations
    <3> QED
      BY <1>1, <1>3, <3>1, <3>2 DEF UpToDate
  <2>3. CASE e.op \in Mutations \ {"delete"} /\ r.is = "ok"
    <3>0. e.op \notin Reads
      BY <2>3 DEF Reads, Mutations
    <3>1. cache' = [is |-> "cached", response |-> Value(e.new), recent |-> TRUE]
      BY <1>1, <2>3, <3>0 DEF Updated
    <3>2. Value(e.new) \in Results
      BY <1>2 DEF Value, Results, Request
    <3>3. acknowledged' \in DOMAIN contents /\ contents[acknowledged'] = e.new /\ acknowledged' <= acknowledged'
      BY <1>4, <2>3
    <3>4. cache'.response.v = e.new
      BY <3>1 DEF Value
    <3> QED
      BY <1>1, <3>1, <3>2, <3>3, <3>4 DEF UpToDate
  <2>4. CASE e.op \in Mutations \union {"invalidate"} /\ ~ (e.op \in Mutations \ {"delete"} /\ r.is = "ok")
    <3>0. e.op \notin Reads
      BY <2>4 DEF Reads, Mutations
    <3>1. cache' = Nothing
      BY <1>1, <2>4, <3>0 DEF Updated
    <3> QED
      BY <3>1
  <2>5. CASE e.op \in Reads /\ r # Value(0) /\ r.is \notin {"value", "denied"}
    <3>0. e.op \notin Mutations \union {"invalidate"}
      BY <2>5 DEF Reads, Mutations
    <3>1. cache' = cache
      BY <1>1, <2>5, <3>0 DEF Updated
    <3>2. acknowledged' = acknowledged
      BY <1>4, <3>0
    <3> QED
      BY <1>0, <1>1, <2>0, <3>1, <3>2 DEF ResultsAreUpToDate, UpToDate
  <2>6. e.op \in Reads \union Mutations \union {"invalidate"}
    BY <1>2 DEF Request, Operation
  <2> QED
    BY <2>1, <2>2, <2>3, <2>4, <2>5, <2>6
<1>9. granted' \in BOOLEAN /\ (granted' => cache' # Nothing /\ cache'.response.is = "value" /\ (e.op = "get" => r.is # "denied"))
  <2>0. granted \in BOOLEAN
    BY <1>0 DEF BrokerTypes
  <2>1. CASE e.op = "authorize" /\ r.is = "value" /\ r # Value(0)
    <3>1. cache' = [is |-> "cached", response |-> r, recent |-> TRUE]
      BY <1>1, <2>1 DEF Updated, Reads, Mutations
    <3>2. granted' = TRUE
      BY <1>1, <2>1 DEF Granted
    <3> QED
      BY <2>1, <3>1, <3>2 DEF Nothing
  <2>2. CASE /\ ~ (e.op = "authorize" /\ r.is = "value" /\ r # Value(0))
             /\ ~ (e.op \in {"get", "revalidate"} /\ r # Value(0))
    <3>1. granted' = FALSE
      BY <1>1, <2>2 DEF Granted
    <3> QED
      BY <3>1
  <2>3. CASE e.op \in {"get", "revalidate"} /\ r # Value(0)
    <3>1. granted' = granted
      BY <1>1, <2>3 DEF Granted
    <3>2. e.op \in Reads /\ e.op \notin Mutations
      BY <2>3 DEF Reads, Mutations
    <3>3. CASE granted /\ r.is = "value"
      <4>1. cache' = [is |-> "cached", response |-> r, recent |-> TRUE]
        BY <1>1, <2>3, <3>2, <3>3 DEF Updated
      <4> QED
        BY <2>0, <3>1, <3>3, <4>1 DEF Nothing
    <3>4. CASE granted /\ r.is # "value"
      <4>1. r.is # "denied"
        BY <1>3, <2>3, <3>4
      <4>2. cache' = cache
        BY <1>1, <2>3, <3>2, <3>4, <4>1 DEF Updated, Mutations
      <4> QED
        BY <1>0, <2>0, <3>1, <3>4, <4>1, <4>2 DEF AllowedIsCached
    <3> QED
      BY <2>0, <3>1, <3>3, <3>4
  <2> QED
    BY <2>1, <2>2, <2>3
<1>10. BrokerTypes'
  BY <1>0, <1>1, <1>4, <1>6, <1>7, <1>8, <1>9 DEF BrokerTypes
<1>11. RequestsAreMade'
  <2>1. Pending' \subseteq Pending
    BY <1>1, <1>2, <1>7 DEF Pending
  <2> QED
    BY <1>0, <1>1, <1>6, <2>1, EndingKeepsRequests
<1>12. FloorsAreConfirmed'
  <2>1. acknowledged' \in Nat
    BY <1>4
  <2> QED
    BY <1>0, <1>4, <1>6, <2>1, EndingKeepsFloors
<1>13. BrokerSound'
  <2>1. ASSUME NEW c \in KeychainCallers, calls'[c].is = "answered", calls'[c] # calls[c] PROVE AnsweredWell(c)'
    <3>1. /\ calls'[c].result = r /\ calls'[c].floor <= acknowledged /\ calls'[c].floor \in Nat
          /\ calls'[c].allowed = granted /\ calls'[c].op = e.op
      BY <1>6, <2>1
    <3>2. r.is = "value" => \E i \in DOMAIN contents : calls'[c].floor <= i /\ contents[i] = r.v
      <4> SUFFICES ASSUME r.is = "value" PROVE \E i \in DOMAIN contents : calls'[c].floor <= i /\ contents[i] = r.v
        OBVIOUS
      <4>1. PICK i \in DOMAIN contents : acknowledged <= i /\ contents[i] = r.v
        BY <1>3 DEF UpToDate
      <4>2. i \in Nat
        BY <1>0, <4>1 DEF BrokerTypes
      <4> QED
        BY <1>4, <3>1, <4>1, <4>2
    <3> QED
      BY <1>1, <1>3, <3>1, <3>2 DEF AnsweredWell
  <2>2. Extends
    BY <1>1 DEF Extends
  <2>3. \A c \in KeychainCallers : calls'[c] = calls[c] \/ calls'[c].is # "answered" \/ AnsweredWell(c)'
    BY <2>1
  <2> QED
    BY <1>0, <2>2, <2>3, AnswersStaySound
<1>14. ResultsAreUpToDate'
  <2>1. e.op = "get" => acknowledged' = acknowledged
    BY <1>4 DEF Mutations
  <2> QED
    BY <1>1, <1>3, <1>7, <1>8, <2>1 DEF ResultsAreUpToDate, UpToDate
<1>15. WritesAreThere'
  BY <1>7 DEF WritesAreThere
<1>16. AllowedIsCached'
  BY <1>7, <1>9 DEF AllowedIsCached
<1> QED
  BY <1>10, <1>11, <1>12, <1>13, <1>14, <1>15, <1>16 DEF BrokerInv

(* A set of natural numbers has a least one.                               *)
LEMMA LeastNatural ==
  ASSUME NEW T \in SUBSET Nat, T # {}
  PROVE  \E x \in T : \A y \in T : x <= y
<1> DEFINE R == StrictSubsetOrdering(Nat)
           U == {0 .. n : n \in T}
<1>1. IsWellFoundedOn(R, FiniteSubsetsOf(Nat))
  BY FS_StrictSubsetOrderingWellFounded
<1>2. U \subseteq FiniteSubsetsOf(Nat) /\ U # {}
  <2>1. \A n \in T : IsFiniteSet(0 .. n)
    BY FS_Interval
  <2>2. \A n \in T : 0 .. n \in SUBSET Nat
    OBVIOUS
  <2> QED
    BY <2>1, <2>2 DEF FiniteSubsetsOf
<1> HIDE DEF R
<1>3. \E x \in U : \A y \in U : <<y, x>> \notin R
  BY <1>1, <1>2, WFMin
<1>4. PICK n \in T : \A m \in T : <<0 .. m, 0 .. n>> \notin R
  BY <1>3
<1>5. ASSUME NEW m \in T, m < n PROVE FALSE
  <2>1. 0 .. m \in SUBSET Nat /\ 0 .. n \in SUBSET Nat /\ 0 .. m \subseteq 0 .. n /\ n \in 0 .. n /\ n \notin 0 .. m
    BY <1>5
  <2>2. <<0 .. m, 0 .. n>> \in R
    BY <2>1 DEF R, StrictSubsetOrdering
  <2> QED
    BY <2>2, <1>4, <1>5
<1> QED
  BY <1>5, <1>4

(* The channel is emptied up to the first request that shares no read.     *)
LEMMA DrainSplits ==
  ASSUME BrokerTypes
  PROVE  LET first == SelectInSeq(channel, LAMBDA e : ~Shares(e))
             until == IF first = 0 THEN Len(channel) ELSE first - 1
         IN until \in 0 .. Len(channel) /\ \A i \in 1 .. until : Shares(channel[i])
<1> DEFINE first == SelectInSeq(channel, LAMBDA e : ~Shares(e))
           until == IF first = 0 THEN Len(channel) ELSE first - 1
           I == {i \in 1 .. Len(channel) : ~Shares(channel[i])}
<1>1. first = IF I # {} THEN Min(I) ELSE 0
  BY DEF SelectInSeq
<1>2. Len(channel) \in Nat
  BY DEF BrokerTypes
<1>2a. \A i \in 1 .. Len(channel) : i \notin I => Shares(channel[i])
  OBVIOUS
<1>2b. I \subseteq 1 .. Len(channel)
  OBVIOUS
<1>2c. until = IF first = 0 THEN Len(channel) ELSE first - 1
  OBVIOUS
<1> HIDE DEF first, I, until
<1>3. I = {} => until \in 0 .. Len(channel) /\ \A i \in 1 .. until : Shares(channel[i])
  <2> SUFFICES ASSUME I = {} PROVE until \in 0 .. Len(channel) /\ \A i \in 1 .. until : Shares(channel[i])
    OBVIOUS
  <2>1. until = Len(channel)
    BY <1>1, <1>2c
  <2> QED
    BY <1>2, <1>2a, <2>1
<1>4. I # {} => until \in 0 .. Len(channel) /\ \A i \in 1 .. until : Shares(channel[i])
  <2> SUFFICES ASSUME I # {} PROVE until \in 0 .. Len(channel) /\ \A i \in 1 .. until : Shares(channel[i])
    OBVIOUS
  <2>1. I \in SUBSET Nat
    BY <1>2, <1>2b
  <2>2. \E x \in I : \A y \in I : x <= y
    BY <2>1, LeastNatural
  <2>3. first \in I /\ \A y \in I : first <= y
    BY <1>1, <2>2 DEF Min
  <2>4. until = first - 1 /\ first \in 1 .. Len(channel)
    BY <1>2, <1>2b, <1>2c, <2>3
  <2>5. \A i \in 1 .. until : i \in 1 .. Len(channel) /\ i \notin I
    BY <1>2, <1>2b, <2>3, <2>4
  <2> QED
    BY <1>2, <1>2a, <2>4, <2>5
<1> QED
  BY <1>3, <1>4 DEF first, until

(* Answering the reads that wait for the same value keeps the invariant.   *)
LEMMA DrainKeeps == ASSUME BrokerInv, Drain PROVE BrokerInv'
<1>0. BrokerTypes /\ RequestsAreMade /\ FloorsAreConfirmed /\ ResultsAreUpToDate /\ WritesAreThere /\ AllowedIsCached /\ BrokerSound
  BY DEF BrokerInv
<1> DEFINE r == broker.result
<1>1. PICK until \in 0 .. Len(channel) :
        /\ \A i \in 1 .. until : Shares(channel[i])
        /\ calls' = Answers({channel[i] : i \in 1 .. until}, r, broker.e.n)
        /\ moved' = moved \o SubSeq(channel, until + 1, Len(channel))
  <2> DEFINE first == SelectInSeq(channel, LAMBDA e : ~Shares(e))
             until == IF first = 0 THEN Len(channel) ELSE first - 1
  <2>1. until \in 0 .. Len(channel) /\ \A i \in 1 .. until : Shares(channel[i])
    BY <1>0, DrainSplits
  <2>2. /\ calls' = Answers({channel[i] : i \in 1 .. until}, r, broker.e.n)
        /\ moved' = moved \o SubSeq(channel, until + 1, Len(channel))
    BY DEF Drain
  <2> QED
    BY <2>1, <2>2
<1>2. /\ broker.is = "answered" /\ channel' = <<>> /\ broker' = Nothing
      /\ UNCHANGED <<contents, guarded, cache, asked, acknowledged, granted>>
  BY DEF Drain, histories
<1> DEFINE es == {channel[i] : i \in 1 .. until}
<1>3. channel \in Seq(Request) /\ moved \in Seq(Request) /\ Len(channel) \in Nat /\ acknowledged \in Nat /\ r \in Results
  BY <1>0, <1>2, ServingShapes DEF BrokerTypes
<1>4. \A e \in es : e \in Pending /\ e \in Request /\ e.op = "get" /\ broker.e.op = "get"
  <2>1. \A i \in 1 .. until : i \in DOMAIN channel /\ channel[i] \in Request
    BY <1>3
  <2> QED
    BY <1>1, <2>1 DEF Shares, Pending
<1>5. moved' \in Seq(Request) /\ \A i \in DOMAIN moved' : \/ i \in DOMAIN moved /\ moved'[i] = moved[i]
                                                          \/ \E j \in DOMAIN channel : moved'[i] = channel[j]
  <2> DEFINE rest == SubSeq(channel, until + 1, Len(channel))
  <2>1. rest \in Seq(Request) /\ \A i \in DOMAIN rest : until + i \in DOMAIN channel /\ rest[i] = channel[until + i]
    BY <1>3
  <2>2. moved' = moved \o rest
    BY <1>1
  <2> HIDE DEF rest
  <2>3. moved' \in Seq(Request)
    BY <1>3, <2>1, <2>2
  <2>4. ASSUME NEW i \in DOMAIN moved'
        PROVE  \/ i \in DOMAIN moved /\ moved'[i] = moved[i]
               \/ \E j \in DOMAIN channel : moved'[i] = channel[j]
    <3>1. i \in 1 .. Len(moved) + Len(rest) /\ Len(moved) \in Nat /\ Len(rest) \in Nat
      BY <1>3, <2>1, <2>2, <2>4
    <3>2. CASE i <= Len(moved)
      BY <1>3, <2>1, <2>2, <3>1, <3>2
    <3>3. CASE i > Len(moved)
      <4>1. i - Len(moved) \in DOMAIN rest /\ moved'[i] = rest[i - Len(moved)]
        BY <1>3, <2>1, <2>2, <3>1, <3>3
      <4> QED
        BY <2>1, <4>1
    <3> QED
      BY <3>1, <3>2, <3>3
  <2> QED
    BY <2>3, <2>4
<1>6. Extends
  BY <1>2 DEF Extends
<1>7. /\ calls' \in [KeychainCallers -> CallState]
      /\ \A c \in KeychainCallers : calls'[c] = calls[c] \/ calls'[c].is # "waiting"
      /\ \A c \in KeychainCallers : calls'[c].is = "answered" /\ calls'[c] # calls[c] =>
           /\ calls'[c].result = r /\ calls'[c].floor <= acknowledged /\ calls'[c].floor \in Nat
           /\ calls'[c].allowed = granted
           /\ \E e \in es : calls'[c].op = e.op
  <2>1. es \in SUBSET Request /\ \A e \in es : MadeSoFar(e)
    BY <1>0, <1>4 DEF RequestsAreMade
  <2>2. calls' = Answers(es, r, broker.e.n)
    BY <1>1
  <2> HIDE DEF es, r
  <2> QED
    BY <1>0, <1>3, <2>1, <2>2, AnswersEndCalls
<1>8. BrokerTypes'
  <2>1. broker' \in Serving /\ channel' \in Seq(Request)
    BY <1>2 DEF Serving
  <2> QED
    BY <1>0, <1>2, <1>5, <1>7, <2>1 DEF BrokerTypes
<1>9. RequestsAreMade'
  <2>1. Pending' \subseteq Pending
    BY <1>2, <1>5 DEF Pending
  <2> QED
    BY <1>0, <1>2, <1>7, <2>1, EndingKeepsRequests
<1>10. FloorsAreConfirmed'
  BY <1>0, <1>2, <1>3, <1>7, EndingKeepsFloors
<1>11. BrokerSound'
  <2>1. ASSUME NEW c \in KeychainCallers, calls'[c].is = "answered", calls'[c] # calls[c] PROVE AnsweredWell(c)'
    <3>1. /\ calls'[c].result = r /\ calls'[c].floor <= acknowledged /\ calls'[c].floor \in Nat
          /\ calls'[c].allowed = granted
          /\ \E e \in es : calls'[c].op = e.op
      BY <1>7, <2>1
    <3>2. broker.e.op = "get"
      BY <1>4, <3>1
    <3>3. UpToDate(r)
      BY <1>0, <1>2, <3>2 DEF ResultsAreUpToDate
    <3>4. r.is = "value" => \E i \in DOMAIN contents : calls'[c].floor <= i /\ contents[i] = r.v
      <4> SUFFICES ASSUME r.is = "value" PROVE \E i \in DOMAIN contents : calls'[c].floor <= i /\ contents[i] = r.v
        OBVIOUS
      <4>1. PICK i \in DOMAIN contents : acknowledged <= i /\ contents[i] = r.v
        BY <3>3 DEF UpToDate
      <4>2. i \in Nat
        BY <1>0, <4>1 DEF BrokerTypes
      <4> QED
        BY <1>3, <3>1, <4>1, <4>2
    <3>5. granted => r.is # "denied"
      BY <1>0, <1>2, <3>2 DEF AllowedIsCached
    <3> HIDE DEF r
    <3> QED
      BY <1>2, <3>1, <3>4, <3>5 DEF AnsweredWell
  <2>2. \A c \in KeychainCallers : calls'[c] = calls[c] \/ calls'[c].is # "answered" \/ AnsweredWell(c)'
    BY <2>1
  <2> QED
    BY <1>0, <1>6, <2>2, AnswersStaySound
<1>12. (ResultsAreUpToDate /\ WritesAreThere /\ AllowedIsCached)'
  BY <1>0, <1>2 DEF ResultsAreUpToDate, WritesAreThere, AllowedIsCached, UpToDate, Nothing
<1> QED
  BY <1>8, <1>9, <1>10, <1>11, <1>12 DEF BrokerInv

(* What the helper does, and other applications: the item may have changed *)
(* and the helper may have ended, with what is up to date and is there.    *)
LEMMA WorkKeeps ==
  ASSUME BrokerInv,
         contents' = contents \/ \E v \in Nat : contents' = Append(contents, v),
         UNCHANGED <<channel, moved, cache, calls, asked, acknowledged, granted>>, guarded' \in BOOLEAN,
         broker' \in Serving, broker' # Nothing => broker # Nothing /\ broker'.e = broker.e,
         broker' = broker \/ broker'.is \in {"checked", "ended"},
         broker' # broker /\ broker'.is = "ended" => UpToDate(broker.result)' /\ WritesAreThere'
  PROVE  BrokerInv'
<1>0. BrokerTypes /\ RequestsAreMade /\ FloorsAreConfirmed /\ ResultsAreUpToDate /\ WritesAreThere /\ AllowedIsCached /\ BrokerSound
  BY DEF BrokerInv
<1>1. Extends /\ contents' \in Seq(Nat) /\ contents' # <<>> /\ acknowledged' \in 0 .. Len(contents')
  <2>1. CASE contents' = contents
    BY <1>0, <2>1 DEF Extends, BrokerTypes
  <2>2. CASE \E v \in Nat : contents' = Append(contents, v)
    <3>1. PICK v \in Nat : contents' = Append(contents, v)
      BY <2>2
    <3> QED
      BY <1>0, <3>1, GrowingKeeps DEF Extends
  <2> QED
    BY <2>1, <2>2
<1>2. BrokerTypes'
  BY <1>0, <1>1 DEF BrokerTypes
<1>3. RequestsAreMade'
  <2>1. Pending' \subseteq Pending
    BY DEF Pending
  <2> QED
    BY <1>0, <2>1, EndingKeepsRequests
<1>4. FloorsAreConfirmed'
  BY <1>0 DEF FloorsAreConfirmed
<1>5. BrokerSound'
  BY <1>0, <1>1, AnswersStaySound
<1>6. cache' # Nothing => UpToDate(cache.response)'
  BY <1>0, <1>1 DEF ResultsAreUpToDate, UpToDate, Extends
<1>7. CASE broker' = broker
  <2>1. ResultsAreUpToDate'
    <3>1. broker.is = "ended" => UpToDate(broker.result)'
      BY <1>0, <1>1, <1>7 DEF ResultsAreUpToDate, UpToDate, Extends
    <3>2. broker.is = "answered" /\ broker.e.op = "get" => UpToDate(broker.result)'
      BY <1>0, <1>1, <1>7 DEF ResultsAreUpToDate, UpToDate, Extends
    <3> QED
      BY <1>6, <1>7, <3>1, <3>2 DEF ResultsAreUpToDate
  <2>2. WritesAreThere'
    BY <1>0, <1>1, <1>7 DEF WritesAreThere, Extends
  <2>3. AllowedIsCached'
    BY <1>0, <1>7 DEF AllowedIsCached
  <2> QED
    BY <1>2, <1>3, <1>4, <1>5, <2>1, <2>2, <2>3 DEF BrokerInv
<1>8. CASE broker' # broker
  <2>1. broker'.is \in {"checked", "ended"} /\ (broker'.is = "ended" => UpToDate(broker.result)' /\ WritesAreThere')
    BY <1>8
  <2>2. ResultsAreUpToDate'
    BY <1>6, <2>1 DEF ResultsAreUpToDate
  <2>3. WritesAreThere'
    BY <2>1 DEF WritesAreThere
  <2>4. AllowedIsCached'
    BY <1>0, <2>1 DEF AllowedIsCached
  <2> QED
    BY <1>2, <1>3, <1>4, <1>5, <2>2, <2>3, <2>4 DEF BrokerInv
<1> QED
  BY <1>7, <1>8

(* The helper ends with something else than a write that went well.        *)
LEMMA EndingKeeps ==
  ASSUME BrokerInv, broker # Nothing, NEW r \in Results, UpToDate(r), broker.e.op \in Mutations => r.is # "ok",
         broker' = [is |-> "ended", e |-> broker.e, result |-> r, place |-> 0],
         UNCHANGED <<contents, guarded, channel, moved, cache, calls, asked, acknowledged, granted>>
  PROVE  BrokerInv'
<1>1. broker.e \in Request /\ BrokerTypes
  BY ServingShapes DEF BrokerInv
<1>2. broker' \in Serving /\ broker' # Nothing /\ broker'.is = "ended" /\ broker'.e = broker.e /\ broker'.result = r
  BY <1>1 DEF Serving, Nothing
<1>3. UpToDate(broker.result)' /\ WritesAreThere'
  BY <1>2 DEF UpToDate, WritesAreThere
<1>4. guarded' \in BOOLEAN
  BY <1>1 DEF BrokerTypes
<1> QED
  BY <1>2, <1>3, <1>4, WorkKeeps

(* Results without a value are results.                                    *)
LEMMA PlainResults ==
  ASSUME NEW what \in {"ok", "denied", "conflict", "failed"}
  PROVE  Plain(what) \in Results /\ Plain(what).is = what /\ UpToDate(Plain(what))
  BY DEF Plain, Results, UpToDate

(* A read of the helper, allowed or denied, keeps the invariant.           *)
LEMMA HelperReadsKeeps == ASSUME BrokerInv, HelperReads PROVE BrokerInv'
<1>1. /\ broker.is = "started" /\ broker.e.op \in Reads
      /\ \E r \in {Value(Content), Plain("denied")} : broker' = [is |-> "ended", e |-> broker.e, result |-> r, place |-> 0]
      /\ UNCHANGED <<contents, guarded, channel, moved, cache, calls, asked, acknowledged, granted>>
  BY DEF HelperReads, Ended, Left, queues, histories
<1>2. PICK r \in {Value(Content), Plain("denied")} : broker' = [is |-> "ended", e |-> broker.e, result |-> r, place |-> 0]
  BY <1>1
<1>3. BrokerTypes /\ broker # Nothing
  BY <1>1 DEF BrokerInv, Nothing
<1>4. Value(Content) \in Results /\ UpToDate(Value(Content))
  <2>1. Content \in Nat
    BY <1>3, ContentIsLast
  <2> QED
    BY <1>3, <2>1, ContentIsLast DEF Value, Results
<1>5. r \in Results /\ UpToDate(r)
  BY <1>2, <1>4, PlainResults
<1>6. broker.e.op \notin Mutations
  BY <1>1 DEF Reads, Mutations
<1> QED
  BY <1>1, <1>2, <1>3, <1>5, <1>6, EndingKeeps

(* A helper that fails keeps the invariant.                                *)
LEMMA HelperFailsKeeps == ASSUME BrokerInv, HelperFails PROVE BrokerInv'
<1>1. /\ broker.is \in {"started", "checked", "ended"}
      /\ broker' = [is |-> "ended", e |-> broker.e, result |-> Plain("failed"), place |-> 0]
      /\ UNCHANGED <<contents, guarded, channel, moved, cache, calls, asked, acknowledged, granted>>
  BY DEF HelperFails, Ended, Left, queues, histories
<1>2. broker # Nothing
  BY <1>1 DEF Nothing
<1>3. Plain("failed") \in Results /\ Plain("failed").is # "ok" /\ UpToDate(Plain("failed"))
  BY PlainResults
<1> QED
  BY <1>1, <1>2, <1>3, EndingKeeps

(* A write that goes well is the last that the item held.                  *)
LEMMA WritingKeeps ==
  ASSUME BrokerInv, broker # Nothing,
         (contents' = contents /\ Content = broker.e.new) \/ contents' = Append(contents, broker.e.new),
         broker' = [is |-> "ended", e |-> broker.e, result |-> Plain("ok"), place |-> Len(contents')],
         UNCHANGED <<guarded, channel, moved, cache, calls, asked, acknowledged, granted>>
  PROVE  BrokerInv'
<1>1. broker.e \in Request /\ BrokerTypes
  BY ServingShapes DEF BrokerInv
<1>2. broker.e.new \in Nat
  BY <1>1 DEF Request
<1>3. /\ contents' = contents \/ \E v \in Nat : contents' = Append(contents, v)
      /\ Len(contents') \in DOMAIN contents' /\ contents'[Len(contents')] = broker.e.new /\ acknowledged <= Len(contents')
      /\ Len(contents') \in Nat
  <2>0. acknowledged \in 0 .. Len(contents) /\ Len(contents) \in Nat
    BY <1>1 DEF BrokerTypes
  <2>1. CASE contents' = contents /\ Content = broker.e.new
    BY <1>1, <2>0, <2>1, ContentIsLast
  <2>2. CASE contents' = Append(contents, broker.e.new)
    BY <1>1, <1>2, <2>0, <2>2, GrowingKeeps
  <2> QED
    BY <2>1, <2>2
<1>4. Plain("ok") \in Results
  BY PlainResults
<1>5. /\ broker' \in Serving /\ broker' # Nothing /\ broker'.is = "ended" /\ broker'.e = broker.e
      /\ broker'.result = Plain("ok") /\ broker'.place = Len(contents')
  BY <1>1, <1>3, <1>4 DEF Serving, Nothing
<1>6. UpToDate(broker.result)' /\ WritesAreThere'
  BY <1>3, <1>5 DEF UpToDate, WritesAreThere, Plain
<1>7. guarded' \in BOOLEAN
  BY <1>1 DEF BrokerTypes
<1> QED
  BY <1>3, <1>5, <1>6, <1>7, WorkKeeps

(* The check before a conditional write keeps the invariant.               *)
LEMMA HelperChecksKeeps == ASSUME BrokerInv, HelperChecks PROVE BrokerInv'
<1>1. /\ broker.is = "started" /\ broker # Nothing
      /\ UNCHANGED <<contents, guarded, channel, moved, cache, calls, asked, acknowledged, granted>>
  BY DEF HelperChecks, Left, queues, histories, Nothing
<1>2. BrokerTypes /\ broker.e \in Request
  BY <1>1, ServingShapes DEF BrokerInv
<1>3. CASE Ended(Plain("denied"), 0)
  <2>1. Plain("denied") \in Results /\ Plain("denied").is # "ok" /\ UpToDate(Plain("denied"))
    BY PlainResults
  <2> QED
    BY <1>1, <1>3, <2>1, EndingKeeps DEF Ended
<1>4. CASE Content = broker.e.new /\ Ended(Plain("ok"), Len(contents))
  <2>1. broker' = [is |-> "ended", e |-> broker.e, result |-> Plain("ok"), place |-> Len(contents')]
    BY <1>1, <1>4 DEF Ended
  <2> QED
    BY <1>1, <1>4, <2>1, WritingKeeps
<1>5. CASE Ended(IF Content = 0 THEN Value(0) ELSE Plain("conflict"), 0)
  <2> DEFINE r == IF Content = 0 THEN Value(0) ELSE Plain("conflict")
  <2>1. r \in Results /\ UpToDate(r) /\ r.is # "ok"
    <3>1. CASE Content = 0
      <4>1. r = Value(Content) /\ r = Value(0)
        BY <3>1
      <4> QED
        BY <1>2, <4>1, ContentIsLast DEF Value, Results
    <3>2. CASE Content # 0
      BY <3>2, PlainResults
    <3> QED
      BY <3>1, <3>2
  <2>2. broker' = [is |-> "ended", e |-> broker.e, result |-> r, place |-> 0]
    BY <1>5 DEF Ended
  <2> HIDE DEF r
  <2> QED
    BY <1>1, <2>1, <2>2, EndingKeeps
<1>6. CASE broker' = [broker EXCEPT !.is = "checked"]
  <2>1. broker = [is |-> "started", e |-> broker.e]
    BY <1>1, <1>2, ServingShapes
  <2>2. broker' = [is |-> "checked", e |-> broker.e]
    BY <1>6, <2>1
  <2>3. broker' \in Serving /\ broker'.e = broker.e /\ broker'.is = "checked"
    BY <1>2, <2>2 DEF Serving
  <2>4. guarded' \in BOOLEAN
    BY <1>1, <1>2 DEF BrokerTypes
  <2> QED
    BY <1>1, <2>3, <2>4, WorkKeeps
<1> QED
  BY <1>3, <1>4, <1>5, <1>6 DEF HelperChecks

(* A write keeps the invariant: what it writes is the newest content.      *)
LEMMA HelperWritesKeeps == ASSUME BrokerInv, HelperWrites PROVE BrokerInv'
<1>1. /\ broker.is \in {"started", "checked"} /\ broker # Nothing
      /\ UNCHANGED <<guarded, channel, moved, cache, calls, asked, acknowledged, granted>>
  BY DEF HelperWrites, Left, queues, histories, Nothing
<1>2. ASSUME NEW what \in {"denied", "conflict"}, Ended(Plain(what), 0), contents' = contents
      PROVE  BrokerInv'
  <2>1. Plain(what) \in Results /\ Plain(what).is # "ok" /\ UpToDate(Plain(what))
    BY PlainResults
  <2> QED
    BY <1>1, <1>2, <2>1, EndingKeeps DEF Ended
<1>3. CASE contents' = Append(contents, broker.e.new) /\ Ended(Plain("ok"), Len(contents'))
  BY <1>1, <1>3, WritingKeeps DEF Ended
<1> QED
  BY <1>2, <1>3 DEF HelperWrites

(* A cached answer that ages keeps the invariant.                          *)
LEMMA CacheAgesKeeps == ASSUME BrokerInv, CacheAges PROVE BrokerInv'
<1>0. BrokerTypes /\ RequestsAreMade /\ FloorsAreConfirmed /\ ResultsAreUpToDate /\ WritesAreThere /\ AllowedIsCached /\ BrokerSound
  BY DEF BrokerInv
<1>1. /\ cache # Nothing /\ cache' = [cache EXCEPT !.recent = FALSE]
      /\ UNCHANGED <<contents, guarded, channel, moved, broker, calls, asked, acknowledged, granted>>
  BY DEF CacheAges, queues, histories
<1>2. /\ cache' \in [is : {"cached"}, response : Results, recent : BOOLEAN]
      /\ cache' # Nothing /\ cache'.response = cache.response
  BY <1>0, <1>1 DEF BrokerTypes, Nothing
<1>3. BrokerTypes'
  BY <1>0, <1>1, <1>2 DEF BrokerTypes
<1>4. RequestsAreMade' /\ FloorsAreConfirmed' /\ BrokerSound' /\ WritesAreThere'
  <2>1. RequestsAreMade'
    BY <1>0, <1>1 DEF RequestsAreMade, Pending, MadeSoFar, Waits
  <2> QED
    BY <1>0, <1>1, <2>1 DEF FloorsAreConfirmed, BrokerSound, AcknowledgedWritesSeen, AllowOnceHolds, WasAnswered, WritesAreThere
<1>5. ResultsAreUpToDate' /\ AllowedIsCached'
  BY <1>0, <1>1, <1>2 DEF ResultsAreUpToDate, AllowedIsCached, UpToDate
<1> QED
  BY <1>3, <1>4, <1>5 DEF BrokerInv

(* A write of another application keeps the invariant.                     *)
LEMMA OutsideKeeps == ASSUME BrokerInv, outside \in Nat, Outside PROVE BrokerInv'
<1>0. BrokerTypes
  BY DEF BrokerInv
<1>1. UNCHANGED <<channel, moved, broker, cache, calls, asked, acknowledged, granted>>
  BY DEF Outside, queues, histories
<1>2. /\ contents' = contents \/ \E v \in Nat : contents' = Append(contents, v)
      /\ guarded' \in BOOLEAN
  <2>1. CASE \E v \in {0, MaxRequests + 2 + outside} \ {Content} : contents' = Append(contents, v) /\ UNCHANGED guarded
    <3>1. PICK v \in {0, MaxRequests + 2 + outside} : contents' = Append(contents, v) /\ UNCHANGED guarded
      BY <2>1
    <3>2. v \in Nat
      BY BrokerAssumption
    <3> QED
      BY <1>0, <3>1, <3>2 DEF BrokerTypes
  <2>2. CASE guarded' = ~guarded /\ UNCHANGED contents
    <3>1. guarded' \in BOOLEAN
      BY <2>2
    <3> QED
      BY <2>2, <3>1
  <2> QED
    BY <2>1, <2>2 DEF Outside
<1>3. broker' \in Serving
  BY <1>0, <1>1 DEF BrokerTypes
<1> QED
  BY <1>1, <1>2, <1>3, WorkKeeps

(* When the broker starts, nothing is asked, cached or allowed.            *)
LEMMA BrokerStart == ASSUME BrokerInit PROVE BrokerInv /\ outside \in Nat
<1>1. /\ contents \in {<<0>>, <<1>>} /\ guarded \in BOOLEAN
      /\ channel = <<>> /\ moved = <<>> /\ broker = Nothing /\ cache = Nothing
      /\ calls = [c \in KeychainCallers |-> Nothing] /\ outside = 0
      /\ asked = 0 /\ acknowledged = 0 /\ granted = FALSE
  BY DEF BrokerInit
<1>2. Nothing \in Serving /\ Nothing \in CallState
  BY DEF Serving, CallState, Nothing
<1>3. BrokerTypes
  <2>1. contents \in Seq(Nat) /\ contents # <<>> /\ acknowledged \in 0 .. Len(contents)
    <3>1. CASE contents = <<0>>
      BY <1>1, <3>1
    <3>2. CASE contents = <<1>>
      BY <1>1, <3>2
    <3> QED
      BY <1>1, <3>1, <3>2
  <2>2. channel \in Seq(Request) /\ moved \in Seq(Request)
    BY <1>1
  <2>3. calls \in [KeychainCallers -> CallState]
    BY <1>1, <1>2
  <2> QED
    BY <1>1, <1>2, <2>1, <2>2, <2>3 DEF BrokerTypes
<1>4. Pending = {}
  BY <1>1 DEF Pending
<1>5. \A c \in KeychainCallers : calls[c].is = "nothing"
  BY <1>1 DEF Nothing
<1>6. FloorsAreConfirmed /\ BrokerSound
  BY <1>5 DEF FloorsAreConfirmed, BrokerSound, AcknowledgedWritesSeen, AllowOnceHolds, WasAnswered
<1>7. ResultsAreUpToDate /\ WritesAreThere /\ AllowedIsCached
  BY <1>1 DEF ResultsAreUpToDate, WritesAreThere, AllowedIsCached, Nothing
<1> QED
  BY <1>1, <1>3, <1>4, <1>6, <1>7 DEF BrokerInv, RequestsAreMade

(* A step of others keeps the invariant.                                   *)
LEMMA BrokerStutters == ASSUME BrokerInv, UNCHANGED brokerVars PROVE BrokerInv'
<1>1. guarded' \in BOOLEAN /\ broker' \in Serving
  BY DEF BrokerInv, BrokerTypes, brokerVars
<1> QED
  BY <1>1, WorkKeeps DEF brokerVars

(* Every step of callers, broker, helper and others keeps the invariant.   *)
LEMMA BrokerStep ==
  ASSUME BrokerInv, outside \in Nat, [BrokerNext]_brokerVars
  PROVE  BrokerInv' /\ outside' \in Nat
<1>1. ASSUME NEW c \in KeychainCallers, Invoke(c) PROVE BrokerInv' /\ outside' \in Nat
  BY <1>1, InvokeKeeps DEF Invoke
<1>2. ASSUME NEW c \in KeychainCallers, GiveUp(c) PROVE BrokerInv' /\ outside' \in Nat
  BY <1>2, GiveUpKeeps DEF GiveUp
<1>3. CASE Take
  BY <1>3, TakeKeeps DEF Take
<1>4. CASE Answer
  BY <1>4, AnswerKeeps DEF Answer
<1>5. CASE Drain
  BY <1>5, DrainKeeps DEF Drain
<1>6. CASE HelperReads
  BY <1>6, HelperReadsKeeps DEF HelperReads, Left
<1>7. CASE HelperChecks
  BY <1>7, HelperChecksKeeps DEF HelperChecks, Left
<1>8. CASE HelperWrites
  BY <1>8, HelperWritesKeeps DEF HelperWrites, Left
<1>9. CASE HelperFails
  BY <1>9, HelperFailsKeeps DEF HelperFails, Left
<1>10. CASE CacheAges
  BY <1>10, CacheAgesKeeps DEF CacheAges
<1>11. CASE Outside
  BY <1>11, OutsideKeeps DEF Outside
<1>12. CASE UNCHANGED brokerVars
  BY <1>12, BrokerStutters DEF brokerVars
<1> QED
  BY <1>1, <1>2, <1>3, <1>4, <1>5, <1>6, <1>7, <1>8, <1>9, <1>10, <1>11, <1>12 DEF BrokerNext

(* Requests are those that were made, callers are not told of writes that  *)
(* are not there, and what is read, held or cached is no older than the    *)
(* last write that was confirmed, for any number of callers and requests   *)
(* (run_broker).                                                           *)
THEOREM BrokerInvariant == BrokerSpec => [](BrokerInv /\ outside \in Nat)
<1>1. BrokerInit => BrokerInv /\ outside \in Nat
  BY BrokerStart
<1>2. BrokerInv /\ outside \in Nat /\ [BrokerNext]_brokerVars => (BrokerInv /\ outside \in Nat)'
  BY BrokerStep
<1> QED
  BY <1>1, <1>2, PTL DEF BrokerSpec

(* Reads through the broker see its writes and need no second permission,  *)
(* whatever callers, the helper and other applications do (run_broker).    *)
THEOREM ReadsSeeWrites == BrokerSpec => []BrokerSound
<1>1. BrokerInv /\ outside \in Nat => BrokerSound
  BY DEF BrokerInv
<1> QED
  BY <1>1, BrokerInvariant, PTL

(* Claude's sign-in.  The points at which a task holds the lock, and where *)
(* a token is kept.                                                        *)
Critical == {"reload", "post", "compare", "save", "sync", "seed"}
Saving(f) == tries[f].at \in {"compare", "save"}
Places == {"keychain", "file"}
LiveStored == keychain \in live \/ disk \in live

ClaudeTypes ==
  /\ newest \in Nat /\ keychain \in 0 .. newest /\ disk \in 0 .. newest /\ known \in 0 .. newest
  /\ live \subseteq 1 .. newest /\ spent \subseteq (1 .. newest) \X Places
  /\ blocked \in BOOLEAN /\ harmed \in BOOLEAN /\ switches \in Nat /\ home \in {"a", "b"}
  /\ DOMAIN tries = Tasks

(* What is read is not spent, and the Keychain's item is seeded only once. *)
StoresAreUnspent ==
  ~harmed =>
    /\ <<keychain, "keychain">> \notin spent /\ <<known, "keychain">> \notin spent /\ <<disk, "file">> \notin spent
    /\ keychain = 0 => \A t \in 1 .. newest : <<t, "keychain">> \notin spent

(* A live token is in a store unless one is to be saved; a dead one stays  *)
(* in the Keychain only beside a live file that the Keychain never held.   *)
LiveIsStored ==
  ~harmed /\ (\A f \in Tasks : ~Saving(f)) =>
    /\ keychain # 0 \/ disk # 0 => LiveStored
    /\ keychain \notin live \union {0} => disk \in live /\ known # disk

(* What a task has to tell at each point, and that it holds the lock.      *)
TaskTells(f) ==
  /\ "at" \in DOMAIN tries[f]
  /\ tries[f].at \in Critical => lock = f
  /\ tries[f].at \in Critical \union {"load", "refresh", "call"} => "cred" \in DOMAIN tries[f]
  /\ tries[f].at \in {"post", "compare", "save", "seed"} => tries[f].cred.t \in 1 .. newest /\ tries[f].cred.from \in Places
  /\ Saving(f) => "new" \in DOMAIN tries[f]
  /\ tries[f].at = "seed" => disk # 0

(* A token that is still to be saved is nowhere else.                      *)
NewIsNew(f) ==
  Saving(f) =>
    /\ tries[f].new \in live /\ tries[f].new \notin {keychain, disk, known, tries[f].cred.t}
    /\ \A from \in Places : <<tries[f].new, from>> \notin spent

(* What is exchanged is not spent, and is where it was read, or something  *)
(* live is.                                                                *)
ExchangeIsSafe(f) ==
  ~harmed =>
    /\ tries[f].at = "post" => <<tries[f].cred.t, tries[f].cred.from>> \notin spent
    /\ tries[f].at = "post" /\ tries[f].cred.from = "keychain" =>
         keychain # 0 /\ (keychain \notin live => disk # tries[f].cred.t)
    /\ tries[f].at \in {"post", "compare", "save"} /\ tries[f].cred.from = "file" /\ disk # tries[f].cred.t =>
         disk \in live /\ keychain \notin {disk, tries[f].cred.t} /\ keychain \in live \union {0}
    /\ tries[f].at = "compare" /\ InStore(tries[f].cred) # tries[f].cred.t => LiveStored

(* Whose sign-in is measured, as long as it changed at most once, and on   *)
(* what Claude Code is started.                                            *)
MeasureIsTrue(f) ==
  /\ tries[f].at \in {"native", "validate"} =>
       /\ tries[f].since \in Nat /\ tries[f].since <= switches
       /\ switches = tries[f].since => home = "a" /\ (tries[f].at = "validate" => tries[f].whose = "a")
       /\ switches = tries[f].since + 1 => home = "b"
  /\ tries[f].at = "measured" /\ tries[f].switched <= 1 => tries[f].whose = "a"
  /\ tries[f].at = "launched" => tries[f].found

TaskOK(f) == TaskTells(f) /\ NewIsNew(f) /\ ExchangeIsSafe(f) /\ MeasureIsTrue(f)

ClaudeInv == ClaudeTypes /\ StoresAreUnspent /\ LiveIsStored /\ \A f \in Tasks : TaskOK(f)

-----------------------------------------------------------------------------
(* What a task is at after it goes there.                                  *)
LEMMA GoTells ==
  ASSUME ClaudeTypes, NEW f \in Tasks, NEW t, Go(f, t)
  PROVE  tries'[f] = t /\ DOMAIN tries' = Tasks /\ \A g \in Tasks : g # f => tries'[g] = tries[g]
  BY DEF ClaudeTypes, Go

(* What a read of the Keychain tells is its item or what is known of it.   *)
LEMMA ReadsTell ==
  ASSUME ClaudeTypes, NEW again \in BOOLEAN, NEW found \in KeychainReads(again)
  PROVE  /\ found.is \in {"token", "missing", "denied"}
         /\ found.is = "token" => found.from = "keychain" /\ found.t \in {keychain, known} /\ found.t # 0
         /\ found.is = "token" /\ again => keychain # 0
         /\ Knowing(found) => known' \in {known, keychain, 0}
<1>1. \/ found = Of(known, "keychain") /\ known # 0 /\ (again => keychain # 0)
      \/ found = Of(keychain, "keychain") /\ keychain # 0
      \/ found = Error("missing")
      \/ found = Error("denied")
  BY DEF KeychainReads
<1>2. CASE found = Of(known, "keychain") /\ known # 0 /\ (again => keychain # 0)
  BY <1>2 DEF Of, Knowing
<1>3. CASE found = Of(keychain, "keychain") /\ keychain # 0
  BY <1>3 DEF Of, Knowing
<1>4. CASE found = Error("missing")
  BY <1>4 DEF Error, Knowing
<1>5. CASE found = Error("denied")
  BY <1>5 DEF Error, Knowing
<1> QED
  BY <1>1, <1>2, <1>3, <1>4, <1>5

(* What is taken from the file is its token.                               *)
LEMMA FileTells ==
  ASSUME NEW found, found.is \in {"token", "missing", "denied"}
  PROVE  /\ WithFile(found).is \in {"token", "missing", "denied"}
         /\ \/ WithFile(found) = found
            \/ WithFile(found).from = "file" /\ WithFile(found).t = disk /\ disk # 0 /\ WithFile(found).is = "token"
  BY DEF WithFile, Of

(* Where a task goes that leaves what it did.                              *)
Leaves(f, t) ==
  /\ "at" \in DOMAIN t
  /\ \/ t.at \in {"rejected", "cli", "identity", "ended"}
     \/ t.at \in {"load", "refresh", "call"} /\ "cred" \in DOMAIN t
     \/ t.at \in {"sync", "reload"} /\ "cred" \in DOMAIN t /\ lock' = f

(* A task outside of the lock has little to answer for.                    *)
LEMMA LeavingIsOK ==
  ASSUME NEW f \in Tasks, NEW t, tries'[f] = t, Leaves(f, t)
  PROVE  TaskOK(f)'
<1>1. t.at \notin {"post", "compare", "save", "seed", "native", "validate", "measured", "launched"}
  BY DEF Leaves
<1>2. TaskTells(f)'
  BY <1>1 DEF TaskTells, Saving, Leaves, Critical
<1>3. NewIsNew(f)' /\ ExchangeIsSafe(f)' /\ MeasureIsTrue(f)'
  BY <1>1 DEF NewIsNew, ExchangeIsSafe, MeasureIsTrue, Saving
<1> QED
  BY <1>2, <1>3 DEF TaskOK

(* A task that fails leaves, with or without the lock.                     *)
LEMMA FailureTells ==
  ASSUME NEW f \in Tasks, "at" \in DOMAIN tries[f], NEW why, Fails(f, why)
  PROVE  \E t : Go(f, t) /\ Leaves(f, t)
<1>1. CASE Step(f, "cli")
  <2> DEFINE t == [tries[f] EXCEPT !.at = "cli"]
  <2>1. Go(f, t) /\ "at" \in DOMAIN t /\ t.at = "cli"
    BY <1>1 DEF Step
  <2> QED
    BY <2>1 DEF Leaves
<1>2. CASE Step(f, "identity")
  <2> DEFINE t == [tries[f] EXCEPT !.at = "identity"]
  <2>1. Go(f, t) /\ "at" \in DOMAIN t /\ t.at = "identity"
    BY <1>2 DEF Step
  <2> QED
    BY <2>1 DEF Leaves
<1>3. CASE Ends(f)
  <2> DEFINE t == [at |-> "ended"]
  <2>1. Go(f, t) /\ "at" \in DOMAIN t /\ t.at = "ended"
    BY <1>3 DEF Ends
  <2> QED
    BY <2>1 DEF Leaves
<1>4. Step(f, "cli") \/ Step(f, "identity") \/ Ends(f)
  BY DEF Fails
<1> QED
  BY <1>1, <1>2, <1>3, <1>4

(* A task whose refresh fails leaves, or goes on with what it has.         *)
LEMMA RefusalTells ==
  ASSUME NEW f \in Tasks, "at" \in DOMAIN tries[f], "cred" \in DOMAIN tries[f], lock = f, NEW why,
         Refused(f, why) \/ RefreshFails(f, why) \/ SyncFails(f, why)
  PROVE  \E t : Go(f, t) /\ Leaves(f, t)
<1>1. CASE RefreshFails(f, why)
  <2>1. CASE why = "rejected"
    <3> DEFINE t == [tries[f] EXCEPT !.at = "rejected"]
    <3>1. Go(f, t) /\ "at" \in DOMAIN t /\ t.at = "rejected"
      BY <1>1, <2>1 DEF RefreshFails, Step
    <3> QED
      BY <3>1 DEF Leaves
  <2>2. CASE why # "rejected"
    BY <1>1, <2>2, FailureTells DEF RefreshFails
  <2> QED
    BY <2>1, <2>2
<1>2. CASE SyncFails(f, why)
  <2>1. CASE why = "conflict" /\ tries[f].attempt + 1 < LaunchAttempts
    <3> DEFINE t == [tries[f] EXCEPT !.at = "sync", !.attempt = @ + 1]
    <3>1. Go(f, t) /\ lock' = lock
      BY <1>2, <2>1 DEF SyncFails
    <3>2. "at" \in DOMAIN t /\ "cred" \in DOMAIN t /\ t.at = "sync"
      OBVIOUS
    <3> QED
      BY <3>1, <3>2 DEF Leaves
  <2>2. CASE ~ (why = "conflict" /\ tries[f].attempt + 1 < LaunchAttempts)
    <3> DEFINE t == [at |-> "ended"]
    <3>1. Go(f, t) /\ "at" \in DOMAIN t /\ t.at = "ended"
      BY <1>2, <2>2 DEF SyncFails, Ends
    <3> QED
      BY <3>1 DEF Leaves
  <2> QED
    BY <2>1, <2>2
<1> QED
  BY <1>1, <1>2 DEF Refused

(* A task that does not hold the lock is not disturbed by one that does.   *)
LEMMA UnlockedStays ==
  ASSUME NEW g \in Tasks, TaskOK(g), tries'[g] = tries[g], tries[g].at \notin Critical, UNCHANGED <<home, switches>>
  PROVE  TaskOK(g)'
<1>1. tries[g].at \notin {"post", "compare", "save", "seed"}
  BY DEF Critical
<1>2. TaskTells(g)'
  BY <1>1 DEF TaskOK, TaskTells, Saving, Critical
<1>3. NewIsNew(g)' /\ ExchangeIsSafe(g)'
  BY <1>1 DEF NewIsNew, ExchangeIsSafe, Saving
<1>4. MeasureIsTrue(g)'
  BY DEF TaskOK, MeasureIsTrue
<1> QED
  BY <1>2, <1>3, <1>4 DEF TaskOK

(* Nor is one that does, by tasks that only read.                          *)
LEMMA QuietStays ==
  ASSUME ClaudeTypes, NEW g \in Tasks, TaskOK(g), tries'[g] = tries[g], tries[g].at \in Critical => lock' = lock,
         harmed => harmed', known' \in {known, keychain, 0},
         UNCHANGED <<keychain, disk, newest, live, spent, home, switches>>
  PROVE  TaskOK(g)'
<1>1. TaskTells(g)'
  BY DEF TaskOK, TaskTells, Saving
<1>2. NewIsNew(g)'
  <2>1. Saving(g) => tries[g].new # 0
    BY DEF TaskOK, NewIsNew, ClaudeTypes
  <2> QED
    BY <2>1 DEF TaskOK, NewIsNew, Saving
<1>3. ExchangeIsSafe(g)'
  BY DEF TaskOK, ExchangeIsSafe, InStore, LiveStored
<1>4. MeasureIsTrue(g)'
  BY DEF TaskOK, MeasureIsTrue
<1> QED
  BY <1>1, <1>2, <1>3, <1>4 DEF TaskOK

(* What a task does that changes neither what is stored nor what is live.  *)
LEMMA QuietKeeps ==
  ASSUME ClaudeInv, NEW f \in Tasks, NEW t, Go(f, t), TaskOK(f)',
         harmed' \in BOOLEAN, harmed => harmed', known' \in {known, keychain, 0},
         lock \notin {Free, f} => lock' = lock,
         UNCHANGED <<keychain, blocked, disk, newest, live, spent, home, switches>>,
         Saving(f) /\ ~Saving(f)' /\ ~harmed' => LiveStored /\ (keychain \notin live \union {0} => disk \in live /\ known' # disk)
  PROVE  ClaudeInv'
<1>0. ClaudeTypes /\ StoresAreUnspent /\ LiveIsStored /\ \A g \in Tasks : TaskOK(g)
  BY DEF ClaudeInv
<1>1. tries'[f] = t /\ DOMAIN tries' = Tasks /\ \A g \in Tasks : g # f => tries'[g] = tries[g]
  BY <1>0, GoTells
<1>2. ClaudeTypes'
  BY <1>0, <1>1 DEF ClaudeTypes
<1>3. StoresAreUnspent'
  <2>1. <<0, "keychain">> \notin spent
    BY <1>0 DEF ClaudeTypes
  <2>2. ~harmed' => StoresAreUnspent /\ ~harmed
    BY <1>0
  <2> QED
    BY <2>1, <2>2 DEF StoresAreUnspent
<1>4. \A g \in Tasks : TaskOK(g)'
  <2>1. ASSUME NEW g \in Tasks, g # f PROVE TaskOK(g)'
    <3>1. tries'[g] = tries[g] /\ TaskOK(g) /\ (tries[g].at \in Critical => lock = g)
      BY <1>0, <1>1, <2>1 DEF TaskOK, TaskTells
    <3>2. g # Free
      BY ClaudeAssumption
    <3>3. tries[g].at \in Critical => lock' = lock
      BY <2>1, <3>1, <3>2
    <3> QED
      BY <1>0, <3>1, <3>3, QuietStays
  <2> QED
    BY <2>1
<1>5. LiveIsStored'
  <2> SUFFICES ASSUME ~harmed', \A g \in Tasks : ~Saving(g)'
               PROVE  /\ keychain # 0 \/ disk # 0 => LiveStored
                      /\ keychain \notin live \union {0} => disk \in live /\ known' # disk
    BY DEF LiveIsStored, LiveStored
  <2>0. ~Saving(f)'
    OBVIOUS
  <2>1. CASE Saving(f)
    BY <2>0, <2>1
  <2>2. CASE ~Saving(f)
    <3>1. \A g \in Tasks : ~Saving(g)
      BY <1>1, <2>2 DEF Saving
    <3>2. /\ keychain # 0 \/ disk # 0 => LiveStored
          /\ keychain \notin live \union {0} => disk \in live /\ known # disk
      BY <1>0, <3>1 DEF LiveIsStored
    <3>3. disk \in live => disk # 0
      BY <1>0 DEF ClaudeTypes
    <3> QED
      BY <3>2, <3>3
  <2> QED
    BY <2>1, <2>2
<1> QED
  BY <1>2, <1>3, <1>4, <1>5 DEF ClaudeInv

(* A task that leaves, or goes on to read again.                           *)
LEMMA LeavingKeeps ==
  ASSUME ClaudeInv, NEW f \in Tasks, \E t : Go(f, t) /\ Leaves(f, t),
         harmed' \in BOOLEAN, harmed => harmed', known' \in {known, keychain, 0},
         lock \notin {Free, f} => lock' = lock,
         UNCHANGED <<keychain, blocked, disk, newest, live, spent, home, switches>>,
         Saving(f) /\ ~Saving(f)' /\ ~harmed' => LiveStored /\ (keychain \notin live \union {0} => disk \in live /\ known' # disk)
  PROVE  ClaudeInv'
<1>1. PICK t : Go(f, t) /\ Leaves(f, t)
  OBVIOUS
<1>2. ClaudeTypes
  BY DEF ClaudeInv
<1>3. tries'[f] = t
  BY <1>1, <1>2, GoTells
<1>4. TaskOK(f)'
  BY <1>1, <1>3, LeavingIsOK
<1> QED
  BY <1>1, <1>4, QuietKeeps

(* Steps that leave the stores, the provider and the others as they are.   *)
Quiet == UNCHANGED <<keychain, blocked, disk, newest, live, spent, harmed, home, switches>>

(* A task that leaves while stores and provider stay as they are keeps the *)
(* invariant.                                                              *)
LEMMA QuietLeavingKeeps ==
  ASSUME ClaudeInv, NEW f \in Tasks, ~Saving(f), \E t : Go(f, t) /\ Leaves(f, t), Quiet,
         known' \in {known, keychain, 0}, lock \notin {Free, f} => lock' = lock
  PROVE  ClaudeInv'
<1>1. harmed' = harmed /\ harmed \in BOOLEAN
  BY DEF Quiet, ClaudeInv, ClaudeTypes
<1>2. UNCHANGED <<keychain, blocked, disk, newest, live, spent, home, switches>>
  BY DEF Quiet
<1> QED
  BY <1>1, <1>2, LeavingKeeps

(* What a task holds at the point it is at.                                *)
LEMMA TaskShape ==
  ASSUME ClaudeInv, NEW f \in Tasks
  PROVE  /\ "at" \in DOMAIN tries[f] /\ TaskOK(f) /\ ClaudeTypes
         /\ tries[f].at \in Critical => lock = f /\ "cred" \in DOMAIN tries[f]
         /\ tries[f].at \in {"load", "refresh", "call"} => "cred" \in DOMAIN tries[f]
  BY DEF ClaudeInv, TaskOK, TaskTells

(* A collection or a discovery that starts keeps the invariant.            *)
LEMMA StartKeeps == ASSUME ClaudeInv, NEW f \in Tasks, Start(f) PROVE ClaudeInv'
<1>1. PICK why \in {"discover", "collect"} : Go(f, [at |-> "load", kind |-> why, cred |-> Unset, again |-> FALSE])
  BY DEF Start
<1> DEFINE t == [at |-> "load", kind |-> why, cred |-> Unset, again |-> FALSE]
<1>2. Go(f, t) /\ Leaves(f, t)
  BY <1>1 DEF Leaves
<1>3. Quiet /\ known' = known /\ lock' = lock /\ ~Saving(f)
  BY DEF Start, Quiet, stores, provider, world, losses, Saving
<1> HIDE DEF t
<1> QED
  BY <1>2, <1>3, QuietLeavingKeeps

(* A task that uses a token calls with it or refreshes it first.           *)
LEMMA UseTells ==
  ASSUME NEW f \in Tasks, "at" \in DOMAIN tries[f], "cred" \in DOMAIN tries[f], NEW cred, Uses(f, cred)
  PROVE  \E t : Go(f, t) /\ Leaves(f, t)
<1> DEFINE next == IF Expired(cred) THEN "refresh" ELSE "call"
           t == [tries[f] EXCEPT !.at = next, !.cred = cred]
<1>1. Go(f, t)
  BY DEF Uses
<1>2. next \in {"refresh", "call"}
  OBVIOUS
<1> HIDE DEF next
<1>3. "at" \in DOMAIN t /\ "cred" \in DOMAIN t /\ t.at = next
  OBVIOUS
<1> QED
  BY <1>1, <1>2, <1>3 DEF Leaves

(* Loading a token from Keychain or file keeps the invariant.              *)
LEMMA LoadKeeps == ASSUME ClaudeInv, NEW f \in Tasks, Load(f) PROVE ClaudeInv'
<1>1. tries[f].at = "load" /\ Quiet /\ lock' = lock
  BY DEF Load, Quiet, stores, provider, world, losses
<1>2. "at" \in DOMAIN tries[f] /\ "cred" \in DOMAIN tries[f] /\ ~Saving(f) /\ ClaudeTypes
  BY <1>1, TaskShape DEF Saving
<1>3. CASE Uses(f, cached) /\ UNCHANGED known
  BY <1>1, <1>2, <1>3, UseTells, QuietLeavingKeeps
<1>4. CASE \E found \in KeychainReads(FALSE) :
             LET cred == WithFile(found) IN Knowing(found) /\ (Uses(f, cred) \/ Fails(f, cred.is))
  <2>1. PICK found \in KeychainReads(FALSE) :
          Knowing(found) /\ (Uses(f, WithFile(found)) \/ Fails(f, WithFile(found).is))
    BY <1>4
  <2>2. known' \in {known, keychain, 0}
    BY <1>2, <2>1, ReadsTell
  <2>3. \E t : Go(f, t) /\ Leaves(f, t)
    BY <1>2, <2>1, UseTells, FailureTells
  <2> QED
    BY <1>1, <1>2, <2>2, <2>3, QuietLeavingKeeps
<1> QED
  BY <1>3, <1>4 DEF Load

(* A call of the provider keeps the invariant.                             *)
LEMMA CallKeeps == ASSUME ClaudeInv, NEW f \in Tasks, Call(f) PROVE ClaudeInv'
<1>1. tries[f].at = "call" /\ Quiet /\ lock' = lock /\ known' = known
  BY DEF Call, Quiet, stores, provider, world, losses
<1>2. "at" \in DOMAIN tries[f] /\ "cred" \in DOMAIN tries[f] /\ ~Saving(f)
  BY <1>1, TaskShape DEF Saving
<1>3. CASE Ends(f)
  <2>1. Go(f, [at |-> "ended"]) /\ Leaves(f, [at |-> "ended"])
    BY <1>3 DEF Ends, Leaves
  <2> QED
    BY <1>1, <1>2, <2>1, QuietLeavingKeeps
<1>4. CASE Step(f, "rejected")
  <2> DEFINE t == [tries[f] EXCEPT !.at = "rejected"]
  <2>1. Go(f, t) /\ Leaves(f, t)
    BY <1>2, <1>4 DEF Step, Leaves
  <2> QED
    BY <1>1, <1>2, <2>1, QuietLeavingKeeps
<1>5. CASE Go(f, [tries[f] EXCEPT !.at = "refresh", !.again = TRUE])
  <2> DEFINE t == [tries[f] EXCEPT !.at = "refresh", !.again = TRUE]
  <2>1. Go(f, t) /\ "at" \in DOMAIN t /\ "cred" \in DOMAIN t /\ t.at = "refresh"
    BY <1>2, <1>5
  <2>2. Leaves(f, t)
    BY <2>1 DEF Leaves
  <2> QED
    BY <1>1, <1>2, <2>1, <2>2, QuietLeavingKeeps
<1>6. CASE Fails(f, "network")
  BY <1>1, <1>2, <1>6, FailureTells, QuietLeavingKeeps
<1> QED
  BY <1>3, <1>4, <1>5, <1>6 DEF Call

(* Recovering from a token that was refused keeps the invariant.           *)
LEMMA RecoverKeeps == ASSUME ClaudeInv, NEW f \in Tasks, Recover(f) PROVE ClaudeInv'
<1>1. tries[f].at = "rejected" /\ Quiet /\ lock' = lock
  BY DEF Recover, Quiet, stores, provider, world, losses
<1>2. "at" \in DOMAIN tries[f] /\ ~Saving(f)
  BY <1>1, TaskShape DEF Saving
<1>3. known' \in {known, keychain, 0} /\ (Fails(f, "denied") \/ Ends(f))
  BY DEF Recover
<1>4. \E t : Go(f, t) /\ Leaves(f, t)
  <2>1. CASE Ends(f)
    BY <2>1 DEF Ends, Leaves
  <2> QED
    BY <1>2, <1>3, <2>1, FailureTells
<1> QED
  BY <1>1, <1>2, <1>3, <1>4, QuietLeavingKeeps

(* Asking Claude Code who is signed in keeps the invariant.                *)
LEMMA IdentifyKeeps == ASSUME ClaudeInv, NEW f \in Tasks, Identify(f) PROVE ClaudeInv'
<1>1. tries[f].at = "identity" /\ Quiet /\ lock' = lock /\ known' = known
  BY DEF Identify, Quiet, stores, provider, world, losses
<1>2. ~Saving(f)
  BY <1>1 DEF Saving
<1>3. Go(f, [at |-> "ended"]) /\ Leaves(f, [at |-> "ended"])
  BY DEF Identify, Ends, Leaves
<1> QED
  BY <1>1, <1>2, <1>3, QuietLeavingKeeps

(* Waiting for the lock of refreshes keeps the invariant.                  *)
LEMMA LockKeeps == ASSUME ClaudeInv, NEW f \in Tasks, Lock(f) PROVE ClaudeInv'
<1>1. tries[f].at = "refresh" /\ Quiet /\ lock = Free /\ lock' = f /\ known' = known /\ Step(f, "reload")
  BY DEF Lock, Quiet, stores, provider, world, losses
<1>2. "at" \in DOMAIN tries[f] /\ "cred" \in DOMAIN tries[f] /\ ~Saving(f)
  BY <1>1, TaskShape DEF Saving
<1> DEFINE t == [tries[f] EXCEPT !.at = "reload"]
<1>3. Go(f, t) /\ "at" \in DOMAIN t /\ "cred" \in DOMAIN t /\ t.at = "reload"
  BY <1>1, <1>2 DEF Step
<1>4. Leaves(f, t)
  BY <1>1, <1>3 DEF Leaves
<1> QED
  BY <1>1, <1>2, <1>3, <1>4, QuietLeavingKeeps

(* A launch that starts to sync keeps the invariant.                       *)
LEMMA StartLaunchKeeps == ASSUME ClaudeInv, NEW f \in Tasks, StartLaunch(f) PROVE ClaudeInv'
<1> DEFINE t == [at |-> "sync", kind |-> "launch", attempt |-> 0, cred |-> Unset, again |-> FALSE]
<1>1. tries[f].at = "idle" /\ Quiet /\ lock = Free /\ lock' = f /\ known' = known /\ Go(f, t)
  BY DEF StartLaunch, Quiet, stores, provider, world, losses
<1>2. ~Saving(f) /\ Leaves(f, t)
  BY <1>1 DEF Saving, Leaves
<1> HIDE DEF t
<1> QED
  BY <1>1, <1>2, QuietLeavingKeeps

(* While a task holds the lock it alone may be saving.                     *)
LEMMA OnlyHolderSaves ==
  ASSUME ClaudeInv, NEW f \in Tasks, tries[f].at \in Critical
  PROVE  /\ lock = f /\ lock # Free
         /\ \A g \in Tasks : g # f => tries[g].at \notin Critical /\ ~Saving(g)
<1>1. lock = f /\ f # Free
  BY TaskShape, ClaudeAssumption
<1>2. ASSUME NEW g \in Tasks, g # f PROVE tries[g].at \notin Critical
  BY <1>1, <1>2, TaskShape
<1>3. \A g \in Tasks : Saving(g) => tries[g].at \in Critical
  BY DEF Saving, Critical
<1> QED
  BY <1>1, <1>2, <1>3

(* What was read is where it was read.                                     *)
LEMMA CredTells ==
  ASSUME ClaudeInv, NEW found \in KeychainReads(TRUE), NEW cred, cred \in {found, WithFile(found)}, cred.is = "token"
  PROVE  /\ cred.t \in 1 .. newest /\ cred.from \in Places
         /\ cred.from = "keychain" => keychain # 0 /\ cred.t \in {keychain, known} /\ found.is = "token"
         /\ cred.from = "file" => cred.t = disk
<1>1. /\ ClaudeTypes /\ found.is \in {"token", "missing", "denied"}
      /\ found.is = "token" => found.from = "keychain" /\ found.t \in {keychain, known} /\ found.t # 0 /\ keychain # 0
  BY ReadsTell DEF ClaudeInv
<1>2. newest \in Nat /\ keychain \in 0 .. newest /\ disk \in 0 .. newest /\ known \in 0 .. newest
  BY <1>1 DEF ClaudeTypes
<1>3. CASE cred = found
  BY <1>1, <1>2, <1>3 DEF Places
<1>4. CASE cred # found
  <2>1. cred.from = "file" /\ cred.t = disk /\ disk # 0
    BY <1>1, <1>4, FileTells
  <2> QED
    BY <1>2, <2>1 DEF Places
<1> QED
  BY <1>3, <1>4

(* Going on to exchange a token that was just reread keeps the invariant.  *)
LEMMA PostingKeeps ==
  ASSUME ClaudeInv, NEW f \in Tasks, tries[f].at \in {"reload", "sync"}, Quiet, lock' = lock,
         NEW found \in KeychainReads(TRUE), Knowing(found), NEW cred, cred \in {found, WithFile(found)}, cred.is = "token",
         Posting(f, cred)
  PROVE  ClaudeInv'
<1>0. ClaudeTypes /\ StoresAreUnspent /\ LiveIsStored
  BY DEF ClaudeInv
<1>1. /\ tries[f].at \in Critical /\ ~Saving(f)
      /\ "at" \in DOMAIN tries[f] /\ "cred" \in DOMAIN tries[f]
  <2>1. tries[f].at \in Critical /\ ~Saving(f)
    BY DEF Critical, Saving
  <2> QED
    BY <2>1, TaskShape
<1>2. /\ cred.t \in 1 .. newest /\ cred.from \in Places
      /\ cred.from = "keychain" => keychain # 0 /\ cred.t \in {keychain, known}
      /\ cred.from = "file" => cred.t = disk
  BY CredTells
<1> DEFINE t == [tries[f] EXCEPT !.at = "post", !.cred = cred]
<1>3. Go(f, t) /\ "at" \in DOMAIN t /\ "cred" \in DOMAIN t /\ t.at = "post" /\ t.cred = cred
  BY <1>1 DEF Posting
<1> HIDE DEF t
<1>4. tries'[f] = t
  BY <1>0, <1>3, GoTells
<1>5. lock' = f /\ known' \in {known, keychain, 0}
  BY <1>0, <1>1, OnlyHolderSaves, ReadsTell
<1>6. TaskTells(f)' /\ NewIsNew(f)' /\ MeasureIsTrue(f)'
  BY <1>2, <1>3, <1>4, <1>5 DEF TaskTells, NewIsNew, MeasureIsTrue, Saving, Quiet
<1>7. ExchangeIsSafe(f)'
  <2> SUFFICES ASSUME ~harmed
               PROVE  /\ <<cred.t, cred.from>> \notin spent
                      /\ cred.from = "keychain" => keychain # 0 /\ (keychain \notin live => disk # cred.t)
                      /\ cred.from = "file" => disk = cred.t
    BY <1>3, <1>4 DEF ExchangeIsSafe, Quiet
  <2>1. <<cred.t, cred.from>> \notin spent
    BY <1>0, <1>2 DEF StoresAreUnspent, Places
  <2>2. \A g \in Tasks : ~Saving(g)
    BY <1>1, OnlyHolderSaves
  <2>3. keychain \notin live \union {0} => disk \in live /\ known # disk
    BY <1>0, <2>2 DEF LiveIsStored
  <2> QED
    BY <1>2, <2>1, <2>3
<1>8. harmed \in BOOLEAN
  BY <1>0 DEF ClaudeTypes
<1> QED
  BY <1>1, <1>3, <1>5, <1>6, <1>7, <1>8, QuietKeeps DEF TaskOK, Quiet

(* A launch has its sign-in in the Keychain, or puts it there.             *)
LEMMA LaunchedIsOK ==
  ASSUME ClaudeTypes, NEW f \in Tasks, Launched(f, TRUE)
  PROVE  TaskOK(f)' /\ \E t : Go(f, t)
<1> DEFINE t == [at |-> "launched", found |-> TRUE]
<1>1. Go(f, t) /\ "at" \in DOMAIN t /\ t.at = "launched" /\ t.found = TRUE
  BY DEF Launched
<1> HIDE DEF t
<1>2. tries'[f] = t
  BY <1>1, GoTells
<1> QED
  BY <1>1, <1>2 DEF TaskOK, TaskTells, NewIsNew, ExchangeIsSafe, MeasureIsTrue, Saving, Critical

(* A launch that found no item in the Keychain may seed it.                *)
LEMMA SeedingIsOK ==
  ASSUME ClaudeTypes, NEW f \in Tasks, lock = f, lock' = f, "at" \in DOMAIN tries[f], "cred" \in DOMAIN tries[f],
         NEW cred, cred.t \in 1 .. newest, cred.from \in Places, newest' = newest, disk' # 0,
         Go(f, [tries[f] EXCEPT !.at = "seed", !.cred = cred])
  PROVE  TaskOK(f)'
<1> DEFINE t == [tries[f] EXCEPT !.at = "seed", !.cred = cred]
<1>1. Go(f, t) /\ "at" \in DOMAIN t /\ "cred" \in DOMAIN t /\ t.at = "seed" /\ t.cred = cred
  OBVIOUS
<1> HIDE DEF t
<1>2. tries'[f] = t
  BY <1>1, GoTells
<1> QED
  BY <1>1, <1>2 DEF TaskOK, TaskTells, NewIsNew, ExchangeIsSafe, MeasureIsTrue, Saving, Critical

(* Rereading under the lock keeps the invariant.                           *)
LEMMA ReloadKeeps == ASSUME ClaudeInv, NEW f \in Tasks, Reload(f) PROVE ClaudeInv'
<1>1. tries[f].at = "reload" /\ Quiet
  BY DEF Reload, Quiet, stores, provider, world, losses
<1>2. /\ "at" \in DOMAIN tries[f] /\ "cred" \in DOMAIN tries[f] /\ ~Saving(f) /\ ClaudeTypes
      /\ lock = f
  BY <1>1, TaskShape DEF Saving, Critical
<1>3. PICK found \in KeychainReads(TRUE) : \E held \in {found, WithFile(found)} :
        /\ Knowing(found)
        /\ \/ held.is # "token" /\ RefreshFails(f, held.is)
           \/ held.is = "token" /\ Refreshed(f, held)
           \/ held.is = "token" /\ Posting(f, held) /\ UNCHANGED <<lock, cached>>
  <2>1. PICK found \in KeychainReads(TRUE) :
          LET held == IF tries[f].cred.from = "file" THEN WithFile(found) ELSE found IN
          /\ Knowing(found)
          /\ IF held.is # "token" THEN RefreshFails(f, held.is)
             ELSE IF held.t # tries[f].cred.t /\ ~Expired(held) THEN Refreshed(f, held)
             ELSE Posting(f, held) /\ UNCHANGED <<lock, cached>>
    BY DEF Reload
  <2> DEFINE held == IF tries[f].cred.from = "file" THEN WithFile(found) ELSE found
  <2>2. held \in {found, WithFile(found)}
    OBVIOUS
  <2>3. /\ Knowing(found)
        /\ \/ held.is # "token" /\ RefreshFails(f, held.is)
           \/ held.is = "token" /\ Refreshed(f, held)
           \/ held.is = "token" /\ Posting(f, held) /\ UNCHANGED <<lock, cached>>
    BY <2>1
  <2> QED
    BY <2>2, <2>3
<1>3a. PICK held \in {found, WithFile(found)} :
        /\ Knowing(found)
        /\ \/ held.is # "token" /\ RefreshFails(f, held.is)
           \/ held.is = "token" /\ Refreshed(f, held)
           \/ held.is = "token" /\ Posting(f, held) /\ UNCHANGED <<lock, cached>>
  BY <1>3
<1>4. known' \in {known, keychain, 0}
  BY <1>2, <1>3a, ReadsTell
<1>5. CASE RefreshFails(f, held.is)
  BY <1>1, <1>2, <1>4, <1>5, RefusalTells, QuietLeavingKeeps
<1>6. CASE Refreshed(f, held)
  <2> DEFINE t == [tries[f] EXCEPT !.at = "call", !.cred = held]
  <2>1. Go(f, t) /\ "at" \in DOMAIN t /\ "cred" \in DOMAIN t /\ t.at = "call"
    BY <1>2, <1>6 DEF Refreshed
  <2>2. Leaves(f, t)
    BY <2>1 DEF Leaves
  <2> QED
    BY <1>1, <1>2, <1>4, <2>1, <2>2, QuietLeavingKeeps
<1>7. CASE held.is = "token" /\ Posting(f, held) /\ lock' = lock
  BY <1>1, <1>3a, <1>7, PostingKeeps
<1> QED
  BY <1>3a, <1>5, <1>6, <1>7

(* A launch that rereads Keychain and file keeps the invariant.            *)
LEMMA SyncKeeps == ASSUME ClaudeInv, NEW f \in Tasks, Sync(f) PROVE ClaudeInv'
<1>1. tries[f].at = "sync" /\ Quiet
  BY DEF Sync, Quiet, stores, provider, world, losses
<1>2. /\ "at" \in DOMAIN tries[f] /\ "cred" \in DOMAIN tries[f] /\ ~Saving(f) /\ ClaudeTypes
      /\ lock = f
  BY <1>1, TaskShape DEF Saving, Critical
<1>3. PICK found \in KeychainReads(TRUE) :
        LET cred == WithFile(found) IN
        /\ Knowing(found)
        /\ IF cred.is # "token" THEN SyncFails(f, cred.is)
           ELSE IF Expired(cred) THEN Posting(f, cred) /\ UNCHANGED <<lock, cached>>
           ELSE Synced(f, cred, keychain # 0)
  BY DEF Sync
<1> DEFINE cred == WithFile(found)
<1>4. known' \in {known, keychain, 0}
  BY <1>2, <1>3, ReadsTell
<1>5. CASE SyncFails(f, cred.is)
  BY <1>1, <1>2, <1>4, <1>5, RefusalTells, QuietLeavingKeeps
<1>6. CASE cred.is = "token" /\ Posting(f, cred) /\ lock' = lock
  BY <1>1, <1>3, <1>6, PostingKeeps
<1>7. CASE cred.is = "token" /\ Synced(f, cred, keychain # 0)
  <2>1. /\ cred.t \in 1 .. newest /\ cred.from \in Places
        /\ cred.from = "keychain" => keychain # 0
        /\ cred.from = "file" => cred.t = disk
    BY <1>7, CredTells
  <2>2. TaskOK(f)' /\ \E t : Go(f, t)
    <3>1. CASE cred.from = "keychain"
      <4>1. Launched(f, TRUE)
        <5>1. Launched(f, keychain # 0)
          BY <1>7, <3>1 DEF Synced
        <5>2. (keychain # 0) = TRUE
          BY <2>1, <3>1
        <5> QED
          BY <5>1, <5>2
      <4> QED
        BY <1>2, <4>1, LaunchedIsOK
    <3>2. CASE cred.from # "keychain"
      <4>1. Go(f, [tries[f] EXCEPT !.at = "seed", !.cred = cred]) /\ lock' = lock
        BY <1>7, <3>2 DEF Synced
      <4>2. newest' = newest /\ disk' # 0
        BY <1>1, <1>2, <2>1, <3>2 DEF Quiet, ClaudeTypes, Places
      <4> HIDE DEF cred
      <4> QED
        BY <1>2, <2>1, <4>1, <4>2, SeedingIsOK
    <3> QED
      BY <3>1, <3>2
  <2>3. harmed \in BOOLEAN
    BY <1>2 DEF ClaudeTypes
  <2> QED
    BY <1>1, <1>2, <1>4, <2>2, <2>3, QuietKeeps DEF Quiet
<1> QED
  BY <1>3, <1>5, <1>6, <1>7

(* Tokens are numbered as they are issued.                                 *)
LEMMA TokensGrow ==
  ASSUME ClaudeTypes, newest' = newest + 1
  PROVE  /\ newest' \in Nat /\ newest' \in 1 .. newest' /\ newest' \notin live
         /\ \A n \in 0 .. newest : n \in 0 .. newest' /\ n # newest'
         /\ \A n \in 1 .. newest : n \in 1 .. newest' /\ n # newest'
         /\ live \subseteq 1 .. newest' /\ spent \subseteq (1 .. newest') \X Places
         /\ \A from \in Places : <<newest', from>> \notin spent
<1>1. newest \in Nat /\ live \subseteq 1 .. newest /\ spent \subseteq (1 .. newest) \X Places
  BY DEF ClaudeTypes
<1>2. /\ newest' \in Nat /\ newest' \in 1 .. newest'
      /\ \A n \in 0 .. newest : n \in 0 .. newest' /\ n # newest'
      /\ \A n \in 1 .. newest : n \in 1 .. newest' /\ n # newest'
  BY <1>1
<1> QED
  BY <1>1, <1>2

(* Tokens that are issued newly are not spent.                             *)
LEMMA GrowingKeepsUnspent ==
  ASSUME ClaudeTypes, StoresAreUnspent, newest' = newest + 1, UNCHANGED <<keychain, known, disk, spent>>, harmed => harmed'
  PROVE  StoresAreUnspent'
<1>1. \A t \in 1 .. newest' : t \in 1 .. newest \/ t = newest'
  BY DEF ClaudeTypes
<1>2. "keychain" \in Places /\ <<newest', "keychain">> \notin spent
  BY TokensGrow DEF Places
<1> QED
  BY <1>1, <1>2 DEF StoresAreUnspent

(* The exchange of a token for a new one keeps the invariant.              *)
LEMMA PostKeeps == ASSUME ClaudeInv, NEW f \in Tasks, Post(f) PROVE ClaudeInv'
<1>0. ClaudeTypes /\ StoresAreUnspent /\ LiveIsStored /\ \A g \in Tasks : TaskOK(g)
  BY DEF ClaudeInv
<1> DEFINE cred == tries[f].cred
<1>1. /\ tries[f].at = "post" /\ tries[f].at \in Critical /\ ~Saving(f)
      /\ UNCHANGED <<keychain, blocked, disk, known, home, switches, spent>>
  BY DEF Post, stores, world, Saving, Critical
<1>2. /\ "at" \in DOMAIN tries[f] /\ "cred" \in DOMAIN tries[f] /\ lock = f
      /\ cred.t \in 1 .. newest /\ cred.from \in Places
  BY <1>0, <1>1, TaskShape DEF TaskOK, TaskTells
<1>3. \A g \in Tasks : g # f => tries[g].at \notin Critical /\ ~Saving(g)
  BY <1>1, OnlyHolderSaves
<1>4. CASE \E why : Refused(f, why) /\ UNCHANGED <<provider, harmed>>
  <2>1. Quiet
    BY <1>1, <1>4 DEF Quiet, provider
  <2>2. \E t : Go(f, t) /\ Leaves(f, t)
    BY <1>2, <1>4, RefusalTells
  <2> QED
    BY <1>1, <1>2, <2>1, <2>2, QuietLeavingKeeps
<1>5. ASSUME newest' = newest + 1, live' = (live \ {cred.t}) \union {newest'}, NEW t, Go(f, t), TaskOK(f)',
             harmed' = TRUE \/ (harmed' = harmed /\ Saving(f)')
      PROVE  ClaudeInv'
  <2>1. tries'[f] = t /\ DOMAIN tries' = Tasks /\ \A g \in Tasks : g # f => tries'[g] = tries[g]
    BY <1>0, <1>5, GoTells
  <2>2. \A g \in Tasks : TaskOK(g)'
    <3>1. ASSUME NEW g \in Tasks, g # f PROVE TaskOK(g)'
      <4>1. TaskOK(g) /\ tries'[g] = tries[g] /\ tries[g].at \notin Critical /\ UNCHANGED <<home, switches>>
        BY <1>0, <1>1, <1>3, <2>1, <3>1
      <4>2. tries[g].at \notin {"post", "compare", "save", "seed"}
        BY <4>1 DEF Critical
      <4> QED
        BY <4>1, <4>2, UnlockedStays
    <3> QED
      BY <1>5, <3>1
  <2>3. harmed' \in BOOLEAN /\ (harmed => harmed')
    <3>1. harmed \in BOOLEAN
      BY <1>0 DEF ClaudeTypes
    <3>2. CASE harmed' = TRUE
      BY <3>2
    <3>3. CASE harmed' = harmed
      BY <3>1, <3>3
    <3> QED
      BY <1>5, <3>2, <3>3
  <2>4. ClaudeTypes'
    BY <1>0, <1>1, <1>5, <2>1, <2>3, TokensGrow DEF ClaudeTypes
  <2>5. StoresAreUnspent'
    BY <1>0, <1>1, <1>5, <2>3, GrowingKeepsUnspent
  <2>6. LiveIsStored'
    BY <1>5 DEF LiveIsStored
  <2> QED
    BY <2>2, <2>4, <2>5, <2>6 DEF ClaudeInv
<1>6. CASE newest' = newest + 1 /\ live' = (live \ {cred.t}) \union {newest'} /\ harmed' = TRUE /\ Refused(f, "network")
  <2>1. PICK t : Go(f, t) /\ Leaves(f, t)
    BY <1>2, <1>6, RefusalTells
  <2>2. TaskOK(f)'
    BY <1>0, <2>1, GoTells, LeavingIsOK
  <2> HIDE DEF cred
  <2> QED
    BY <1>5, <1>6, <2>1, <2>2
<1>7. CASE /\ cred.t \in live /\ newest' = newest + 1 /\ live' = (live \ {cred.t}) \union {newest'}
           /\ Go(f, [at |-> "compare", kind |-> tries[f].kind, cred |-> tries[f].cred, new |-> newest',
                     again |-> tries[f].again, attempt |-> IF tries[f].kind = "launch" THEN tries[f].attempt ELSE 0])
           /\ UNCHANGED <<lock, cached, trouble, harmed>>
  <2> DEFINE t == [at |-> "compare", kind |-> tries[f].kind, cred |-> tries[f].cred, new |-> newest',
                   again |-> tries[f].again, attempt |-> IF tries[f].kind = "launch" THEN tries[f].attempt ELSE 0]
  <2>1. /\ Go(f, t) /\ "at" \in DOMAIN t /\ "cred" \in DOMAIN t /\ "new" \in DOMAIN t
        /\ t.at = "compare" /\ t.cred = cred /\ t.new = newest'
    BY <1>7
  <2> HIDE DEF t
  <2>2. tries'[f] = t
    BY <1>0, <2>1, GoTells
  <2>3. ExchangeIsSafe(f)
    BY <1>0 DEF TaskOK
  <2> HIDE DEF cred
  <2>4. cred.t \in 1 .. newest' /\ newest' \in live'
    BY <1>0, <1>2, <1>7, TokensGrow
  <2>5. TaskTells(f)'
    BY <1>2, <1>7, <2>1, <2>2, <2>4 DEF TaskTells, Saving
  <2>6. NewIsNew(f)'
    <3>1. newest' \notin {keychain, disk, known, cred.t} /\ \A from \in Places : <<newest', from>> \notin spent
      <4>1. keychain \in 0 .. newest /\ disk \in 0 .. newest /\ known \in 0 .. newest
        BY <1>0 DEF ClaudeTypes
      <4> QED
        BY <1>0, <1>2, <1>7, <4>1, TokensGrow
    <3> QED
      BY <1>1, <2>1, <2>2, <2>4, <3>1 DEF NewIsNew
  <2>7. ExchangeIsSafe(f)'
    <3> SUFFICES ASSUME ~harmed
                 PROVE  /\ cred.from = "file" /\ disk # cred.t =>
                             disk \in live' /\ keychain \notin {disk, cred.t} /\ keychain \in live' \union {0}
                        /\ InStore(cred) # cred.t => keychain \in live' \/ disk \in live'
      BY <1>1, <1>7, <2>1, <2>2 DEF ExchangeIsSafe, InStore, LiveStored
    <3>1. \A g \in Tasks : ~Saving(g)
      BY <1>1, <1>3
    <3>2. keychain \notin live \union {0} => disk \in live
      BY <1>0, <3>1 DEF LiveIsStored
    <3>3. /\ cred.from = "keychain" => keychain # 0 /\ (keychain \notin live => disk # cred.t)
          /\ cred.from = "file" /\ disk # cred.t =>
               disk \in live /\ keychain \notin {disk, cred.t} /\ keychain \in live \union {0}
      BY <1>1, <2>3 DEF ExchangeIsSafe, cred
    <3>4. CASE cred.from = "file"
      <4>1. InStore(cred) = disk
        BY <3>4 DEF InStore
      <4>2. disk # cred.t => disk \in live' /\ keychain \notin {disk, cred.t} /\ keychain \in live' \union {0}
        BY <1>7, <3>3, <3>4
      <4> QED
        BY <3>4, <4>1, <4>2
    <3>5. CASE cred.from = "keychain"
      <4>1. InStore(cred) = keychain
        BY <3>5 DEF InStore
      <4> QED
        BY <1>7, <3>2, <3>3, <3>5, <4>1
    <3> QED
      BY <1>2, <3>4, <3>5 DEF Places
  <2>8. MeasureIsTrue(f)' /\ Saving(f)'
    BY <2>1, <2>2 DEF MeasureIsTrue, Saving
  <2> QED
    BY <1>5, <1>7, <2>1, <2>5, <2>6, <2>7, <2>8 DEF TaskOK
<1>8. \/ \E why : Refused(f, why) /\ UNCHANGED <<provider, harmed>>
      \/ newest' = newest + 1 /\ live' = (live \ {cred.t}) \union {newest'} /\ harmed' = TRUE /\ Refused(f, "network")
      \/ /\ cred.t \in live /\ newest' = newest + 1 /\ live' = (live \ {cred.t}) \union {newest'}
         /\ Go(f, [at |-> "compare", kind |-> tries[f].kind, cred |-> tries[f].cred, new |-> newest',
                   again |-> tries[f].again, attempt |-> IF tries[f].kind = "launch" THEN tries[f].attempt ELSE 0])
         /\ UNCHANGED <<lock, cached, trouble, harmed>>
  BY DEF Post
<1> QED
  BY <1>4, <1>6, <1>7, <1>8

(* Rereading before the new token is saved keeps the invariant.            *)
LEMMA CompareKeeps == ASSUME ClaudeInv, NEW f \in Tasks, Compare(f) PROVE ClaudeInv'
<1>0. ClaudeTypes /\ TaskTells(f) /\ NewIsNew(f) /\ ExchangeIsSafe(f)
  BY DEF ClaudeInv, TaskOK
<1> DEFINE cred == tries[f].cred
           refused == cred.from = "keychain" /\ (blocked \/ keychain = 0)
<1>1. /\ tries[f].at = "compare" /\ Saving(f) /\ tries[f].at \in Critical
      /\ UNCHANGED <<keychain, blocked, disk, newest, live, spent, home, switches>>
  BY DEF Compare, stores, provider, world, Saving, Critical
<1>2. /\ "at" \in DOMAIN tries[f] /\ "cred" \in DOMAIN tries[f] /\ "new" \in DOMAIN tries[f] /\ lock = f
      /\ cred.t \in 1 .. newest /\ cred.from \in Places /\ harmed \in BOOLEAN
  BY <1>0, <1>1 DEF TaskTells, ClaudeTypes
<1>3. CASE Step(f, "save") /\ UNCHANGED <<lock, known, harmed>>
  <2> DEFINE t == [tries[f] EXCEPT !.at = "save"]
  <2>1. /\ Go(f, t) /\ "at" \in DOMAIN t /\ "cred" \in DOMAIN t /\ "new" \in DOMAIN t
        /\ t.at = "save" /\ t.cred = cred /\ t.new = tries[f].new
    BY <1>2, <1>3 DEF Step
  <2> HIDE DEF t
  <2>2. tries'[f] = t
    BY <1>0, <2>1, GoTells
  <2> HIDE DEF cred, refused
  <2>3. TaskTells(f)' /\ Saving(f)'
    BY <1>1, <1>2, <1>3, <2>1, <2>2 DEF TaskTells, Saving
  <2>4. NewIsNew(f)'
    BY <1>0, <1>1, <1>3, <2>1, <2>2 DEF NewIsNew, cred
  <2>5. ExchangeIsSafe(f)' /\ MeasureIsTrue(f)'
    BY <1>0, <1>1, <1>3, <2>1, <2>2 DEF ExchangeIsSafe, MeasureIsTrue, cred
  <2> QED
    BY <1>1, <1>2, <1>3, <2>1, <2>3, <2>4, <2>5, QuietKeeps DEF TaskOK
<1>4. CASE /\ refused \/ InStore(cred) # cred.t
           /\ \E why : Refused(f, why)
           /\ known' = IF cred.from = "keychain" THEN 0 ELSE known
           /\ harmed' = (harmed \/ refused)
  <2>1. known' \in {known, keychain, 0} /\ \E t : Go(f, t) /\ Leaves(f, t)
    BY <1>2, <1>4, RefusalTells
  <2>2. refused \in BOOLEAN
    OBVIOUS
  <2>3. harmed' \in BOOLEAN /\ (harmed => harmed')
    BY <1>2, <1>4, <2>2
  <2>4. ASSUME ~harmed' PROVE LiveStored /\ (keychain \notin live \union {0} => disk \in live /\ known' # disk)
    <3>1. ~harmed /\ InStore(cred) # cred.t
      BY <1>4, <2>4
    <3>2. LiveStored /\ (cred.from = "file" /\ disk # cred.t => keychain \in live \union {0})
      BY <1>0, <1>1, <3>1 DEF ExchangeIsSafe
    <3>3. CASE cred.from = "file"
      BY <3>1, <3>2, <3>3 DEF InStore
    <3>4. CASE cred.from = "keychain"
      BY <1>0, <1>4, <3>2, <3>4 DEF LiveStored, ClaudeTypes
    <3> QED
      BY <1>2, <3>3, <3>4 DEF Places
  <2> QED
    BY <1>1, <1>2, <2>1, <2>3, <2>4, LeavingKeeps
<1>5. \/ Step(f, "save") /\ UNCHANGED <<lock, known, harmed>>
      \/ /\ refused \/ InStore(cred) # cred.t
         /\ \E why : Refused(f, why)
         /\ known' = IF cred.from = "keychain" THEN 0 ELSE known
         /\ harmed' = (harmed \/ refused)
  BY DEF Compare
<1> QED
  BY <1>3, <1>4, <1>5

(* What the holder of the lock stores leaves the other tasks as they are.  *)
LEMMA HolderKeepsOthers ==
  ASSUME ClaudeInv, NEW f \in Tasks, tries[f].at \in Critical, NEW t, Go(f, t), TaskOK(f)', UNCHANGED <<home, switches>>
  PROVE  (\A g \in Tasks : TaskOK(g)') /\ DOMAIN tries' = Tasks /\ \A g \in Tasks : ~Saving(g)' \/ g = f
<1>1. tries'[f] = t /\ DOMAIN tries' = Tasks /\ \A g \in Tasks : g # f => tries'[g] = tries[g]
  BY GoTells DEF ClaudeInv
<1>2. \A g \in Tasks : g # f => tries[g].at \notin Critical /\ ~Saving(g)
  BY OnlyHolderSaves
<1>3. ASSUME NEW g \in Tasks, g # f PROVE TaskOK(g)' /\ ~Saving(g)'
  <2>1. tries'[g] = tries[g] /\ tries[g].at \notin Critical /\ ~Saving(g) /\ TaskOK(g)
    BY <1>1, <1>2, <1>3 DEF ClaudeInv
  <2>2. ~Saving(g)'
    BY <2>1 DEF Saving
  <2> QED
    BY <2>1, <2>2, UnlockedStays
<1> QED
  BY <1>1, <1>3

(* A token that is saved succeeds the one exchanged.                       *)
LEMMA SuccessorTells ==
  ASSUME NEW cred, NEW n
  PROVE  Successor(cred, n).t = n /\ Successor(cred, n).from = cred.from
  BY DEF Successor, Of

(* Saving the new token keeps the invariant.                               *)
LEMMA SaveKeeps == ASSUME ClaudeInv, NEW f \in Tasks, Save(f) PROVE ClaudeInv'
<1>0. ClaudeTypes /\ StoresAreUnspent /\ LiveIsStored /\ TaskTells(f) /\ NewIsNew(f)
  BY DEF ClaudeInv, TaskOK
<1> DEFINE from == tries[f].cred.from
           old == tries[f].cred.t
           new == tries[f].new
           cred == Successor(tries[f].cred, new)
<1>1. /\ tries[f].at = "save" /\ Saving(f) /\ tries[f].at \in Critical
      /\ UNCHANGED <<blocked, newest, live, home, switches, harmed>>
      /\ spent' = spent \union {<<old, from>>}
      /\ IF from = "keychain" THEN keychain' = new /\ known' = new /\ UNCHANGED disk
                              ELSE disk' = new /\ UNCHANGED <<keychain, known>>
      /\ IF tries[f].kind # "launch" THEN Refreshed(f, cred) ELSE Synced(f, cred, TRUE)
  <2>1. /\ tries[f].at = "save" /\ UNCHANGED <<blocked, newest, live, home, switches, harmed>>
        /\ spent' = spent \union {<<old, cred.from>>}
        /\ IF cred.from = "keychain" THEN keychain' = new /\ known' = new /\ UNCHANGED disk
                                     ELSE disk' = new /\ UNCHANGED <<keychain, known>>
        /\ IF tries[f].kind # "launch" THEN Refreshed(f, cred) ELSE Synced(f, cred, TRUE)
    BY DEF Save, provider, world
  <2>2. cred.from = from
    BY SuccessorTells
  <2>3. Saving(f) /\ tries[f].at \in Critical
    BY <2>1 DEF Saving, Critical
  <2> HIDE DEF from, old, new, cred
  <2> QED
    BY <2>1, <2>2, <2>3
<1>2. /\ "at" \in DOMAIN tries[f] /\ "cred" \in DOMAIN tries[f] /\ lock = f
      /\ old \in 1 .. newest /\ from \in Places
      /\ new \in live /\ new \notin {keychain, disk, known, old} /\ \A p \in Places : <<new, p>> \notin spent
  BY <1>0, <1>1 DEF TaskTells, NewIsNew
<1>3. new \in 1 .. newest /\ new # 0 /\ cred.t = new /\ cred.from = from
  <2>1. cred.t = new /\ cred.from = from
    BY SuccessorTells
  <2> HIDE DEF new, cred, from
  <2>2. new \in 1 .. newest /\ newest \in Nat
    BY <1>0, <1>2 DEF ClaudeTypes
  <2> QED
    BY <2>1, <2>2
<1> HIDE DEF from, old, new, cred
<1>4. TaskOK(f)' /\ \E t : Go(f, t) /\ (t.at \notin {"compare", "save"})
  <2>1. CASE Refreshed(f, cred)
    <3> DEFINE t == [tries[f] EXCEPT !.at = "call", !.cred = cred]
    <3>1. Go(f, t) /\ "at" \in DOMAIN t /\ "cred" \in DOMAIN t /\ t.at = "call"
      BY <1>2, <2>1 DEF Refreshed
    <3>2. Leaves(f, t) /\ tries'[f] = t
      BY <1>0, <3>1, GoTells DEF Leaves
    <3> QED
      BY <3>1, <3>2, LeavingIsOK
  <2>2. CASE Launched(f, TRUE)
    <3> DEFINE t == [at |-> "launched", found |-> TRUE]
    <3>1. Go(f, t) /\ t.at = "launched"
      BY <2>2 DEF Launched
    <3>2. TaskOK(f)'
      BY <1>0, <2>2, LaunchedIsOK
    <3> HIDE DEF t
    <3> QED
      BY <3>1, <3>2
  <2>3. CASE from = "file" /\ Go(f, [tries[f] EXCEPT !.at = "seed", !.cred = cred]) /\ UNCHANGED lock
    <3>1. disk' # 0
      BY <1>1, <1>3, <2>3
    <3>2. TaskOK(f)'
      BY <1>0, <1>1, <1>2, <1>3, <2>3, <3>1, SeedingIsOK
    <3>3. [tries[f] EXCEPT !.at = "seed", !.cred = cred].at = "seed"
      BY <1>2
    <3> QED
      BY <2>3, <3>2, <3>3
  <2> QED
    BY <1>1, <1>2, <1>3, <2>1, <2>2, <2>3 DEF Synced, Places
<1>5. PICK t : Go(f, t) /\ t.at \notin {"compare", "save"}
  BY <1>4
<1>6. (\A g \in Tasks : TaskOK(g)') /\ DOMAIN tries' = Tasks
  BY <1>1, <1>4, <1>5, HolderKeepsOthers
<1>7. ClaudeTypes'
  BY <1>0, <1>1, <1>2, <1>3, <1>6 DEF ClaudeTypes
<1>8. StoresAreUnspent'
  <2> SUFFICES ASSUME ~harmed
               PROVE  /\ <<keychain', "keychain">> \notin spent' /\ <<known', "keychain">> \notin spent' /\ <<disk', "file">> \notin spent'
                      /\ keychain' = 0 => \A n \in 1 .. newest : <<n, "keychain">> \notin spent'
    BY <1>1 DEF StoresAreUnspent
  <2>1. CASE from = "keychain"
    BY <1>0, <1>1, <1>2, <1>3, <2>1 DEF StoresAreUnspent, Places
  <2>2. CASE from = "file"
    BY <1>0, <1>1, <1>2, <1>3, <2>2 DEF StoresAreUnspent, Places
  <2> QED
    BY <1>2, <2>1, <2>2 DEF Places
<1>9. LiveIsStored'
  BY <1>1, <1>2 DEF LiveIsStored, LiveStored
<1> QED
  BY <1>6, <1>7, <1>8, <1>9 DEF ClaudeInv

(* Seeding the Keychain from the file keeps the invariant.                 *)
LEMMA SeedKeeps == ASSUME ClaudeInv, NEW f \in Tasks, Seed(f) PROVE ClaudeInv'
<1>0. ClaudeTypes /\ StoresAreUnspent /\ LiveIsStored /\ TaskTells(f)
  BY DEF ClaudeInv, TaskOK
<1>1. /\ tries[f].at = "seed" /\ ~Saving(f) /\ tries[f].at \in Critical
      /\ UNCHANGED <<blocked, disk, newest, live, spent, harmed, home, switches>>
  BY DEF Seed, provider, world, losses, Saving, Critical
<1>2. /\ "at" \in DOMAIN tries[f] /\ "cred" \in DOMAIN tries[f] /\ lock = f
      /\ tries[f].cred.t \in 1 .. newest /\ disk # 0
  BY <1>0, <1>1 DEF TaskTells
<1>3. CASE known' = 0 /\ UNCHANGED keychain /\ \E why : SyncFails(f, why)
  <2>1. Quiet
    BY <1>1, <1>3 DEF Quiet
  <2>2. \E t : Go(f, t) /\ Leaves(f, t)
    BY <1>2, <1>3, RefusalTells
  <2> QED
    BY <1>1, <1>2, <1>3, <2>1, <2>2, QuietLeavingKeeps
<1>4. CASE keychain = 0 /\ keychain' = tries[f].cred.t /\ known' = keychain' /\ Launched(f, TRUE)
  <2>1. Go(f, [at |-> "launched", found |-> TRUE]) /\ TaskOK(f)'
    BY <1>0, <1>4, LaunchedIsOK DEF Launched
  <2>2. (\A g \in Tasks : TaskOK(g)') /\ DOMAIN tries' = Tasks
    BY <1>1, <2>1, HolderKeepsOthers
  <2>3. ClaudeTypes'
    BY <1>0, <1>1, <1>2, <1>4, <2>2 DEF ClaudeTypes
  <2>4. StoresAreUnspent'
    BY <1>0, <1>1, <1>2, <1>4 DEF StoresAreUnspent
  <2>5. LiveIsStored'
    <3>1. \A g \in Tasks : ~Saving(g)
      BY <1>1, OnlyHolderSaves
    <3>2. ~harmed => disk \in live
      BY <1>0, <1>2, <1>4, <3>1 DEF LiveIsStored, LiveStored, ClaudeTypes
    <3> QED
      BY <1>1, <1>4, <3>2 DEF LiveIsStored, LiveStored
  <2> QED
    BY <2>2, <2>3, <2>4, <2>5 DEF ClaudeInv
<1> QED
  BY <1>3, <1>4 DEF Seed

(* Choosing what to measure with keeps the invariant.                      *)
LEMMA MeasureKeeps == ASSUME ClaudeInv, NEW f \in Tasks, Measure(f) PROVE ClaudeInv'
<1>1. tries[f].at = "cli" /\ Quiet /\ lock' = lock /\ ClaudeTypes /\ ~Saving(f)
  BY DEF Measure, Quiet, stores, provider, world, losses, ClaudeInv, Saving
<1>2. known' \in {known, keychain, 0} /\ (Ends(f) \/ (home = "a" /\ Go(f, [at |-> "native", since |-> switches])))
  <2>1. CASE MeasuresWith(f, cached) /\ UNCHANGED known
    BY <2>1 DEF MeasuresWith, HomeIs
  <2>2. CASE \E found \in KeychainReads(FALSE) : Knowing(found) /\ MeasuresWith(f, WithFile(found))
    <3>1. PICK found \in KeychainReads(FALSE) : Knowing(found) /\ MeasuresWith(f, WithFile(found))
      BY <2>2
    <3>2. known' \in {known, keychain, 0}
      BY <1>1, <3>1, ReadsTell
    <3> QED
      BY <3>1, <3>2 DEF MeasuresWith, HomeIs
  <2> QED
    BY <2>1, <2>2 DEF Measure
<1>3. CASE Ends(f)
  <2>1. Go(f, [at |-> "ended"]) /\ Leaves(f, [at |-> "ended"])
    BY <1>3 DEF Ends, Leaves
  <2> QED
    BY <1>1, <1>2, <2>1, QuietLeavingKeeps
<1>4. CASE home = "a" /\ Go(f, [at |-> "native", since |-> switches])
  <2> DEFINE t == [at |-> "native", since |-> switches]
  <2>1. Go(f, t) /\ "at" \in DOMAIN t /\ t.at = "native" /\ t.since = switches
    BY <1>4
  <2> HIDE DEF t
  <2>2. tries'[f] = t
    BY <1>1, <2>1, GoTells
  <2>3. switches \in Nat /\ home' = home /\ switches' = switches /\ harmed \in BOOLEAN
    BY <1>1 DEF Quiet, ClaudeTypes
  <2>4. MeasureIsTrue(f)'
    BY <1>4, <2>1, <2>2, <2>3 DEF MeasureIsTrue
  <2>5. TaskTells(f)' /\ NewIsNew(f)' /\ ExchangeIsSafe(f)'
    BY <2>1, <2>2 DEF TaskTells, NewIsNew, ExchangeIsSafe, Saving, Critical
  <2> QED
    BY <1>1, <1>2, <2>1, <2>3, <2>4, <2>5, QuietKeeps DEF TaskOK, Quiet
<1> QED
  BY <1>2, <1>3, <1>4

(* What Claude Code measures with its own sign-in keeps the invariant.     *)
LEMMA NativeKeeps == ASSUME ClaudeInv, NEW f \in Tasks, Native(f) PROVE ClaudeInv'
<1> DEFINE t == [at |-> "validate", since |-> tries[f].since, whose |-> home]
<1>1. /\ tries[f].at = "native" /\ Quiet /\ lock' = lock /\ known' = known /\ ~Saving(f)
      /\ Go(f, t) /\ "at" \in DOMAIN t /\ t.at = "validate" /\ t.since = tries[f].since /\ t.whose = home
  BY DEF Native, Quiet, stores, provider, world, losses, Saving
<1> HIDE DEF t
<1>2. ClaudeTypes /\ MeasureIsTrue(f)
  BY DEF ClaudeInv, TaskOK
<1>3. tries'[f] = t
  BY <1>1, <1>2, GoTells
<1>4. MeasureIsTrue(f)'
  BY <1>1, <1>2, <1>3 DEF MeasureIsTrue, Quiet
<1>5. TaskTells(f)' /\ NewIsNew(f)' /\ ExchangeIsSafe(f)'
  BY <1>1, <1>3 DEF TaskTells, NewIsNew, ExchangeIsSafe, Saving, Critical
<1>6. harmed \in BOOLEAN
  BY <1>2 DEF ClaudeTypes
<1> QED
  BY <1>1, <1>4, <1>5, <1>6, QuietKeeps DEF TaskOK, Quiet

(* Validating that a measurement is of the account keeps the invariant.    *)
LEMMA ValidateKeeps == ASSUME ClaudeInv, NEW f \in Tasks, Validate(f) PROVE ClaudeInv'
<1>1. tries[f].at = "validate" /\ Quiet /\ lock' = lock /\ known' = known /\ ~Saving(f)
  BY DEF Validate, Quiet, stores, provider, world, losses, Saving
<1>2. ClaudeTypes /\ MeasureIsTrue(f)
  BY DEF ClaudeInv, TaskOK
<1>3. CASE Ends(f)
  <2>1. Go(f, [at |-> "ended"]) /\ Leaves(f, [at |-> "ended"])
    BY <1>3 DEF Ends, Leaves
  <2> QED
    BY <1>1, <2>1, QuietLeavingKeeps
<1>4. CASE home = "a" /\ Go(f, [at |-> "measured", whose |-> tries[f].whose, switched |-> switches - tries[f].since])
  <2> DEFINE t == [at |-> "measured", whose |-> tries[f].whose, switched |-> switches - tries[f].since]
  <2>1. /\ Go(f, t) /\ "at" \in DOMAIN t /\ t.at = "measured"
        /\ t.whose = tries[f].whose /\ t.switched = switches - tries[f].since
    BY <1>4
  <2> HIDE DEF t
  <2>2. tries'[f] = t
    BY <1>2, <2>1, GoTells
  <2>3. switches - tries[f].since <= 1 => tries[f].whose = "a"
    <3>1. /\ switches \in Nat /\ tries[f].since \in Nat /\ tries[f].since <= switches
          /\ switches = tries[f].since => tries[f].whose = "a"
          /\ switches # tries[f].since + 1
      BY <1>1, <1>2, <1>4 DEF MeasureIsTrue, ClaudeTypes
    <3> QED
      BY <3>1
  <2>4. MeasureIsTrue(f)'
    BY <2>1, <2>2, <2>3 DEF MeasureIsTrue
  <2>5. TaskTells(f)' /\ NewIsNew(f)' /\ ExchangeIsSafe(f)'
    BY <2>1, <2>2 DEF TaskTells, NewIsNew, ExchangeIsSafe, Saving, Critical
  <2>6. harmed \in BOOLEAN
    BY <1>2 DEF ClaudeTypes
  <2> QED
    BY <1>1, <2>1, <2>4, <2>5, <2>6, QuietKeeps DEF TaskOK, Quiet
<1> QED
  BY <1>3, <1>4 DEF Validate, HomeIs

(* What others do to the sign-in while tasks use it.                       *)
LEMMA MeasuresStay ==
  ASSUME NEW f \in Tasks, MeasureIsTrue(f), tries' = tries, switches \in Nat, home' \in {"a", "b"},
         switches' = IF home' = home THEN switches ELSE switches + 1
  PROVE  MeasureIsTrue(f)'
<1>1. CASE tries[f].at \in {"native", "validate"}
  <2>1. tries[f].since \in Nat /\ tries[f].since <= switches
    BY <1>1 DEF MeasureIsTrue
  <2>2. CASE home' = home
    BY <1>1, <2>2 DEF MeasureIsTrue
  <2>3. CASE home' # home
    <3>1. switches' = switches + 1
      BY <2>3
    <3>2. tries[f].since <= switches' /\ switches' # tries[f].since
      BY <2>1, <3>1
    <3>3. switches' = tries[f].since + 1 => switches = tries[f].since
      BY <2>1, <3>1
    <3>4. switches' = tries[f].since + 1 => home' = "b"
      BY <1>1, <2>3, <3>3 DEF MeasureIsTrue
    <3> QED
      BY <1>1, <2>1, <3>2, <3>4 DEF MeasureIsTrue
  <2> QED
    BY <2>2, <2>3
<1>2. CASE tries[f].at \notin {"native", "validate"}
  BY <1>2 DEF MeasureIsTrue
<1> QED
  BY <1>1, <1>2

(* A token that another program is issued, and stores, keeps the           *)
(* invariant.                                                              *)
LEMMA IssueKeeps ==
  ASSUME ClaudeInv, NEW replaced \in {{}, {keychain}}, Issued(replaced), UNCHANGED <<known, tries, lock, spent>>,
         home' \in {"a", "b"}, switches' = IF home' = home THEN switches ELSE switches + 1
  PROVE  ClaudeInv'
<1>0. ClaudeTypes /\ StoresAreUnspent /\ LiveIsStored /\ \A g \in Tasks : TaskOK(g)
  BY DEF ClaudeInv
<1>1. /\ newest' = newest + 1 /\ live' = (live \ replaced) \union {newest'} /\ UNCHANGED <<blocked, harmed>>
      /\ \/ keychain' = newest' /\ disk' = disk
         \/ keychain = 0 /\ disk' = newest' /\ keychain' = keychain
  BY DEF Issued
<1>2. /\ newest' \in 1 .. newest' /\ newest' \notin {keychain, disk, known, 0} /\ newest' \in live' /\ newest' \notin live
      /\ newest' \in Nat /\ \A n \in 1 .. newest : n \in 1 .. newest' /\ n # newest'
      /\ \A from \in Places : <<newest', from>> \notin spent
      /\ 0 \notin live /\ live' \subseteq 1 .. newest' /\ spent \subseteq (1 .. newest') \X Places
      /\ keychain \in 0 .. newest' /\ disk \in 0 .. newest' /\ known \in 0 .. newest'
  <2>1. newest \in Nat /\ keychain \in 0 .. newest /\ disk \in 0 .. newest /\ known \in 0 .. newest /\ live \subseteq 1 .. newest
    BY <1>0 DEF ClaudeTypes
  <2>2. /\ newest' \in Nat /\ newest' \in 1 .. newest' /\ newest' \notin live
        /\ \A n \in 0 .. newest : n \in 0 .. newest' /\ n # newest'
        /\ \A n \in 1 .. newest : n \in 1 .. newest' /\ n # newest'
        /\ live \subseteq 1 .. newest' /\ spent \subseteq (1 .. newest') \X Places
        /\ \A from \in Places : <<newest', from>> \notin spent
    BY <1>0, <1>1, TokensGrow
  <2>3. /\ keychain \in 0 .. newest' /\ disk \in 0 .. newest' /\ known \in 0 .. newest'
        /\ newest' \notin {keychain, disk, known, 0} /\ 0 \notin live
    BY <2>1, <2>2
  <2>4. newest' \in live' /\ live' \subseteq 1 .. newest'
    BY <1>1, <2>2
  <2> QED
    BY <2>2, <2>3, <2>4
<1>3. \A n \in live : n # keychain => n \in live'
  BY <1>1
<1>4. ClaudeTypes'
  <2>1. switches' \in Nat
    BY <1>0 DEF ClaudeTypes
  <2> QED
    BY <1>0, <1>1, <1>2, <2>1 DEF ClaudeTypes
<1>5. StoresAreUnspent'
  <2>1. \A n \in 1 .. newest' : n \in 1 .. newest \/ n = newest'
    BY <1>0, <1>1 DEF ClaudeTypes
  <2> QED
    BY <1>0, <1>1, <1>2, <2>1 DEF StoresAreUnspent, Places
<1>6. LiveIsStored'
  BY <1>1, <1>2 DEF LiveIsStored, LiveStored
<1>7. ASSUME NEW f \in Tasks PROVE TaskOK(f)'
  <2>0. TaskTells(f) /\ NewIsNew(f) /\ ExchangeIsSafe(f) /\ MeasureIsTrue(f)
    BY <1>0 DEF TaskOK
  <2>1. TaskTells(f)'
    BY <1>1, <1>2, <2>0 DEF TaskTells, Saving
  <2>2. NewIsNew(f)'
    <3> SUFFICES ASSUME Saving(f)
                 PROVE  /\ tries[f].new \in live' /\ tries[f].new \notin {keychain', disk', known, tries[f].cred.t}
                        /\ \A from \in Places : <<tries[f].new, from>> \notin spent
      BY DEF NewIsNew, Saving
    <3>1. /\ tries[f].new \in live /\ tries[f].new \notin {keychain, disk, known, tries[f].cred.t}
          /\ \A from \in Places : <<tries[f].new, from>> \notin spent
      BY <2>0 DEF NewIsNew
    <3> QED
      BY <1>1, <1>2, <1>3, <3>1
  <2>3. ExchangeIsSafe(f)'
    <3> DEFINE c == tries[f].cred
               where == tries[f].at
    <3>0. where \in {"post", "compare", "save"} => c.t \in 1 .. newest
      BY <2>0 DEF TaskTells
    <3>1. keychain' \in live' \/ (keychain' = 0 /\ keychain = 0 /\ disk' \in live')
      BY <1>1, <1>2
    <3> SUFFICES ASSUME ~harmed
                 PROVE  /\ where = "post" => <<c.t, c.from>> \notin spent
                        /\ where = "post" /\ c.from = "keychain" => keychain' # 0 /\ (keychain' \notin live' => disk' # c.t)
                        /\ where \in {"post", "compare", "save"} /\ c.from = "file" /\ disk' # c.t =>
                             disk' \in live' /\ keychain' \notin {disk', c.t} /\ keychain' \in live' \union {0}
                        /\ keychain' \in live' \/ disk' \in live'
      BY <1>1 DEF ExchangeIsSafe, LiveStored
    <3>2. where = "post" => <<c.t, c.from>> \notin spent
      BY <2>0 DEF ExchangeIsSafe
    <3>3. where = "post" /\ c.from = "keychain" => keychain # 0
      BY <2>0 DEF ExchangeIsSafe
    <3>4. where \in {"post", "compare", "save"} /\ c.from = "file" /\ disk # c.t =>
            disk \in live /\ keychain \notin {disk, c.t} /\ keychain \in live \union {0}
      BY <2>0 DEF ExchangeIsSafe
    <3> HIDE DEF c, where
    <3>5. CASE keychain' = newest' /\ disk' = disk
      BY <1>2, <1>3, <3>0, <3>2, <3>4, <3>5
    <3>6. CASE keychain = 0 /\ disk' = newest' /\ keychain' = keychain
      BY <1>2, <3>0, <3>2, <3>3, <3>6
    <3> QED
      BY <1>1, <3>5, <3>6
  <2>4. MeasureIsTrue(f)'
    BY <1>0, <2>0, MeasuresStay DEF ClaudeTypes
  <2> QED
    BY <2>1, <2>2, <2>3, <2>4 DEF TaskOK
<1> QED
  BY <1>4, <1>5, <1>6, <1>7 DEF ClaudeInv

(* What other programs do to stores and sign-in keeps the invariant.       *)
LEMMA OthersKeep == ASSUME ClaudeInv, Others PROVE ClaudeInv'
<1>0. ClaudeTypes /\ StoresAreUnspent /\ LiveIsStored /\ \A g \in Tasks : TaskOK(g)
  BY DEF ClaudeInv
<1>1. UNCHANGED <<known, tries, lock, spent>>
  BY DEF Others
<1>2. CASE Issued({keychain}) /\ UNCHANGED <<home, switches>>
  BY <1>0, <1>1, <1>2, IssueKeeps DEF ClaudeTypes
<1>3. CASE \E who \in {"a", "b"} :
             Issued({}) /\ home' = who /\ switches' = IF who = home THEN switches ELSE switches + 1
  BY <1>1, <1>3, IssueKeeps
<1>4. CASE keychain' = 0 /\ harmed' = TRUE /\ UNCHANGED <<blocked, disk, newest, live, home, switches>>
  <2>1. ClaudeTypes' /\ StoresAreUnspent' /\ LiveIsStored'
    BY <1>0, <1>1, <1>4 DEF ClaudeTypes, StoresAreUnspent, LiveIsStored
  <2>2. ASSUME NEW f \in Tasks PROVE TaskOK(f)'
    <3>0. TaskTells(f) /\ NewIsNew(f) /\ MeasureIsTrue(f)
      BY <1>0 DEF TaskOK
    <3>1. TaskTells(f)' /\ MeasureIsTrue(f)' /\ ExchangeIsSafe(f)'
      BY <1>1, <1>4, <3>0 DEF TaskTells, MeasureIsTrue, ExchangeIsSafe, Saving
    <3>2. NewIsNew(f)'
      <4>1. 0 \notin live
        BY <1>0 DEF ClaudeTypes
      <4> QED
        BY <1>1, <1>4, <3>0, <4>1 DEF NewIsNew, Saving
    <3> QED
      BY <3>1, <3>2 DEF TaskOK
  <2> QED
    BY <2>1, <2>2 DEF ClaudeInv
<1>5. CASE blocked' = ~blocked /\ UNCHANGED <<keychain, disk, newest, live, home, switches, harmed>>
  <2>1. blocked' \in BOOLEAN
    BY <1>5
  <2>2. ClaudeTypes' /\ StoresAreUnspent' /\ LiveIsStored'
    BY <1>0, <1>1, <1>5, <2>1 DEF ClaudeTypes, StoresAreUnspent, LiveIsStored, LiveStored, Saving
  <2>3. ASSUME NEW f \in Tasks PROVE TaskOK(f)'
    BY <1>0, <1>1, <1>5, QuietStays
  <2> QED
    BY <2>2, <2>3 DEF ClaudeInv
<1> QED
  BY <1>2, <1>3, <1>4, <1>5 DEF Others, provider

(* A step of others keeps the invariant.                                   *)
LEMMA NothingKeeps ==
  ASSUME ClaudeInv, UNCHANGED <<keychain, blocked, disk, known, newest, live, home, switches, tries, lock, spent, harmed>>
  PROVE  ClaudeInv'
<1>0. ClaudeTypes /\ StoresAreUnspent /\ LiveIsStored /\ \A g \in Tasks : TaskOK(g)
  BY DEF ClaudeInv
<1>1. ClaudeTypes' /\ StoresAreUnspent' /\ LiveIsStored'
  BY <1>0 DEF ClaudeTypes, StoresAreUnspent, LiveIsStored, LiveStored, Saving
<1>2. ASSUME NEW f \in Tasks PROVE TaskOK(f)'
  BY <1>0, QuietStays
<1> QED
  BY <1>1, <1>2 DEF ClaudeInv

(* At first no task runs, and what is stored is live or missing.           *)
LEMMA ClaudeStart == ASSUME ClaudeInit PROVE ClaudeInv
<1>1. /\ keychain \in {0, 1} /\ disk \in {0, 1} /\ blocked \in BOOLEAN
      /\ known = 0 /\ newest = 1 /\ live = {1} /\ home = "a"
      /\ tries = [f \in Tasks |-> Resting] /\ spent = {} /\ harmed = FALSE /\ switches = 0
  BY DEF ClaudeInit
<1>2. ClaudeTypes
  <2>1. newest \in Nat /\ keychain \in 0 .. newest /\ disk \in 0 .. newest /\ known \in 0 .. newest /\ live \subseteq 1 .. newest
    BY <1>1
  <2>2. DOMAIN tries = Tasks /\ spent \subseteq (1 .. newest) \X Places
    BY <1>1
  <2>3. blocked \in BOOLEAN /\ harmed \in BOOLEAN /\ switches \in Nat /\ home \in {"a", "b"}
    BY <1>1
  <2> QED
    BY <2>1, <2>2, <2>3 DEF ClaudeTypes
<1>3. StoresAreUnspent /\ LiveIsStored
  BY <1>1 DEF StoresAreUnspent, LiveIsStored, LiveStored
<1>4. ASSUME NEW f \in Tasks PROVE TaskOK(f)
  <2>1. "at" \in DOMAIN tries[f] /\ tries[f].at = "idle"
    BY <1>1 DEF Resting
  <2> QED
    BY <2>1 DEF TaskOK, TaskTells, NewIsNew, ExchangeIsSafe, MeasureIsTrue, Saving, Critical
<1> QED
  BY <1>2, <1>3, <1>4 DEF ClaudeInv

(* Every step of tasks and other programs keeps the invariant.             *)
LEMMA ClaudeStep == ASSUME ClaudeInv, [ClaudeNext]_claudeVars PROVE ClaudeInv'
<1>1. ASSUME NEW f \in Tasks, Start(f) \/ Load(f) \/ Call(f) \/ Recover(f) \/ Identify(f) PROVE ClaudeInv'
  BY <1>1, StartKeeps, LoadKeeps, CallKeeps, RecoverKeeps, IdentifyKeeps
<1>2. ASSUME NEW f \in Tasks, Lock(f) \/ Reload(f) \/ Post(f) \/ Compare(f) \/ Save(f) PROVE ClaudeInv'
  BY <1>2, LockKeeps, ReloadKeeps, PostKeeps, CompareKeeps, SaveKeeps
<1>3. ASSUME NEW f \in Tasks, StartLaunch(f) \/ Sync(f) \/ Seed(f) \/ Measure(f) \/ Native(f) \/ Validate(f) PROVE ClaudeInv'
  BY <1>3, StartLaunchKeeps, SyncKeeps, SeedKeeps, MeasureKeeps, NativeKeeps, ValidateKeeps
<1>4. CASE Others
  BY <1>4, OthersKeep
<1>5. CASE Expire
  BY <1>5, NothingKeeps DEF Expire, stores, provider, losses
<1>6. CASE UNCHANGED claudeVars
  BY <1>6, NothingKeeps DEF claudeVars
<1> QED
  BY <1>1, <1>2, <1>3, <1>4, <1>5, <1>6 DEF ClaudeNext

(* The invariant implies what is promised of the sign-in.                  *)
LEMMA SafeCredentials == ASSUME ClaudeInv PROVE CredentialsSafe
<1>0. ClaudeTypes /\ LiveIsStored /\ \A g \in Tasks : TaskOK(g)
  BY DEF ClaudeInv
<1>1. SignInKept
  <2> SUFFICES ASSUME lock = Free, ~harmed, {keychain, disk} # {0} PROVE {keychain, disk} \intersect live # {}
    BY DEF SignInKept
  <2>1. \A f \in Tasks : ~Saving(f)
    BY <1>0, ClaudeAssumption DEF TaskOK, TaskTells, Saving, Critical
  <2>2. keychain # 0 \/ disk # 0
    OBVIOUS
  <2>3. LiveStored
    BY <1>0, <2>1, <2>2 DEF LiveIsStored
  <2> QED
    BY <2>3 DEF LiveStored
<1>2. SpentOnce
  BY <1>0 DEF SpentOnce, TaskOK, ExchangeIsSafe
<1>3. RightAccount /\ LaunchReady
  BY <1>0 DEF RightAccount, LaunchReady, TaskOK, MeasureIsTrue
<1> QED
  BY <1>1, <1>2, <1>3 DEF CredentialsSafe

(* The holder of the lock alone refreshes, what it was issued is nowhere   *)
(* else until it is saved, what is read is not spent, and a live token is  *)
(* stored unless one is to be saved, for any number of tasks               *)
(* (credentials.rs).                                                       *)
THEOREM ClaudeInvariant == ClaudeSpec => []ClaudeInv
<1>1. ClaudeInit => ClaudeInv
  BY ClaudeStart
<1>2. ClaudeInv /\ [ClaudeNext]_claudeVars => ClaudeInv'
  BY ClaudeStep
<1> QED
  BY <1>1, <1>2, PTL DEF ClaudeSpec

(* However collections, discoveries, launches and other programs           *)
(* interleave: a sign-in is kept unless somebody else harmed it, no token  *)
(* is spent twice, no usage is taken for another account's, and a launch   *)
(* begins with a live sign-in (credentials.rs, client.rs).                 *)
THEOREM SignInsOutliveRefreshes == ClaudeSpec => []CredentialsSafe
<1>1. ClaudeInv => CredentialsSafe
  BY SafeCredentials
<1> QED
  BY <1>1, ClaudeInvariant, PTL

(* Sessions.  What a launch read and asks stays with it, and none that has *)
(* failed gets as far as saving.                                           *)
LaunchPrefs == [folder : {"none", "work"}, dangerous : BOOLEAN]
LaunchStages == {"asked", "syncing", "clearing", "preparing", "writing", "opening", "saving", "done"}

SessionsTypes ==
  /\ session \in [Launches -> [stage : LaunchStages, asks : LaunchRequests, saved : LaunchPrefs, failed : BOOLEAN]]
  /\ prefs \in LaunchPrefs /\ tracked \in BOOLEAN /\ launcher \subseteq Launches
  /\ signInToken \in Nat \ {0} /\ collectorHas \in Nat

OnlySoundSave ==
  \A l \in Launches : Stage(l) \in {"preparing", "writing", "opening", "saving"} => ~session[l].failed

SessionsInv == SessionsTypes /\ OnlySoundSave /\ LaunchesSafe

(* A preference is the one that was asked, or else the one that was saved. *)
LEMMA EitherIs ==
  ASSUME NEW wish, NEW kept
  PROVE  /\ wish = {} => Either(wish, kept) = kept
         /\ wish # {} => Either(wish, kept) \in wish
BY DEF Either

(* What a launch plans to save are preferences.                            *)
LEMMA PlanIsPrefs ==
  ASSUME SessionsTypes, NEW l \in Launches
  PROVE  Plan(l) \in LaunchPrefs /\ Persisted(l) \in LaunchPrefs
<1>1. session[l].asks \in LaunchRequests /\ session[l].saved \in LaunchPrefs
  BY DEF SessionsTypes
<1>2. session[l].asks.folder \in {{}, {"work"}} /\ session[l].asks.dangerous \in {{}, {TRUE}, {FALSE}}
  BY <1>1 DEF LaunchRequests
<1>3. Either(session[l].asks.folder, session[l].saved.folder) \in {"none", "work"}
  BY <1>1, <1>2, EitherIs DEF LaunchPrefs
<1>4. Either(session[l].asks.dangerous, session[l].saved.dangerous) \in BOOLEAN
  <2>1. session[l].saved.dangerous \in BOOLEAN
    BY <1>1 DEF LaunchPrefs
  <2> QED
    BY <2>1, <1>2, EitherIs
<1>5. Plan(l) \in LaunchPrefs
  BY <1>3, <1>4 DEF Plan, LaunchPrefs
<1> QED
  BY <1>1, <1>5 DEF Persisted, LaunchPrefs

(* Whoever saves leave to act without asking was told to remember it, or   *)
(* found it saved.                                                         *)
LEMMA LeaveWasAsked ==
  ASSUME SessionsTypes, NEW l \in Launches, Persisted(l).dangerous
  PROVE  \/ session[l].saved.dangerous
         \/ TRUE \in session[l].asks.dangerous /\ session[l].asks.remember
<1>1. session[l].asks \in LaunchRequests /\ session[l].saved \in LaunchPrefs
  BY DEF SessionsTypes
<1>2. session[l].asks.dangerous \in {{}, {TRUE}, {FALSE}}
  BY <1>1 DEF LaunchRequests
<1>3. CASE session[l].asks.remember
  <2>1. Either(session[l].asks.dangerous, session[l].saved.dangerous)
    BY <1>3 DEF Persisted, Plan
  <2>2. CASE session[l].asks.dangerous = {}
    BY <2>1, <2>2, EitherIs
  <2>3. CASE session[l].asks.dangerous # {}
    <3>1. Either(session[l].asks.dangerous, session[l].saved.dangerous) \in session[l].asks.dangerous
      BY <2>3, EitherIs
    <3>2. session[l].asks.dangerous # {FALSE}
      BY <3>1, <2>1
    <3> QED
      BY <3>2, <2>3, <1>2, <1>3
  <2> QED
    BY <2>2, <2>3
<1>4. CASE ~session[l].asks.remember
  <2>1. Persisted(l) = [Plan(l) EXCEPT !.dangerous = session[l].saved.dangerous]
    BY <1>4 DEF Persisted
  <2>2. Plan(l) \in LaunchPrefs
    BY PlanIsPrefs
  <2> QED
    BY <2>1, <2>2 DEF LaunchPrefs
<1> QED
  BY <1>3, <1>4

(* Nothing is launched at first.                                           *)
LEMMA SessionsInitInv == SessionsInit => SessionsInv
<1> SUFFICES ASSUME SessionsInit PROVE SessionsInv
  OBVIOUS
<1>1. NoLaunch \in [stage : LaunchStages, asks : LaunchRequests, saved : LaunchPrefs, failed : BOOLEAN]
  <2>1. [folder |-> {}, dangerous |-> {}, remember |-> FALSE] \in LaunchRequests
    BY DEF LaunchRequests
  <2> QED
    BY <2>1 DEF NoLaunch, LaunchStages, LaunchPrefs
<1>2. SessionsTypes
  BY <1>1 DEF SessionsInit, SessionsTypes, LaunchPrefs
<1>3. \A l \in Launches : Stage(l) = "asked"
  BY DEF SessionsInit, Stage, NoLaunch
<1>4. OnlySoundSave
  BY <1>3 DEF OnlySoundSave
<1>5. LaunchesSafe
  BY <1>3 DEF SessionsInit, LaunchesSafe, CollectorNotStale, LeaveIsGiven, ScriptIsSignedIn
<1> QED
  BY <1>2, <1>4, <1>5 DEF SessionsInv

(* A step of a launch leaves the others, what this one asks and what it    *)
(* read as they are.                                                       *)
LEMMA StageMoves ==
  ASSUME SessionsTypes, NEW l \in Launches, NEW to \in LaunchStages, NEW fails \in BOOLEAN,
         \/ session' = [session EXCEPT ![l].stage = to, ![l].failed = fails]
         \/ session' = [session EXCEPT ![l].stage = to] /\ fails = session[l].failed
  PROVE  /\ session' \in [Launches -> [stage : LaunchStages, asks : LaunchRequests, saved : LaunchPrefs, failed : BOOLEAN]]
         /\ session'[l].stage = to /\ session'[l].failed = fails
         /\ session'[l].asks = session[l].asks /\ session'[l].saved = session[l].saved
         /\ \A k \in Launches : k # l => session'[k] = session[k]
BY DEF SessionsTypes

(* Leave that was given stays given while launches go on.                  *)
LEMMA LeaveStays ==
  ASSUME SessionsInv, NEW l \in Launches, NEW to \in LaunchStages, NEW fails \in BOOLEAN,
         Stage(l) \notin {"asked", "done"}, to # "asked", prefs' = prefs,
         \/ session' = [session EXCEPT ![l].stage = to, ![l].failed = fails]
         \/ session' = [session EXCEPT ![l].stage = to] /\ fails = session[l].failed
  PROVE  LeaveIsGiven'
<1>1. /\ session'[l].stage = to /\ session'[l].saved = session[l].saved
      /\ \A k \in Launches : k # l => session'[k] = session[k]
  BY StageMoves DEF SessionsInv
<1>2. ASSUME NEW k \in Launches, Stage(k) # "asked", session[k].saved.dangerous
      PROVE  session'[k].stage # "asked" /\ session'[k].saved.dangerous
  BY <1>1, <1>2 DEF Stage
<1>3. ASSUME NEW k \in Launches, Grants(k) PROVE Grants(k)'
  BY <1>1, <1>3 DEF Grants, Stage
<1>4. LeaveIsGiven
  BY DEF SessionsInv, LaunchesSafe
<1> QED
  BY <1>2, <1>3, <1>4 DEF LeaveIsGiven, Stage

(* Every step of a launch keeps the invariant.                             *)
LEMMA SessionsStepInv ==
  ASSUME SessionsInv, [SessionsNext]_sessionVars
  PROVE  SessionsInv'
<1>0. SessionsTypes /\ OnlySoundSave /\ CollectorNotStale /\ LeaveIsGiven /\ ScriptIsSignedIn
  BY DEF SessionsInv, LaunchesSafe
<1>same. ASSUME UNCHANGED <<session, prefs>> PROVE LeaveIsGiven' /\ OnlySoundSave'
  BY <1>same, <1>0 DEF LeaveIsGiven, OnlySoundSave, Grants, Stage
<1>goal. ASSUME SessionsTypes', OnlySoundSave', CollectorNotStale', LeaveIsGiven', ScriptIsSignedIn'
         PROVE  SessionsInv'
  BY <1>goal DEF SessionsInv, LaunchesSafe
<1>1. CASE UNCHANGED sessionVars
  <2>1. SessionsTypes' /\ CollectorNotStale' /\ ScriptIsSignedIn'
    BY <1>1, <1>0 DEF sessionVars, SessionsTypes, CollectorNotStale, ScriptIsSignedIn, Stage
  <2> QED
    BY <2>1, <1>1, <1>same, <1>goal DEF sessionVars
<1>2. ASSUME NEW l \in Launches, NEW wishes \in LaunchRequests, NEW there \in BOOLEAN, BeginLaunch(l, wishes, there)
      PROVE  SessionsInv'
  <2> DEFINE begun == [session EXCEPT ![l] = [@ EXCEPT !.stage = "syncing", !.asks = wishes, !.saved = prefs]]
  <2>1. Stage(l) = "asked" /\ UNCHANGED <<prefs, tracked, launcher, signInToken, collectorHas>>
    BY <1>2 DEF BeginLaunch
  <2>2. session' = begun \/ session' = [begun EXCEPT ![l].stage = "done", ![l].failed = TRUE]
    BY <1>2 DEF BeginLaunch
  <2>3. begun \in [Launches -> [stage : LaunchStages, asks : LaunchRequests, saved : LaunchPrefs, failed : BOOLEAN]]
        /\ begun[l].stage = "syncing" /\ begun[l].saved = prefs
        /\ \A k \in Launches : k # l => begun[k] = session[k]
    BY <1>0 DEF SessionsTypes, LaunchStages
  <2>4. session' \in [Launches -> [stage : LaunchStages, asks : LaunchRequests, saved : LaunchPrefs, failed : BOOLEAN]]
        /\ session'[l].stage \in {"syncing", "done"} /\ session'[l].saved = prefs
        /\ \A k \in Launches : k # l => session'[k] = session[k]
    <3> HIDE DEF begun
    <3> QED
      BY <2>2, <2>3 DEF LaunchStages
  <2> HIDE DEF begun
  <2>5. SessionsTypes'
    BY <2>1, <2>4, <1>0 DEF SessionsTypes
  <2>6. OnlySoundSave'
    BY <2>4, <1>0 DEF OnlySoundSave, Stage
  <2>7. CollectorNotStale'
    BY <2>1, <2>4, <1>0 DEF CollectorNotStale, Stage
  <2>8. ScriptIsSignedIn'
    BY <2>1, <2>4, <1>0 DEF ScriptIsSignedIn, SessionsTypes, Stage
  <2>9. LeaveIsGiven'
    <3>1. CASE prefs.dangerous
      BY <3>1, <2>1, <2>4 DEF LeaveIsGiven, Stage
    <3> QED
      BY <3>1, <2>1 DEF LeaveIsGiven
  <2> QED
    BY <2>5, <2>6, <2>7, <2>8, <2>9, <1>goal
<1>3. ASSUME NEW l \in Launches, NEW rotates \in BOOLEAN, NEW fails \in BOOLEAN, SyncSignIn(l, rotates, fails)
      PROVE  SessionsInv'
  <2>1. /\ session' = [session EXCEPT ![l].stage = "clearing", ![l].failed = fails] /\ Stage(l) = "syncing"
        /\ UNCHANGED <<prefs, tracked, launcher, collectorHas>> /\ signInToken' \in {signInToken, signInToken + 1}
    BY <1>3, SMTT(60) DEF SyncSignIn
  <2>2. /\ session' \in [Launches -> [stage : LaunchStages, asks : LaunchRequests, saved : LaunchPrefs, failed : BOOLEAN]]
        /\ session'[l].stage = "clearing" /\ \A k \in Launches : k # l => session'[k] = session[k]
    BY <2>1, <1>0, StageMoves DEF LaunchStages
  <2>3. SessionsTypes'
    BY <2>1, <2>2, <1>0 DEF SessionsTypes
  <2>4. OnlySoundSave' /\ CollectorNotStale'
    BY <2>2, <1>0 DEF OnlySoundSave, CollectorNotStale, Stage
  <2>5. ScriptIsSignedIn'
    BY <2>1, <2>2, <1>0 DEF ScriptIsSignedIn, SessionsTypes, Stage
  <2>6. LeaveIsGiven'
    BY <2>1, LeaveStays DEF LaunchStages
  <2> QED
    BY <2>3, <2>4, <2>5, <2>6, <1>goal
<1>4. ASSUME NEW l \in Launches, ClearCollector(l) PROVE SessionsInv'
  <2> DEFINE to == IF session[l].failed THEN "done" ELSE "preparing"
  <2>1. /\ session' = [session EXCEPT ![l].stage = to] /\ Stage(l) = "clearing" /\ collectorHas' = 0
        /\ UNCHANGED <<prefs, tracked, launcher, signInToken>> /\ to \in LaunchStages
    BY <1>4 DEF ClearCollector, Clears, LaunchStages
  <2>2. /\ session' \in [Launches -> [stage : LaunchStages, asks : LaunchRequests, saved : LaunchPrefs, failed : BOOLEAN]]
        /\ session'[l].stage = to /\ session'[l].failed = session[l].failed
        /\ \A k \in Launches : k # l => session'[k] = session[k]
    BY <2>1, <1>0 DEF SessionsTypes
  <2>3. SessionsTypes'
    BY <2>1, <2>2, <1>0 DEF SessionsTypes
  <2>4. OnlySoundSave' /\ CollectorNotStale'
    BY <2>1, <2>2, <1>0 DEF OnlySoundSave, CollectorNotStale, Stage
  <2>5. ScriptIsSignedIn'
    BY <2>1, <2>2, <1>0 DEF ScriptIsSignedIn, SessionsTypes, Stage
  <2>6. LeaveIsGiven'
    <3>1. session[l].failed \in BOOLEAN
      BY <1>0 DEF SessionsTypes
    <3> QED
      BY <2>1, <3>1, LeaveStays
  <2> QED
    BY <2>3, <2>4, <2>5, <2>6, <1>goal
<1>5. ASSUME NEW l \in Launches, PrepareWorkspace(l) \/ WriteLauncher(l) \/ OpenTerminal(l) PROVE SessionsInv'
  <2>1. PICK to \in {"writing", "opening", "saving", "done"}, fails \in BOOLEAN :
          /\ \/ session' = [session EXCEPT ![l].stage = to, ![l].failed = fails]
             \/ session' = [session EXCEPT ![l].stage = to] /\ fails = session[l].failed
          /\ fails => to = "done"
          /\ Stage(l) \in {"preparing", "writing", "opening"}
          /\ launcher' = launcher \/ (launcher' = {l} /\ to = "opening")
          /\ (l \in launcher /\ Stage(l) = "opening") => to \in {"saving", "done"}
    <3>1. CASE PrepareWorkspace(l) /\ Advances(l, "preparing", "writing")
      BY <3>1, <1>0 DEF PrepareWorkspace, Advances, OnlySoundSave, SessionsTypes
    <3>2. CASE WriteLauncher(l) /\ Advances(l, "writing", "opening")
      BY <3>2, <1>0 DEF WriteLauncher, Advances, Stops, OnlySoundSave, SessionsTypes
    <3>3. CASE OpenTerminal(l) /\ Advances(l, "opening", "saving")
      BY <3>3, <1>0 DEF OpenTerminal, Advances, OnlySoundSave, SessionsTypes
    <3>4. CASE /\ UNCHANGED launcher
               /\ Stops(l, "preparing") \/ Stops(l, "writing") \/ Stops(l, "opening")
      BY <3>4 DEF Stops
    <3> QED
      BY <1>5, <3>1, <3>2, <3>3, <3>4 DEF PrepareWorkspace, WriteLauncher, OpenTerminal
  <2>2. /\ session' \in [Launches -> [stage : LaunchStages, asks : LaunchRequests, saved : LaunchPrefs, failed : BOOLEAN]]
        /\ session'[l].stage = to /\ session'[l].failed = fails
        /\ \A k \in Launches : k # l => session'[k] = session[k]
    BY <2>1, <1>0, StageMoves DEF LaunchStages
  <2>3. UNCHANGED <<prefs, tracked, signInToken, collectorHas>>
    BY <1>5 DEF PrepareWorkspace, WriteLauncher, OpenTerminal
  <2>4. SessionsTypes'
    BY <2>1, <2>2, <2>3, <1>0 DEF SessionsTypes
  <2>5. OnlySoundSave' /\ CollectorNotStale'
    BY <2>1, <2>2, <2>3, <1>0 DEF OnlySoundSave, CollectorNotStale, Stage
  <2>6. ScriptIsSignedIn'
    BY <2>1, <2>2, <1>0 DEF ScriptIsSignedIn, SessionsTypes, Stage
  <2>7. LeaveIsGiven'
    BY <2>1, <2>3, LeaveStays DEF LaunchStages
  <2> QED
    BY <2>4, <2>5, <2>6, <2>7, <1>goal
<1>6. ASSUME NEW l \in Launches, SavePrefs(l) PROVE SessionsInv'
  <2>1. /\ session' = [session EXCEPT ![l].stage = "done"] /\ Stage(l) = "saving"
        /\ prefs' = prefs \/ prefs' = Persisted(l)
        /\ collectorHas' \in {0, collectorHas} /\ UNCHANGED <<tracked, launcher, signInToken>>
    BY <1>6 DEF SavePrefs, Advances
  <2>2. /\ session' \in [Launches -> [stage : LaunchStages, asks : LaunchRequests, saved : LaunchPrefs, failed : BOOLEAN]]
        /\ session'[l].stage = "done" /\ session'[l].failed = session[l].failed
        /\ session'[l].asks = session[l].asks /\ session'[l].saved = session[l].saved
        /\ \A k \in Launches : k # l => session'[k] = session[k]
    BY <2>1, <1>0 DEF SessionsTypes, LaunchStages
  <2>3. SessionsTypes'
    BY <2>1, <2>2, <1>0, PlanIsPrefs DEF SessionsTypes
  <2>4. OnlySoundSave' /\ CollectorNotStale'
    BY <2>1, <2>2, <1>0 DEF OnlySoundSave, CollectorNotStale, Stage
  <2>5. ScriptIsSignedIn'
    BY <2>1, <2>2, <1>0 DEF ScriptIsSignedIn, SessionsTypes, Stage
  <2>6. LeaveIsGiven'
    <3>1. CASE prefs' = prefs
      <4>1. session[l].failed \in BOOLEAN
        BY <1>0 DEF SessionsTypes
      <4> QED
        BY <2>1, <3>1, <4>1, LeaveStays DEF LaunchStages
    <3>2. CASE prefs' = Persisted(l) /\ Persisted(l).dangerous
      <4>1. ~session[l].failed
        BY <2>1, <1>0 DEF OnlySoundSave
      <4>2. \/ session[l].saved.dangerous
            \/ TRUE \in session[l].asks.dangerous /\ session[l].asks.remember
        BY <3>2, <1>0, LeaveWasAsked
      <4>3. CASE session[l].saved.dangerous
        BY <4>3, <2>2 DEF LeaveIsGiven, Stage
      <4>4. CASE TRUE \in session[l].asks.dangerous /\ session[l].asks.remember
        BY <4>1, <4>4, <2>2 DEF LeaveIsGiven, Grants, Stage
      <4> QED
        BY <4>2, <4>3, <4>4
    <3>3. CASE prefs' = Persisted(l) /\ ~Persisted(l).dangerous
      BY <3>3 DEF LeaveIsGiven
    <3> QED
      BY <2>1, <3>1, <3>2, <3>3
  <2> QED
    BY <2>3, <2>4, <2>5, <2>6, <1>goal
<1>7. CASE CollectorLoads \/ ProfileChanges
  <2>1. UNCHANGED <<session, prefs, launcher, signInToken>> /\ collectorHas' \in {0, signInToken} /\ tracked' \in BOOLEAN
    BY <1>7, <1>0 DEF CollectorLoads, ProfileChanges, SessionsTypes
  <2>2. SessionsTypes' /\ CollectorNotStale' /\ ScriptIsSignedIn'
    BY <2>1, <1>0 DEF SessionsTypes, CollectorNotStale, ScriptIsSignedIn, Stage
  <2> QED
    BY <2>1, <2>2, <1>same, <1>goal
<1> QED
  BY <1>1, <1>2, <1>3, <1>4, <1>5, <1>6, <1>7 DEF SessionsNext

(* However launches interleave with each other, the collector and changes  *)
(* of the profile: no collector goes on with a token that was replaced, no *)
(* leave is remembered that was not given, and the script is of a launch   *)
(* whose sign-in is up to date (launch).                                   *)
THEOREM LaunchesAreSafe == SessionsSpec => []LaunchesSafe
<1>1. SessionsInit => SessionsInv
  BY SessionsInitInv
<1>2. SessionsInv /\ [SessionsNext]_sessionVars => SessionsInv'
  BY SessionsStepInv
<1>3. SessionsInv => LaunchesSafe
  BY DEF SessionsInv
<1> QED
  BY <1>1, <1>2, <1>3, PTL DEF SessionsSpec

-----------------------------------------------------------------------------
(* All ways of sharing a sign-in, as MCParts runs them beside the parts    *)
(* that have nothing to do with it.                                        *)
SharedInv == BrokerInv /\ outside \in Nat /\ ClaudeInv /\ SessionsInv

(* A step of one part of the daemon leaves the others at rest.             *)
LEMMA SharersRest ==
  ASSUME [PartsNext]_allPartsVars
  PROVE  [BrokerNext]_brokerVars /\ [ClaudeNext]_claudeVars /\ [SessionsNext]_sessionVars
<1>1. CASE UNCHANGED allPartsVars
  BY <1>1, SMTT(60) DEF allPartsVars
<1>2. CASE PartsNext
  BY <1>2 DEF PartsNext, OthersRest
<1> QED
  BY <1>1, <1>2

(* Sign-ins outlive every way in which they are shared, whatever part of   *)
(* the daemon runs and for any number of callers, tasks and launches (the  *)
(* Keychain's broker, credentials.rs, launch).                             *)
THEOREM SharedSignInsAreSafe == PartsSpec => []SignInsSafe
<1>1. PartsInit => SharedInv
  BY BrokerStart, ClaudeStart, SessionsInitInv DEF PartsInit, SharedInv
<1>2. SharedInv /\ [PartsNext]_allPartsVars => SharedInv'
  BY SharersRest, BrokerStep, ClaudeStep, SessionsStepInv DEF SharedInv
<1>3. SharedInv => SignInsSafe
  BY SafeCredentials DEF SharedInv, SignInsSafe, BrokerInv, SessionsInv
<1> QED
  BY <1>1, <1>2, <1>3, PTL DEF PartsSpec
-----------------------------------------------------------------------------
(* Sources that overlap (Datasets): what is claimed of some usage.         *)
UsageItems == {"session", "cost", "tokens", "block"}
DatasetReadings == [at : Nat, items : SUBSET UsageItems]
UsageClaims == [source : Sources, id : Sources \union {NoId}, items : SUBSET UsageItems]
Usages(u) ==
  /\ u = [at |-> u.at, items |-> u.items, claims |-> u.claims]
  /\ u.at \in Nat /\ u.items = [i \in DOMAIN u.items |-> u.items[i]] /\ DOMAIN u.items \subseteq UsageItems
  /\ \A i \in DOMAIN u.items : u.items[i] \in [from : Sources, at : Nat]
  /\ u.claims \subseteq UsageClaims

(* A claim is of items that its source stated, no two are of the same, and *)
(* only what an earlier version stored of the logs is not claimed.         *)
ClaimsKnown(u) ==
  /\ \A c \in u.claims : /\ c.items \subseteq DOMAIN u.items
                         /\ \A i \in c.items : u.items[i].from = c.source
                         /\ c.source = "logs" => OfLogs(c)
  /\ \A c, d \in u.claims : c # d => c.items \intersect d.items = {}
  /\ \A i \in DOMAIN u.items : u.items[i].at > 0 \/ u.items[i].from # "logs" =>
       \E c \in u.claims : i \in c.items /\ c.source = u.items[i].from

LogsOf(u, t) == \A i \in DOMAIN u.items : u.items[i].from = "logs" => u.items[i].at = t

DatasetInv ==
  /\ readings \in Nat /\ gathered \in [Sources -> DatasetReadings] /\ overlay \in DatasetReadings
  /\ Usages(snapshot) /\ ClaimsKnown(snapshot)
  /\ \E t \in Nat : t <= snapshot.at /\ LogsOf(snapshot, t)

LEMMA FillAdds ==
  ASSUME NEW u, Usages(u), NEW source \in Sources, NEW dataset \in DatasetReadings, NEW v, v = Fill(u, source, dataset)
  PROVE  DOMAIN v.items = DOMAIN u.items \union dataset.items
<1> DEFINE unfilled == dataset.items \ DOMAIN u.items
           filled == [i \in DOMAIN u.items \union unfilled |->
                        IF i \in unfilled THEN ItemsOf(source, dataset)[i] ELSE u.items[i]]
<1>1. v = [u EXCEPT !.items = filled, !.claims = u.claims \union {Claim(source, source, unfilled)}]
  BY DEF Fill
<1>2. DOMAIN filled = DOMAIN u.items \union dataset.items
  OBVIOUS
<1> HIDE DEF filled
<1>3. v.items = filled
  BY <1>1 DEF Usages
<1> QED
  BY <1>2, <1>3

LEMMA FillNames ==
  ASSUME NEW u, Usages(u), NEW source \in Sources, NEW dataset \in DatasetReadings, NEW v, v = Fill(u, source, dataset)
  PROVE  v.claims = u.claims \union {Claim(source, source, dataset.items \ DOMAIN u.items)}
BY DEF Fill, Usages

LEMMA FillIs ==
  ASSUME NEW u, Usages(u), NEW source \in Sources, NEW dataset \in DatasetReadings, NEW v, v = Fill(u, source, dataset)
  PROVE  /\ Usages(v) /\ v.at = u.at
         /\ \A i \in DOMAIN u.items : v.items[i] = u.items[i]
         /\ \A i \in dataset.items \ DOMAIN u.items : v.items[i] = [from |-> source, at |-> dataset.at]
<1> DEFINE unfilled == dataset.items \ DOMAIN u.items
           filled == [i \in DOMAIN u.items \union unfilled |->
                        IF i \in unfilled THEN ItemsOf(source, dataset)[i] ELSE u.items[i]]
<1>1. v = [at |-> u.at, items |-> filled, claims |-> u.claims \union {Claim(source, source, unfilled)}]
  <2>1. v = [u EXCEPT !.items = filled, !.claims = u.claims \union {Claim(source, source, unfilled)}]
    BY DEF Fill
  <2>2. \E a, b, c : u = [at |-> a, items |-> b, claims |-> c]
    BY DEF Usages
  <2> HIDE DEF filled
  <2> QED
    BY <2>1, <2>2
<1>2. \A i \in unfilled : ItemsOf(source, dataset)[i] = [from |-> source, at |-> dataset.at]
  BY DEF ItemsOf
<1>3. /\ v.at = u.at /\ DOMAIN v.items = DOMAIN u.items \union dataset.items
      /\ \A i \in DOMAIN u.items : v.items[i] = u.items[i]
      /\ \A i \in unfilled : v.items[i] = [from |-> source, at |-> dataset.at]
      /\ v.claims = u.claims \union {Claim(source, source, unfilled)}
  BY <1>1, <1>2
<1>4. dataset.at \in Nat /\ dataset.items \in SUBSET UsageItems
  BY DEF DatasetReadings
<1>5. Claim(source, source, unfilled) \in UsageClaims
  BY <1>4 DEF Claim, UsageClaims
<1>6. \A i \in DOMAIN v.items : v.items[i] \in [from : Sources, at : Nat]
  BY <1>3, <1>4 DEF Usages
<1>7. v.items = [i \in DOMAIN v.items |-> v.items[i]] /\ v = [at |-> v.at, items |-> v.items, claims |-> v.claims]
  BY <1>1, <1>2
<1>8. Usages(v)
  BY <1>3, <1>4, <1>5, <1>6, <1>7 DEF Usages
<1> QED
  BY <1>3, <1>8

LEMMA FillClaims ==
  ASSUME NEW u, Usages(u), ClaimsKnown(u), NEW source \in Sources, NEW dataset \in DatasetReadings
  PROVE  ClaimsKnown(Fill(u, source, dataset))
<1> DEFINE v == Fill(u, source, dataset)
           unfilled == dataset.items \ DOMAIN u.items
           new == Claim(source, source, unfilled)
<1>1. /\ DOMAIN v.items = DOMAIN u.items \union dataset.items
      /\ \A i \in DOMAIN u.items : v.items[i] = u.items[i]
      /\ \A i \in unfilled : v.items[i] = [from |-> source, at |-> dataset.at]
      /\ v.claims = u.claims \union {new}
  <2> HIDE DEF v
  <2>1. v = Fill(u, source, dataset)
    BY DEF v
  <2>2. DOMAIN v.items = DOMAIN u.items \union dataset.items
    BY <2>1, FillAdds
  <2>3. /\ \A i \in DOMAIN u.items : v.items[i] = u.items[i]
        /\ \A i \in unfilled : v.items[i] = [from |-> source, at |-> dataset.at]
    BY <2>1, FillIs
  <2>4. v.claims = u.claims \union {new}
    BY <2>1, FillNames
  <2> QED
    BY <2>2, <2>3, <2>4
<1>2. new.source = source /\ new.items = unfilled /\ (source = "logs" => OfLogs(new))
  BY DEF Claim, OfLogs
<1> HIDE DEF v, new
<1>3. ASSUME NEW c \in v.claims
      PROVE  /\ c.items \subseteq DOMAIN v.items /\ (\A i \in c.items : v.items[i].from = c.source)
             /\ c.source = "logs" => OfLogs(c)
  <2>1. CASE c = new
    BY <2>1, <1>1, <1>2
  <2>2. CASE c \in u.claims
    BY <2>2, <1>1 DEF ClaimsKnown
  <2> QED
    BY <2>1, <2>2, <1>1
<1>4. ASSUME NEW c \in v.claims, NEW d \in v.claims, c # d PROVE c.items \intersect d.items = {}
  BY <1>4, <1>1, <1>2 DEF ClaimsKnown
<1>5. ASSUME NEW i \in DOMAIN v.items, v.items[i].at > 0 \/ v.items[i].from # "logs"
      PROVE  \E c \in v.claims : i \in c.items /\ c.source = v.items[i].from
  <2>1. CASE i \in DOMAIN u.items
    BY <2>1, <1>5, <1>1 DEF ClaimsKnown
  <2>2. CASE i \in unfilled
    BY <2>2, <1>1, <1>2
  <2> QED
    BY <2>1, <2>2, <1>1
<1>6. ClaimsKnown(v)
  BY <1>3, <1>4, <1>5 DEF ClaimsKnown
<1> QED
  BY <1>6 DEF v

(* What is gathered is merged, the provider's own answer first.            *)
LEMMA MergeIs ==
  ASSUME NEW datasets \in [Sources -> DatasetReadings]
  PROVE  LET u == Merge(datasets) IN Usages(u) /\ ClaimsKnown(u) /\ \E t \in Nat : t <= u.at /\ LogsOf(u, t)
<1> DEFINE With(w, s) == IF datasets[s] = Unread THEN w
                             ELSE [Fill(w, s, datasets[s]) EXCEPT !.at = Later(@, datasets[s].at)]
<1>1. ASSUME NEW u, Usages(u), ClaimsKnown(u), NEW s \in Sources
      PROVE  /\ Usages(With(u, s)) /\ ClaimsKnown(With(u, s)) /\ u.at <= With(u, s).at
             /\ s # "logs" => \A t \in Nat : LogsOf(u, t) => LogsOf(With(u, s), t)
             /\ s = "logs" /\ (\A t \in Nat : LogsOf(u, t)) =>
                  \E t \in Nat : t <= With(u, s).at /\ LogsOf(With(u, s), t)
  <2>1. datasets[s] \in DatasetReadings
    OBVIOUS
  <2>2. CASE datasets[s] = Unread
    <3>1. With(u, s) = u /\ u.at \in Nat
      BY <2>2, <1>1 DEF Usages
    <3> HIDE DEF With
    <3> QED
      BY <3>1, <1>1
  <2>3. CASE datasets[s] # Unread
    <3> DEFINE v == Fill(u, s, datasets[s])
               w == [v EXCEPT !.at = Later(@, datasets[s].at)]
    <3>1. /\ Usages(v) /\ v.at = u.at /\ DOMAIN v.items = DOMAIN u.items \union datasets[s].items
          /\ \A i \in DOMAIN u.items : v.items[i] = u.items[i]
          /\ \A i \in datasets[s].items \ DOMAIN u.items : v.items[i] = [from |-> s, at |-> datasets[s].at]
      <4> DEFINE stated == datasets[s]
      <4>1. stated \in DatasetReadings
        BY <2>1
      <4> HIDE DEF stated
      <4> HIDE DEF v
      <4>2. v = Fill(u, s, stated)
        BY DEF v, stated
      <4> HIDE DEF w, With
      <4>3. /\ Usages(v) /\ v.at = u.at
            /\ \A i \in DOMAIN u.items : v.items[i] = u.items[i]
            /\ \A i \in stated.items \ DOMAIN u.items : v.items[i] = [from |-> s, at |-> stated.at]
        BY <4>1, <4>2, <1>1, FillIs
      <4>4. DOMAIN v.items = DOMAIN u.items \union stated.items
        BY <4>1, <4>2, <1>1, FillAdds
      <4> QED
        BY <4>3, <4>4 DEF stated
    <3>2. ClaimsKnown(v)
      BY <2>1, <1>1, FillClaims
    <3>3. With(u, s) = w
      BY <2>3
    <3> HIDE DEF v, With
    <3>4. u.at \in Nat /\ datasets[s].at \in Nat /\ datasets[s].items \subseteq UsageItems
      BY <2>1, <1>1 DEF Usages, DatasetReadings
    <3>5. /\ w.at = Later(u.at, datasets[s].at) /\ w.items = v.items /\ w.claims = v.claims
          /\ w = [at |-> w.at, items |-> w.items, claims |-> w.claims]
      <4>1. v = [at |-> v.at, items |-> v.items, claims |-> v.claims]
        BY <3>1 DEF Usages
      <4>2. \E a, b, c : v = [at |-> a, items |-> b, claims |-> c]
        BY <4>1
      <4> QED
        BY <4>2, <3>1
    <3>6. w.at \in Nat /\ u.at <= w.at /\ datasets[s].at <= w.at
      BY <3>4, <3>5 DEF Later
    <3> HIDE DEF w
    <3>7. Usages(w)
      BY <3>1, <3>5, <3>6 DEF Usages
    <3>8. ClaimsKnown(w)
      BY <3>2, <3>5 DEF ClaimsKnown
    <3>9. s # "logs" => \A t \in Nat : LogsOf(u, t) => LogsOf(w, t)
      BY <3>1, <3>5 DEF LogsOf
    <3>10. (\A t \in Nat : LogsOf(u, t)) => LogsOf(w, datasets[s].at)
      <4>1. SUFFICES ASSUME \A t \in Nat : LogsOf(u, t) PROVE LogsOf(w, datasets[s].at)
        OBVIOUS
      <4>2. \A i \in DOMAIN u.items : u.items[i].from # "logs"
        <5>1. LogsOf(u, 0) /\ LogsOf(u, 1)
          BY <4>1
        <5> QED
          BY <5>1 DEF LogsOf
      <4> QED
        BY <4>2, <3>1, <3>5 DEF LogsOf
    <3> QED
      BY <3>3, <3>4, <3>6, <3>7, <3>8, <3>9, <3>10
  <2> QED
    BY <2>2, <2>3
<1>2. Usages(NoUsage) /\ ClaimsKnown(NoUsage) /\ \A t \in Nat : LogsOf(NoUsage, t)
  BY DEF NoUsage, Usages, ClaimsKnown, LogsOf
<1> DEFINE first == With(NoUsage, Remote)
           second == With(first, "logs")
           third == With(second, "events")
<1>3. Remote \in Sources /\ "logs" \in Sources /\ "events" \in Sources /\ Remote # "logs"
  BY DEF Sources, Remote
<1>4. Merge(datasets) = third
  BY DEF Merge
<1> HIDE DEF With
<1>5. Usages(first) /\ ClaimsKnown(first) /\ \A t \in Nat : LogsOf(first, t)
  BY <1>1, <1>2, <1>3
<1> HIDE DEF first
<1>6. Usages(second) /\ ClaimsKnown(second) /\ \E t \in Nat : t <= second.at /\ LogsOf(second, t)
  BY <1>1, <1>5, <1>3
<1> HIDE DEF second
<1>7. PICK t \in Nat : t <= second.at /\ LogsOf(second, t)
  BY <1>6
<1>8. Usages(third) /\ ClaimsKnown(third) /\ second.at <= third.at /\ LogsOf(third, t)
  BY <1>1, <1>6, <1>7, <1>3
<1>9. t <= third.at
  BY <1>6, <1>7, <1>8 DEF Usages
<1> QED
  BY <1>4, <1>8, <1>9

(* The overlay replaces what the logs had contributed, and nothing else.   *)
LEMMA OverlaidIs ==
  ASSUME NEW u, Usages(u), ClaimsKnown(u), overlay \in DatasetReadings,
         NEW t \in Nat, t <= u.at, LogsOf(u, t)
  PROVE  LET v == Overlaid(u) IN
         /\ Usages(v) /\ ClaimsKnown(v)
         /\ \A i \in DOMAIN u.items : u.items[i].from # "logs" => i \in DOMAIN v.items /\ v.items[i] = u.items[i]
         /\ \/ v = u /\ (overlay = Unread \/ u.at >= overlay.at)
            \/ /\ overlay # Unread /\ overlay.items \subseteq DOMAIN v.items
               /\ \A i \in DOMAIN v.items : v.items[i].from = "logs" /\ v.items[i].at > 0 =>
                    v.items[i].at = overlay.at /\ i \in overlay.items
<1> DEFINE logged == \E c \in u.claims : OfLogs(c)
           foreign == {c \in u.claims : ~OfLogs(c)}
           unclaimed == IF logged THEN {} ELSE (overlay.items \intersect DetailKeys) \ Claimed(foreign)
           kept == DOMAIN u.items \ (Superseded(u.claims) \union unclaimed)
           rest == [i \in kept |-> u.items[i]]
           m == [at |-> u.at, items |-> rest, claims |-> foreign]
           v == Fill(m, "logs", overlay)
<1>1. CASE overlay = Unread \/ (logged /\ u.at >= overlay.at)
  <2>1. Overlaid(u) = u
    BY <1>1 DEF Overlaid
  <2>2. overlay = Unread \/ u.at >= overlay.at
    BY <1>1
  <2> QED
    BY <2>1, <2>2
<1>2. CASE ~(overlay = Unread \/ (logged /\ u.at >= overlay.at))
  <2>1. Overlaid(u) = v
    <3>1. Overlaid(u) = Fill([u EXCEPT !.items = rest, !.claims = foreign], "logs", overlay)
      BY <1>2 DEF Overlaid
    <3>2. \E a, b, c : u = [at |-> a, items |-> b, claims |-> c]
      BY DEF Usages
    <3> HIDE DEF rest, foreign
    <3>3. PICK w : w = [u EXCEPT !.items = rest, !.claims = foreign]
      OBVIOUS
    <3>4. w = m
      BY <3>2, <3>3
    <3> QED
      BY <3>1, <3>3, <3>4
  <2>2. \A c \in u.claims : OfLogs(c) <=> c.source = "logs"
    BY DEF ClaimsKnown, OfLogs
  <2>3. \A c \in u.claims : \A i \in c.items : i \in DOMAIN u.items /\ u.items[i].from = c.source
    BY DEF ClaimsKnown
  <2>4. \A c \in foreign : c.items \subseteq kept
    <3>1. SUFFICES ASSUME NEW c \in foreign, NEW i \in c.items PROVE i \in kept
      OBVIOUS
    <3>2. i \in DOMAIN u.items /\ i \in Claimed(foreign)
      BY <3>1, <2>3 DEF Claimed
    <3>3. i \notin Superseded(u.claims)
      <4>1. SUFFICES ASSUME NEW d \in u.claims, OfLogs(d), i \in d.items PROVE FALSE
        BY DEF Superseded, Claimed
      <4>2. d # c /\ c \in u.claims
        BY <4>1, <3>1
      <4> QED
        BY <4>1, <4>2, <3>1 DEF ClaimsKnown
    <3> QED
      BY <3>2, <3>3
  <2>5. \A i \in DOMAIN u.items : u.items[i].from # "logs" => i \in kept /\ \E c \in foreign : i \in c.items /\ c.source = u.items[i].from
    <3>1. SUFFICES ASSUME NEW i \in DOMAIN u.items, u.items[i].from # "logs"
                   PROVE  i \in kept /\ \E c \in foreign : i \in c.items /\ c.source = u.items[i].from
      OBVIOUS
    <3>2. PICK c \in u.claims : i \in c.items /\ c.source = u.items[i].from
      BY <3>1 DEF ClaimsKnown
    <3>3. c \in foreign
      BY <3>1, <3>2, <2>2
    <3> QED
      BY <3>2, <3>3, <2>4
  <2>6. \A i \in kept : u.items[i].from = "logs" => ~ (u.items[i].at > 0)
    <3>1. SUFFICES ASSUME NEW i \in kept, u.items[i].from = "logs", u.items[i].at > 0 PROVE FALSE
      OBVIOUS
    <3>2. PICK c \in u.claims : i \in c.items /\ c.source = "logs"
      BY <3>1 DEF ClaimsKnown
    <3>3. i \in Superseded(u.claims)
      BY <3>2, <2>2 DEF Superseded, Claimed
    <3> QED
      BY <3>3
  <2>7. kept \subseteq DOMAIN u.items /\ foreign \subseteq u.claims /\ overlay # Unread
    BY <1>2
  <2> HIDE DEF kept, foreign
  <2>8. Usages(m)
    BY <2>7 DEF Usages
  <2>9. ClaimsKnown(m)
    <3>1. DOMAIN m.items = kept /\ m.claims = foreign /\ \A i \in kept : m.items[i] = u.items[i]
      OBVIOUS
    <3>2. \A c \in foreign : c.items \subseteq kept /\ (\A i \in c.items : m.items[i].from = c.source) /\ (c.source = "logs" => OfLogs(c))
      BY <3>1, <2>2, <2>3, <2>4, <2>7
    <3>3. \A c, d \in foreign : c # d => c.items \intersect d.items = {}
      BY <2>7 DEF ClaimsKnown
    <3>4. \A i \in kept : m.items[i].at > 0 \/ m.items[i].from # "logs" => \E c \in foreign : i \in c.items /\ c.source = m.items[i].from
      BY <3>1, <2>5, <2>6, <2>7
    <3> HIDE DEF m
    <3> QED
      BY <3>1, <3>2, <3>3, <3>4 DEF ClaimsKnown
  <2>10. "logs" \in Sources /\ DOMAIN m.items = kept /\ \A i \in kept : m.items[i] = u.items[i]
    BY DEF Sources
  <2> HIDE DEF m
  <2>11. /\ Usages(v) /\ DOMAIN v.items = kept \union overlay.items
         /\ \A i \in kept : v.items[i] = m.items[i]
         /\ \A i \in overlay.items \ kept : v.items[i] = [from |-> "logs", at |-> overlay.at]
    <3> HIDE DEF v
    <3>1. v = Fill(m, "logs", overlay)
      BY DEF v
    <3>2. /\ Usages(v)
          /\ \A i \in DOMAIN m.items : v.items[i] = m.items[i]
          /\ \A i \in overlay.items \ DOMAIN m.items : v.items[i] = [from |-> "logs", at |-> overlay.at]
      BY <3>1, <2>8, <2>10, FillIs
    <3>3. DOMAIN v.items = DOMAIN m.items \union overlay.items
      BY <3>1, <2>8, <2>10, FillAdds
    <3> QED
      BY <3>2, <3>3, <2>10
  <2>12. ClaimsKnown(v)
    BY <2>8, <2>9, <2>10, FillClaims
  <2> HIDE DEF v
  <2>13. \A i \in DOMAIN u.items : u.items[i].from # "logs" => i \in DOMAIN v.items /\ v.items[i] = u.items[i]
    BY <2>5, <2>10, <2>11
  <2>14. \A i \in DOMAIN v.items : v.items[i].from = "logs" /\ v.items[i].at > 0 => v.items[i].at = overlay.at /\ i \in overlay.items
    BY <2>6, <2>10, <2>11
  <2> QED
    BY <2>1, <2>7, <2>11, <2>12, <2>13, <2>14
<1> QED
  BY <1>1, <1>2

LEMMA DatasetsStart == DatasetsInit => DatasetInv
<1> SUFFICES ASSUME DatasetsInit PROVE DatasetInv
  OBVIOUS
<1>1. Unread \in DatasetReadings /\ readings \in Nat /\ gathered \in [Sources -> DatasetReadings] /\ overlay \in DatasetReadings
  BY DEF DatasetsInit, Unread, DatasetReadings
<1> DEFINE stored == {"tokens", "cost"}
           unnamed == [source |-> "logs", id |-> NoId, items |-> stored]
<1>2. PICK items, claims : snapshot = [at |-> 0, items |-> items, claims |-> claims]
                          /\ \/ items = <<>> /\ claims = {}
                             \/ items = [i \in stored |-> [from |-> "logs", at |-> 0]] /\ claims \subseteq {unnamed}
  BY DEF DatasetsInit, NoUsage, OfEarlierVersion, ItemsOf, Claim
<1> DEFINE u == snapshot
<1>3. u.at = 0 /\ u.items = items /\ u.claims = claims /\ u = [at |-> u.at, items |-> u.items, claims |-> u.claims]
  BY <1>2
<1> HIDE DEF u
<1>4. u.items = [i \in DOMAIN u.items |-> u.items[i]] /\ DOMAIN u.items \subseteq stored
  <2>1. CASE items = <<>>
    BY <2>1, <1>3
  <2>2. CASE items = [i \in stored |-> [from |-> "logs", at |-> 0]]
    BY <2>2, <1>3
  <2> QED
    BY <2>1, <2>2, <1>2
<1>5. \A i \in DOMAIN u.items : u.items[i] = [from |-> "logs", at |-> 0]
  <2>1. CASE items = <<>>
    BY <2>1, <1>3
  <2>2. CASE items = [i \in stored |-> [from |-> "logs", at |-> 0]]
    BY <2>2, <1>3
  <2> QED
    BY <2>1, <2>2, <1>2
<1>6. u.claims \subseteq {unnamed} /\ (u.claims # {} => DOMAIN u.items = stored)
  <2>1. CASE items = <<>> /\ claims = {}
    BY <2>1, <1>3
  <2>2. CASE items = [i \in stored |-> [from |-> "logs", at |-> 0]] /\ claims \subseteq {unnamed}
    BY <2>2, <1>3
  <2> QED
    BY <2>1, <2>2, <1>2
<1>7. stored \subseteq UsageItems
  BY DEF UsageItems
<1> HIDE DEF stored
<1>8. unnamed \in UsageClaims /\ OfLogs(unnamed) /\ unnamed.items = stored /\ unnamed.source = "logs"
  BY <1>7 DEF UsageClaims, Sources, OfLogs
<1> HIDE DEF unnamed
<1>9. \A i \in DOMAIN u.items : u.items[i] \in [from : Sources, at : Nat] /\ u.items[i].from = "logs" /\ u.items[i].at = 0
  BY <1>5 DEF Sources
<1>10. Usages(u)
  <2>1. u.at \in Nat /\ u.claims \subseteq UsageClaims /\ DOMAIN u.items \subseteq UsageItems
    BY <1>3, <1>4, <1>6, <1>7, <1>8
  <2> QED
    BY <2>1, <1>3, <1>4, <1>9 DEF Usages
<1>11. ClaimsKnown(u)
  <2>1. \A c \in u.claims : c = unnamed /\ DOMAIN u.items = stored
    BY <1>6
  <2> QED
    BY <2>1, <1>8, <1>9 DEF ClaimsKnown
<1>12. 0 <= u.at /\ LogsOf(u, 0)
  BY <1>3, <1>9 DEF LogsOf
<1> QED
  BY <1>1, <1>10, <1>11, <1>12 DEF DatasetInv, u

LEMMA DatasetsKept == ASSUME DatasetInv, [DatasetsNext]_datasetVars PROVE DatasetInv'
<1>1. CASE UNCHANGED datasetVars
  BY <1>1 DEF datasetVars, DatasetInv
<1>a. ASSUME NEW s \in Sources, NEW items \in Statements(s) PROVE StatedNow(items) \in DatasetReadings
  <2>1. items \in SUBSET UsageItems
    BY DEF Statements, UsageItems, Sources, Remote
  <2> QED
    BY <2>1 DEF StatedNow, DatasetReadings, DatasetInv
<1>b. Unread \in DatasetReadings
  BY DEF Unread, DatasetReadings
<1>2. ASSUME NEW s \in Sources, NEW items \in Statements(s), GatherDataset(s, items) PROVE DatasetInv'
  BY <1>2, <1>a DEF GatherDataset, DatasetInv
<1>3. CASE StoreMerged
  <2>1. snapshot' = Merge(gathered) /\ gathered' \in [Sources -> DatasetReadings]
    BY <1>3, <1>b DEF StoreMerged
  <2>2. Usages(snapshot') /\ ClaimsKnown(snapshot') /\ \E t \in Nat : t <= snapshot'.at /\ LogsOf(snapshot', t)
    BY <2>1, MergeIs DEF DatasetInv
  <2> QED
    BY <1>3, <2>1, <2>2 DEF StoreMerged, DatasetInv
<1>4. ASSUME NEW items \in Statements("logs"), ReadOverlay(items) PROVE DatasetInv'
  BY <1>4, <1>a DEF ReadOverlay, DatasetInv, Sources
<1>5. CASE DropOverlay
  BY <1>5, <1>b DEF DropOverlay, DatasetInv
<1> QED
  BY <1>1, <1>2, <1>3, <1>4, <1>5 DEF DatasetsNext

LEMMA SourcesAreTold == DatasetInv => SourcesTold
<1> SUFFICES ASSUME DatasetInv PROVE SourcesTold
  OBVIOUS
<1>1. PICK t \in Nat : t <= snapshot.at /\ LogsOf(snapshot, t)
  BY DEF DatasetInv
<1>2. overlay \in DatasetReadings /\ Usages(snapshot) /\ ClaimsKnown(snapshot)
  BY DEF DatasetInv
<1> DEFINE v == Visible
           ofLogs == {i \in DOMAIN v.items : v.items[i].from = "logs"}
           times == {v.items[i].at : i \in ofLogs} \ {0}
<1>3. /\ Usages(v) /\ ClaimsKnown(v)
      /\ \A i \in DOMAIN snapshot.items : snapshot.items[i].from # "logs" => i \in DOMAIN v.items /\ v.items[i] = snapshot.items[i]
      /\ \/ v = snapshot /\ (overlay = Unread \/ snapshot.at >= overlay.at)
         \/ /\ overlay # Unread /\ overlay.items \subseteq DOMAIN v.items
            /\ \A i \in DOMAIN v.items : v.items[i].from = "logs" /\ v.items[i].at > 0 =>
                 v.items[i].at = overlay.at /\ i \in overlay.items
  BY <1>1, <1>2, OverlaidIs DEF Visible
<1>4. OthersFirst
  BY <1>3 DEF OthersFirst
<1>5. ClaimsExact
  <2>1. Claimed(v.claims) \subseteq DOMAIN v.items
    BY <1>3 DEF ClaimsKnown, Claimed
  <2> HIDE DEF v
  <2>2. \A i \in DOMAIN v.items : v.items[i].at > 0 => \E c \in v.claims : i \in c.items /\ c.source = v.items[i].from
    BY <1>3 DEF ClaimsKnown
  <2>3. \A c, d \in v.claims : c # d => c.items \intersect d.items = {}
    BY <1>3 DEF ClaimsKnown
  <2> QED
    BY <2>1, <2>2, <2>3 DEF ClaimsExact, v
<1> HIDE DEF v
<1>6. \A i \in DOMAIN v.items : v.items[i].at \in Nat
  BY <1>3 DEF Usages
<1>7. LogsAtOnce
  <2>0. overlay.at \in Nat /\ snapshot.at \in Nat /\ (overlay = Unread => overlay.at = 0)
    BY <1>2 DEF DatasetReadings, Usages, Unread
  <2>1. ASSUME NEW x \in Nat, times \subseteq {x} PROVE Cardinality(times) <= 1
    <3>1. IsFiniteSet({x}) /\ Cardinality({x}) = 1
      BY FS_Singleton
    <3> HIDE DEF times
    <3> QED
      BY <3>1, <2>1, FS_Subset
  <2>2. CASE v = snapshot /\ (overlay = Unread \/ snapshot.at >= overlay.at)
    <3>1. times \subseteq {t}
      BY <1>1, <2>2 DEF LogsOf
    <3>2. ~ (overlay.at > snapshot.at)
      BY <2>0, <2>2
    <3>3. overlay # Unread => snapshot.at >= overlay.at
      BY <2>2
    <3>4. Cardinality(times) <= 1
      BY <2>1, <3>1
    <3> QED
      BY <3>2, <3>3, <3>4 DEF LogsAtOnce, v
  <2>3. CASE /\ overlay # Unread /\ overlay.items \subseteq DOMAIN v.items
             /\ \A i \in DOMAIN v.items : v.items[i].from = "logs" /\ v.items[i].at > 0 =>
                  v.items[i].at = overlay.at /\ i \in overlay.items
    <3>1. times \subseteq {overlay.at}
      BY <1>6, <2>3
    <3>2. Cardinality(times) <= 1
      BY <2>0, <2>1, <3>1
    <3>3. \A i \in ofLogs : v.items[i].at > 0 => i \in overlay.items
      BY <2>3
    <3> QED
      BY <2>3, <3>1, <3>2, <3>3 DEF LogsAtOnce, v
  <2> QED
    BY <1>3, <2>2, <2>3
<1> QED
  BY <1>4, <1>5, <1>7 DEF SourcesTold

-----------------------------------------------------------------------------
(* Limits of an account (CodexRateLimits): what either source told is all  *)
(* that it states, under the ids of the limits.                            *)
CodexInv ==
  /\ limits \in [primary : Bounds, secondary : Bounds, review : Bounds, additional : SUBSET Additional,
                 balance : {Omitted, 3}, unlimited : BOOLEAN, resets : SeqOf(Credit, 2), byId : BOOLEAN]
  /\ \A x, y \in limits.additional : x.feature = y.feature => x = y
  /\ told.wham \in {{}, Wham} /\ told.app_server \in {{}, AppServer}
  /\ told = [wham |-> told.wham, app_server |-> told.app_server]

Tells(w, id, bound, named) == w.id = id /\ w.kind = ByLength(bound, named) /\ w.percent = Clip(bound.percent)
OfOwnLimits(w) ==
  \/ Tells(w, <<OwnLimits, "session">>, limits.primary, "session")
  \/ Tells(w, <<OwnLimits, "weekly">>, limits.secondary, "weekly")
OfReviews(w) == Tells(w, <<ReviewLimits, "session">>, limits.review, "session")
OfAdditional(w, a) ==
  \/ Tells(w, <<LimitPrefix(a), "session">>, a.primary, "session")
  \/ Tells(w, <<LimitPrefix(a), "weekly">>, a.secondary, "weekly")
OfCredits(w) ==
  /\ w \in CreditsWindow /\ w.id = <<OwnLimits, "credits">> /\ w.kind = "credits"
  /\ w.percent = IF limits.unlimited THEN Omitted ELSE limits.balance

LEMMA LimitWindowTells ==
  ASSUME NEW id, NEW bound, NEW named, NEW resets, NEW w \in LimitWindow(id, bound, named, resets)
  PROVE  Tells(w, id, bound, named) /\ ~ (bound.percent = Omitted /\ bound.reset \notin resets)
BY DEF LimitWindow, Tells

LEMMA LimitIsTold ==
  ASSUME NEW id, NEW bound, NEW named, NEW resets, bound.percent # Omitted
  PROVE  \E w \in LimitWindow(id, bound, named, resets) : w.id = id /\ w.percent = Clip(bound.percent)
BY DEF LimitWindow

LEMMA AdditionalAreTold ==
  ASSUME NEW a \in limits.additional, NEW resets, NEW w,
         \/ w \in LimitWindow(<<LimitPrefix(a), "session">>, a.primary, "session", resets)
         \/ w \in LimitWindow(<<LimitPrefix(a), "weekly">>, a.secondary, "weekly", resets)
  PROVE  w \in AdditionalWindows(resets)
<1>1. w \in LimitWindows(LimitPrefix(a), a.primary, a.secondary, resets)
  BY DEF LimitWindows
<1> QED
  BY <1>1 DEF AdditionalWindows

LEMMA ClipOmits == \A n \in Int : Clip(n) = Omitted <=> n = Omitted
BY DEF Clip, Omitted

LEMMA BoundsArePercents == \A b \in Bounds : b.percent \in Int
BY DEF Bounds, Bound, NoBound, Omitted

LEMMA AdditionalIs ==
  ASSUME NEW a \in Additional
  PROVE  a.primary.percent \in Int /\ a.secondary.percent \in Int
BY DEF Additional, FewBounds, Bound, NoBound, Omitted

LEMMA WhamTells ==
  ASSUME NEW w \in Wham
  PROVE  OfOwnLimits(w) \/ OfReviews(w) \/ OfCredits(w) \/ \E a \in limits.additional : OfAdditional(w, a)
<1>1. CASE w \in LimitWindows(OwnLimits, limits.primary, limits.secondary, WhamResets)
  BY <1>1, LimitWindowTells DEF LimitWindows, OfOwnLimits
<1>2. CASE w \in LimitWindows(ReviewLimits, limits.review, NoBound, WhamResets)
  <2>1. ~ (w \in LimitWindow(<<ReviewLimits, "weekly">>, NoBound, "weekly", WhamResets))
    BY DEF LimitWindow, NoBound, Bound, WhamResets
  <2>2. w \in LimitWindow(<<ReviewLimits, "session">>, limits.review, "session", WhamResets)
    BY <1>2, <2>1 DEF LimitWindows
  <2> QED
    BY <2>2, LimitWindowTells DEF OfReviews
<1>3. CASE w \in AdditionalWindows(WhamResets)
  <2>1. PICK a \in limits.additional : w \in LimitWindows(LimitPrefix(a), a.primary, a.secondary, WhamResets)
    BY <1>3 DEF AdditionalWindows
  <2>2. OfAdditional(w, a)
    BY <2>1, LimitWindowTells DEF LimitWindows, OfAdditional
  <2> QED
    BY <2>2
<1>4. CASE w \in CreditsWindow
  BY <1>4 DEF CreditsWindow, OfCredits
<1> QED
  BY <1>1, <1>2, <1>3, <1>4 DEF Wham

LEMMA AppServerTells ==
  ASSUME NEW w \in AppServer
  PROVE  OfOwnLimits(w) \/ OfCredits(w) \/ \E a \in limits.additional : OfAdditional(w, a)
<1>1. CASE w \in LimitWindows(OwnLimits, limits.primary, limits.secondary, AppServerResets)
  BY <1>1, LimitWindowTells DEF LimitWindows, OfOwnLimits
<1>3. CASE w \in AdditionalWindows(AppServerResets)
  <2>1. PICK a \in limits.additional : w \in LimitWindows(LimitPrefix(a), a.primary, a.secondary, AppServerResets)
    BY <1>3 DEF AdditionalWindows
  <2>2. OfAdditional(w, a)
    BY <2>1, LimitWindowTells DEF LimitWindows, OfAdditional
  <2> QED
    BY <2>2
<1>4. CASE w \in CreditsWindow
  BY <1>4 DEF CreditsWindow, OfCredits
<1> QED
  BY <1>1, <1>3, <1>4 DEF AppServer

(* No two limits have an id in common.                                     *)
LEMMA IdsApart ==
  ASSUME CodexInv, NEW a \in limits.additional, NEW b \in limits.additional
  PROVE  /\ LimitPrefix(a) = LimitPrefix(b) => a = b
         /\ LimitPrefix(a) # OwnLimits /\ LimitPrefix(a) # ReviewLimits /\ OwnLimits # ReviewLimits
BY DEF CodexInv, LimitPrefix, OwnLimits, ReviewLimits

LEMMA LimitsAreSame ==
  ASSUME CodexInv, NEW w, NEW v, w.id = v.id,
         OfOwnLimits(w) \/ OfReviews(w) \/ OfCredits(w) \/ \E a \in limits.additional : OfAdditional(w, a),
         OfOwnLimits(v) \/ OfReviews(v) \/ OfCredits(v) \/ \E a \in limits.additional : OfAdditional(v, a)
  PROVE  w.kind = v.kind /\ w.percent = v.percent
<1>0. OwnLimits # ReviewLimits
  BY DEF OwnLimits, ReviewLimits
<1>1. CASE OfOwnLimits(w) \/ OfReviews(w) \/ OfCredits(w)
  <2>1. OfOwnLimits(v) \/ OfReviews(v) \/ OfCredits(v)
    BY <1>1, IdsApart DEF OfOwnLimits, OfReviews, OfCredits, OfAdditional, Tells
  <2> QED
    BY <1>0, <1>1, <2>1 DEF OfOwnLimits, OfReviews, OfCredits, Tells
<1>2. CASE \E a \in limits.additional : OfAdditional(w, a)
  <2>1. PICK a \in limits.additional : OfAdditional(w, a)
    BY <1>2
  <2>2. PICK b \in limits.additional : OfAdditional(v, b)
    BY <2>1, IdsApart DEF OfOwnLimits, OfReviews, OfCredits, OfAdditional, Tells
  <2>3. a = b
    BY <2>1, <2>2, IdsApart DEF OfAdditional, Tells
  <2> QED
    BY <2>1, <2>2, <2>3 DEF OfAdditional, Tells
<1> QED
  BY <1>1, <1>2

LEMMA LimitsStayTold == CodexInv => SameLimits
<1> SUFFICES ASSUME CodexInv PROVE SameLimits
  OBVIOUS
<1> DEFINE IsLimit(w) == OfOwnLimits(w) \/ OfReviews(w) \/ OfCredits(w) \/ \E a \in limits.additional : OfAdditional(w, a)
<1>1. told.wham \in {{}, Wham} /\ told.app_server \in {{}, AppServer}
  BY DEF CodexInv
<1>2. \A w \in told.wham \union told.app_server : IsLimit(w)
  BY <1>1, WhamTells, AppServerTells
<1>3. \A w, v \in told.wham \union told.app_server : w.id = v.id => w.kind = v.kind /\ w.percent = v.percent
  BY <1>2, LimitsAreSame
<1>4. ASSUME NEW answer \in {told.wham, told.app_server} \ {{}}, NEW a \in limits.additional,
             a.primary.percent # Omitted, limits.byId \/ answer = told.wham
      PROVE  \E w \in answer : w.id = <<LimitPrefix(a), "session">> /\ w.percent = Clip(a.primary.percent)
  <2>1. ASSUME NEW resets
        PROVE  \E w \in AdditionalWindows(resets) :
                 w.id = <<LimitPrefix(a), "session">> /\ w.percent = Clip(a.primary.percent)
    <3>1. PICK w \in LimitWindow(<<LimitPrefix(a), "session">>, a.primary, "session", resets) :
            w.id = <<LimitPrefix(a), "session">> /\ w.percent = Clip(a.primary.percent)
      BY <1>4, LimitIsTold
    <3>2. w \in AdditionalWindows(resets)
      BY <3>1, AdditionalAreTold
    <3> QED
      BY <3>1, <3>2
  <2>2. CASE answer = Wham
    BY <2>1, <2>2 DEF Wham
  <2>3. CASE answer = AppServer /\ limits.byId
    BY <2>1, <2>3 DEF AppServer
  <2> QED
    BY <1>1, <1>4, <2>2, <2>3
<1>5. ASSUME told.wham # {}, told.app_server # {}, limits.byId,
             NEW v \in told.wham, v.id[1] # ReviewLimits, v.percent # Omitted \/ v.kind = "credits"
      PROVE  \E w \in told.app_server : w.id = v.id
  <2>1. v \in Wham /\ told.app_server = AppServer
    BY <1>1, <1>5
  <2>2. limits.primary.percent \in Int /\ limits.secondary.percent \in Int
    BY BoundsArePercents DEF CodexInv
  <2>3. \A a \in limits.additional : a.primary.percent \in Int /\ a.secondary.percent \in Int
    BY AdditionalIs DEF CodexInv
  <2>4. \A bound : \A named \in {"session", "weekly"} : ByLength(bound, named) # "credits"
    BY DEF ByLength
  <2>5. CASE OfOwnLimits(v)
    <3>1. CASE Tells(v, <<OwnLimits, "session">>, limits.primary, "session")
      <4>1. limits.primary.percent # Omitted
        BY <1>5, <2>2, <2>4, <3>1, ClipOmits DEF Tells
      <4>2. PICK w \in LimitWindow(<<OwnLimits, "session">>, limits.primary, "session", AppServerResets) : w.id = <<OwnLimits, "session">>
        BY <4>1, LimitIsTold
      <4>3. w \in AppServer
        BY <1>5, <4>2 DEF AppServer, LimitWindows
      <4> QED
        BY <2>1, <3>1, <4>2, <4>3 DEF Tells
    <3>2. CASE Tells(v, <<OwnLimits, "weekly">>, limits.secondary, "weekly")
      <4>1. limits.secondary.percent # Omitted
        BY <1>5, <2>2, <2>4, <3>2, ClipOmits DEF Tells
      <4>2. PICK w \in LimitWindow(<<OwnLimits, "weekly">>, limits.secondary, "weekly", AppServerResets) : w.id = <<OwnLimits, "weekly">>
        BY <4>1, LimitIsTold
      <4>3. w \in AppServer
        BY <1>5, <4>2 DEF AppServer, LimitWindows
      <4> QED
        BY <2>1, <3>2, <4>2, <4>3 DEF Tells
    <3> QED
      BY <2>5, <3>1, <3>2 DEF OfOwnLimits
  <2>6. CASE OfReviews(v)
    BY <1>5, <2>6 DEF OfReviews, Tells
  <2>7. CASE OfCredits(v)
    BY <2>1, <2>7 DEF AppServer, OfCredits
  <2>8. ASSUME NEW a \in limits.additional, OfAdditional(v, a) PROVE \E w \in AppServer : w.id = v.id
    <3>1. CASE Tells(v, <<LimitPrefix(a), "session">>, a.primary, "session")
      <4>1. a.primary.percent # Omitted
        BY <1>5, <2>3, <2>4, <3>1, ClipOmits DEF Tells
      <4>2. PICK w \in LimitWindow(<<LimitPrefix(a), "session">>, a.primary, "session", AppServerResets) : w.id = <<LimitPrefix(a), "session">>
        BY <4>1, LimitIsTold
      <4>3. w \in AppServer
        BY <1>5, <4>2, AdditionalAreTold DEF AppServer
      <4> QED
        BY <2>1, <3>1, <4>2, <4>3 DEF Tells
    <3>2. CASE Tells(v, <<LimitPrefix(a), "weekly">>, a.secondary, "weekly")
      <4>1. a.secondary.percent # Omitted
        BY <1>5, <2>3, <2>4, <3>2, ClipOmits DEF Tells
      <4>2. PICK w \in LimitWindow(<<LimitPrefix(a), "weekly">>, a.secondary, "weekly", AppServerResets) : w.id = <<LimitPrefix(a), "weekly">>
        BY <4>1, LimitIsTold
      <4>3. w \in AppServer
        BY <1>5, <4>2, AdditionalAreTold DEF AppServer
      <4> QED
        BY <2>1, <3>2, <4>2, <4>3 DEF Tells
    <3> QED
      BY <2>8, <3>1, <3>2 DEF OfAdditional
  <2> QED
    BY <2>1, <2>5, <2>6, <2>7, <2>8, WhamTells
<1>6. told.wham # {} /\ told.app_server # {} /\ limits.byId =>
        {w.id : w \in {v \in told.wham : v.id[1] # ReviewLimits /\ (v.percent # Omitted \/ v.kind = "credits")}}
          \subseteq {w.id : w \in told.app_server}
  BY <1>5
<1> QED
  BY <1>3, <1>4, <1>6 DEF SameLimits

LEMMA ExpiryIsFirst == CodexInv => ExpiryFirst
<1> SUFFICES ASSUME CodexInv, NEW i \in DOMAIN limits.resets, limits.resets[i].status = "available", limits.resets[i].expires # Omitted
             PROVE  NextExpiry # Omitted /\ NextExpiry <= limits.resets[i].expires
  BY DEF ExpiryFirst
<1> DEFINE dates == {limits.resets[j].expires : j \in UsableResets}
<1>1. \A j \in DOMAIN limits.resets : limits.resets[j] \in Credit
  BY DEF CodexInv, SeqOf
<1>2. dates \subseteq {1, 2}
  BY <1>1 DEF UsableResets, Credit
<1>3. i \in UsableResets /\ limits.resets[i].expires \in dates
  BY DEF UsableResets
<1> HIDE DEF dates
<1>4. \E x \in dates : \A y \in dates : x <= y
  <2>1. CASE 1 \in dates
    <3>1. \A y \in dates : 1 <= y
      BY <1>2
    <3> QED
      BY <2>1, <3>1
  <2>2. CASE 1 \notin dates
    <3>1. \A y \in dates : y = 2
      BY <1>2, <2>2
    <3>2. PICK x \in dates : TRUE
      BY <1>3
    <3>3. x = 2 /\ \A y \in dates : 2 <= y
      BY <3>1, <3>2
    <3> QED
      BY <3>2, <3>3
  <2> QED
    BY <2>1, <2>2
<1>5. PICK x \in dates : x = Min(dates) /\ \A y \in dates : x <= y
  BY <1>4, Zenon DEF Min
<1>6. NextExpiry = Min(dates)
  BY <1>3 DEF NextExpiry, dates
<1>7. x \in {1, 2}
  BY <1>2
<1>8. x # Omitted
  BY <1>7 DEF Omitted
<1>9. x <= limits.resets[i].expires
  BY <1>3, <1>5, Zenon
<1>10. NextExpiry = x
  BY <1>5, <1>6
<1> QED
  BY <1>8, <1>9, <1>10, Zenon

LEMMA CodexStarts == CodexLimitsInit => CodexInv
<1> SUFFICES ASSUME CodexLimitsInit PROVE CodexInv
  OBVIOUS
<1>1. Bounds \subseteq Bounds /\ {NoBound, Bound(50, "hours", "at")} \subseteq Bounds
  BY DEF Bounds
<1> QED
  BY <1>1 DEF CodexLimitsInit, CodexInv

LEMMA CodexKept == ASSUME CodexInv, [CodexLimitsNext]_codexLimitVars PROVE CodexInv'
<1>1. limits' = limits /\ Wham' = Wham /\ AppServer' = AppServer
  BY DEF CodexLimitsNext, AskWham, AskAppServer, codexLimitVars, Wham, AppServer, AdditionalWindows, CreditsWindow
<1>2. \E wham, app_server : told = [wham |-> wham, app_server |-> app_server]
  BY DEF CodexInv
<1>3. CASE AskWham
  <2>1. told' = [wham |-> Wham, app_server |-> told.app_server]
    BY <1>2, <1>3 DEF AskWham
  <2> QED
    BY <1>1, <2>1 DEF CodexInv
<1>4. CASE AskAppServer
  <2>1. told' = [wham |-> told.wham, app_server |-> AppServer]
    BY <1>2, <1>4 DEF AskAppServer
  <2> QED
    BY <1>1, <2>1 DEF CodexInv
<1>5. CASE UNCHANGED codexLimitVars
  BY <1>1, <1>5 DEF codexLimitVars, CodexInv
<1> QED
  BY <1>3, <1>4, <1>5 DEF CodexLimitsNext

-----------------------------------------------------------------------------
(* What cursor.com says of an account and of its team (CursorReports).     *)
CursorInv == said \in [is : SUBSET Facts, history : Histories] /\ report \in {Unmade, Normalized}

Main == Dataset("cursor", "account_wide", Quotas \union OnDemand, HasEvents)
Pool == Dataset("cursor", "organization", Quotas, FALSE)
Personal == Dataset("cursor_personal_usage", "account_wide", OnDemand, HasEvents)
Budget(name) == Dataset(name, "organization", TeamBudget, FALSE)

LEMMA PairOfTwo == ASSUME NEW a, NEW b PROVE <<a>> \o <<b>> = <<a, b>>
<1> DEFINE S == {a, b}
           s == <<a>> \o <<b>>
           u == <<a, b>>
<1>1. <<a>> \in Seq(S) /\ <<b>> \in Seq(S) /\ u \in Seq(S)
  OBVIOUS
<1>2. s \in Seq(S)
  BY <1>1, ConcatProperties
<1>3. Len(s) = 2 /\ s[1] = a /\ s[2] = b
  OBVIOUS
<1>4. Len(u) = 2 /\ u[1] = a /\ u[2] = b
  OBVIOUS
<1> HIDE DEF s, u, S
<1>5. \A i \in 1..Len(s) : s[i] = u[i]
  BY <1>3, <1>4
<1>6. s = u
  BY <1>1, <1>2, <1>3, <1>4, <1>5, SeqEqual
<1> QED
  BY <1>6 DEF s, u

LEMMA TripleOfPair == ASSUME NEW a, NEW b, NEW c PROVE <<a, b>> \o <<c>> = <<a, b, c>>
<1> DEFINE S == {a, b, c}
           s == <<a, b>> \o <<c>>
           u == <<a, b, c>>
<1>1. <<a, b>> \in Seq(S) /\ <<c>> \in Seq(S) /\ u \in Seq(S)
  OBVIOUS
<1>2. s \in Seq(S)
  BY <1>1, ConcatProperties
<1>3. Len(s) = 3 /\ s[1] = a /\ s[2] = b /\ s[3] = c
  OBVIOUS
<1>4. Len(u) = 3 /\ u[1] = a /\ u[2] = b /\ u[3] = c
  OBVIOUS
<1> HIDE DEF s, u, S
<1>5. \A i \in 1..Len(s) : s[i] = u[i]
  BY <1>3, <1>4
<1>6. s = u
  BY <1>1, <1>2, <1>3, <1>4, <1>5, SeqEqual
<1> QED
  BY <1>6 DEF s, u

LEMMA QuotasAre ==
  /\ \A w \in Quotas : w.id \in {"cursor_total", "cursor_auto", "cursor_api"}
  /\ \A w \in Quotas : w.of = "team" <=> Scope = "organization"
  /\ \A w, v \in Quotas : w.id = v.id => w = v
  /\ Quotas = {} => HeadlineSource = "none" /\ ~Says("legacy")
  /\ Scope \in {"organization", "account_wide"}
<1> DEFINE total(of) == [id |-> "cursor_total", of |-> of]
           auto == [id |-> "cursor_auto", of |-> "account"]
           api == [id |-> "cursor_api", of |-> "account"]
<1>1. \/ Says("legacy") /\ Quotas = {total("account")} /\ Scope = "account_wide"
      \/ Quotas = {total("team")} /\ Scope = "organization"
      \/ /\ Quotas \subseteq {total("account"), auto, api} /\ Scope = "account_wide" /\ ~Says("legacy")
         /\ Quotas = {} => HeadlineSource = "none"
  <2>1. CASE Says("legacy")
    BY <2>1 DEF Quotas, Window, Scope
  <2>2. CASE ~Says("legacy") /\ HeadlineSource = "pooled"
    <3>1. ~Says("auto") /\ ~Says("api")
      BY <2>2 DEF HeadlineSource
    <3> QED
      BY <2>2, <3>1 DEF Quotas, Window, If, Scope
  <2>3. CASE ~Says("legacy") /\ HeadlineSource # "pooled"
    <3>1. Quotas \subseteq {total("account"), auto, api} /\ Scope = "account_wide"
      BY <2>3 DEF Quotas, Window, If, Scope
    <3>2. Quotas = {} => HeadlineSource = "none"
      BY <2>3 DEF Quotas, Window, If
    <3> QED
      BY <2>3, <3>1, <3>2
  <2> QED
    BY <2>1, <2>2, <2>3
<1>2. \A of : total(of).id = "cursor_total" /\ total(of).of = of
  OBVIOUS
<1>3. auto.id = "cursor_auto" /\ auto.of = "account" /\ api.id = "cursor_api" /\ api.of = "account"
  OBVIOUS
<1> HIDE DEF total, auto, api
<1>4. ASSUME NEW w \in Quotas
      PROVE  w.id \in {"cursor_total", "cursor_auto", "cursor_api"} /\ (w.of = "team" <=> Scope = "organization")
  BY <1>1, <1>2, <1>3, <1>4
<1>5. ASSUME NEW w \in Quotas, NEW v \in Quotas, w.id = v.id PROVE w = v
  BY <1>1, <1>2, <1>3, <1>5
<1>6. (Quotas = {} => HeadlineSource = "none" /\ ~Says("legacy")) /\ Scope \in {"organization", "account_wide"}
  BY <1>1
<1> QED
  BY <1>4, <1>5, <1>6

LEMMA OnDemandIs ==
  /\ \A w \in OnDemand : w = [id |-> "cursor_on_demand", of |-> "account"]
  /\ Says("personal") <=> OnDemand # {}
BY DEF OnDemand, If, Window

LEMMA BudgetIs == \A w \in TeamBudget : w = [id |-> "cursor_team_on_demand", of |-> "team"]
BY DEF TeamBudget, Window

LEMMA OwnIs ==
  \/ Scope = "account_wide" /\ Own = <<Main>>
  \/ Scope = "organization" /\ Own = <<Pool>> /\ OnDemand = {} /\ ~HasEvents
  \/ Scope = "organization" /\ Own = <<Pool, Personal>>
<1>1. CASE Scope = "account_wide"
  BY <1>1 DEF Own, Main
<1>2. CASE Scope = "organization" /\ OnDemand = {} /\ ~HasEvents
  <2>1. Own = <<Pool>> \o <<>>
    BY <1>2 DEF Own, Pool
  <2> QED
    BY <1>2, <2>1
<1>3. CASE Scope = "organization" /\ ~ (OnDemand = {} /\ ~HasEvents)
  <2>1. Own = <<Pool>> \o <<Personal>>
    BY <1>3 DEF Own, Pool, Personal
  <2>2. Own = <<Pool, Personal>>
    BY <2>1, PairOfTwo
  <2> QED
    BY <1>3, <2>2
<1> QED
  BY <1>1, <1>2, <1>3, QuotasAre

LEMMA MainIs ==
  Main.name = "cursor" /\ Main.scope = "account_wide" /\ Main.windows = Quotas \union OnDemand /\ Main.events = HasEvents
BY DEF Main, Dataset
LEMMA PoolIs == Pool.name = "cursor" /\ Pool.scope = "organization" /\ Pool.windows = Quotas /\ Pool.events = FALSE
BY DEF Pool, Dataset
LEMMA PersonalIs ==
  /\ Personal.name = "cursor_personal_usage" /\ Personal.scope = "account_wide"
  /\ Personal.windows = OnDemand /\ Personal.events = HasEvents
BY DEF Personal, Dataset
LEMMA BudgetsAre ==
  ASSUME NEW name
  PROVE  LET b == Budget(name) IN b.name = name /\ b.scope = "organization" /\ b.windows = TeamBudget /\ b.events = FALSE
BY DEF Budget, Dataset

LEMMA TeamStaysApart == CursorInv => TeamKeptApart
<1> SUFFICES ASSUME CursorInv PROVE TeamKeptApart
  OBVIOUS
<1>0. HasEvents \in BOOLEAN
  BY DEF HasEvents
<1>1. CASE report = Unmade
  BY <1>1 DEF TeamKeptApart, Unmade
<1>2. CASE report = Normalized /\ Own[1].windows = {} /\ ~Says("team")
  <2>1. report = [at |-> "failed"]
    BY <1>2 DEF Normalized
  <2>2. Own[1] = Main \/ Own[1] = Pool
    BY OwnIs
  <2>3. Quotas = {} /\ (Own[1] = Main => OnDemand = {})
    BY <1>2, <2>2, MainIs, PoolIs
  <2>4. HeadlineSource = "none" /\ ~Says("legacy")
    BY <2>3, QuotasAre
  <2>5. Scope = "account_wide"
    BY <2>4 DEF Scope
  <2>6. Own[1] = Main
    BY <2>5, OwnIs
  <2>7. ~Says("personal")
    BY <2>3, <2>6, OnDemandIs
  <2>8. ~Says("total") /\ ~Says("auto") /\ ~Says("api") /\ ~Says("planRatio") /\ ~Says("overall") /\ ~Says("pooled")
    BY <2>4 DEF HeadlineSource
  <2>9. said.is = {}
    BY <1>2, <2>4, <2>7, <2>8 DEF CursorInv, Facts, Says
  <2> QED
    BY <2>1, <2>9 DEF TeamKeptApart
<1>3. CASE report = Normalized /\ ~ (Own[1].windows = {} /\ ~Says("team"))
  <2> DEFINE d == report.datasets
             t == Budget("cursor_team_budget")
             only == Budget("cursor")
  <2>1. \/ report = Made(Own, ~HasEvents) /\ (~Says("team") \/ Says("personal"))
        \/ report = Made(<<only>>, FALSE) /\ ~Says("personal") /\ ~HasEvents
        \/ report = Made(Own \o <<t>>, ~HasEvents) /\ ~Says("personal")
    BY <1>3 DEF Normalized, Budget
  <2>2. /\ report.at = "made"
        /\ \/ d = Own /\ report.warned = ~HasEvents
           \/ d = <<only>> /\ ~Says("personal") /\ ~HasEvents
           \/ d = Own \o <<t>> /\ report.warned = ~HasEvents /\ ~Says("personal")
    BY <2>1 DEF Made
  <2> HIDE DEF t, d, only
  <2>3. /\ <<Main>> \o <<t>> = <<Main, t>> /\ <<Pool>> \o <<t>> = <<Pool, t>>
        /\ <<Pool, Personal>> \o <<t>> = <<Pool, Personal, t>>
    BY PairOfTwo, TripleOfPair
  <2>4. /\ \/ Scope = "account_wide" /\ d = <<Main>>
           \/ Scope = "organization" /\ d = <<Pool>> /\ OnDemand = {} /\ ~HasEvents
           \/ Scope = "organization" /\ d = <<Pool, Personal>>
           \/ d = <<only>> /\ OnDemand = {} /\ ~HasEvents
           \/ Scope = "account_wide" /\ d = <<Main, t>> /\ OnDemand = {}
           \/ Scope = "organization" /\ d = <<Pool, t>> /\ OnDemand = {} /\ ~HasEvents
           \/ Scope = "organization" /\ d = <<Pool, Personal, t>> /\ OnDemand = {}
        /\ HasEvents \/ report.warned \/ d = <<only>>
    BY <2>2, <2>3, OwnIs, OnDemandIs
  <2>5. PICK n \in 1..3 :
          /\ DOMAIN d = 1..n
          /\ \/ Scope = "account_wide" /\ n = 1 /\ d[1] = Main
             \/ Scope = "organization" /\ n = 1 /\ d[1] = Pool /\ OnDemand = {} /\ ~HasEvents
             \/ Scope = "organization" /\ n = 2 /\ d[1] = Pool /\ d[2] = Personal
             \/ n = 1 /\ d[1] = only /\ OnDemand = {} /\ ~HasEvents
             \/ Scope = "account_wide" /\ n = 2 /\ d[1] = Main /\ d[2] = t /\ OnDemand = {}
             \/ Scope = "organization" /\ n = 2 /\ d[1] = Pool /\ d[2] = t /\ OnDemand = {} /\ ~HasEvents
             \/ Scope = "organization" /\ n = 3 /\ d[1] = Pool /\ d[2] = Personal /\ d[3] = t /\ OnDemand = {}
    <3>1. \A a : d = <<a>> => DOMAIN d = 1..1 /\ d[1] = a
      OBVIOUS
    <3>2. \A a, b : d = <<a, b>> => DOMAIN d = 1..2 /\ d[1] = a /\ d[2] = b
      OBVIOUS
    <3>3. \A a, b, c : d = <<a, b, c>> => DOMAIN d = 1..3 /\ d[1] = a /\ d[2] = b /\ d[3] = c
      OBVIOUS
    <3> DEFINE Shape(n) ==
          \/ Scope = "account_wide" /\ n = 1 /\ d[1] = Main
          \/ Scope = "organization" /\ n = 1 /\ d[1] = Pool /\ OnDemand = {} /\ ~HasEvents
          \/ Scope = "organization" /\ n = 2 /\ d[1] = Pool /\ d[2] = Personal
          \/ n = 1 /\ d[1] = only /\ OnDemand = {} /\ ~HasEvents
          \/ Scope = "account_wide" /\ n = 2 /\ d[1] = Main /\ d[2] = t /\ OnDemand = {}
          \/ Scope = "organization" /\ n = 2 /\ d[1] = Pool /\ d[2] = t /\ OnDemand = {} /\ ~HasEvents
          \/ Scope = "organization" /\ n = 3 /\ d[1] = Pool /\ d[2] = Personal /\ d[3] = t /\ OnDemand = {}
    <3>4. CASE d = <<Main>> \/ d = <<Pool>> \/ d = <<only>>
      <4>1. DOMAIN d = 1..1 /\ Shape(1)
        BY <2>4, <3>1, <3>2, <3>3, <3>4
      <4> QED
        BY <4>1
    <3>5. CASE d = <<Pool, Personal>> \/ d = <<Main, t>> \/ d = <<Pool, t>>
      <4>1. DOMAIN d = 1..2 /\ Shape(2)
        BY <2>4, <3>1, <3>2, <3>3, <3>5
      <4> QED
        BY <4>1
    <3>6. CASE d = <<Pool, Personal, t>>
      <4>1. DOMAIN d = 1..3 /\ Shape(3)
        BY <2>4, <3>1, <3>2, <3>3, <3>6
      <4> QED
        BY <4>1
    <3> QED
      BY <2>4, <3>4, <3>5, <3>6
  <2>6. /\ t.name = "cursor_team_budget" /\ t.scope = "organization" /\ t.windows = TeamBudget /\ t.events = FALSE
        /\ only.scope = "organization" /\ only.windows = TeamBudget /\ only.events = FALSE
    BY BudgetsAre DEF t, only
  <2> DEFINE k == IF Scope = "account_wide" THEN 1 ELSE 2
  <2>7. ASSUME NEW i \in 1..n, NEW w \in d[i].windows
        PROVE  (w \in Quotas /\ i = 1) \/ (w \in OnDemand /\ i = k) \/ (w \in TeamBudget /\ i = n)
    <3>1. \/ i = 1 /\ d[i] = Main /\ Scope = "account_wide"
          \/ i = 1 /\ d[i] = Pool
          \/ i = 2 /\ d[i] = Personal /\ Scope = "organization"
          \/ i = n /\ (d[i] = t \/ d[i] = only)
      BY <2>5
    <3> QED
      BY <2>6, <2>7, <3>1, MainIs, PoolIs, PersonalIs
  <2>8. \A a, b \in Told : a[2].id = b[2].id => a = b
    <3>1. SUFFICES ASSUME NEW i \in 1..n, NEW w \in d[i].windows, NEW j \in 1..n, NEW v \in d[j].windows, w.id = v.id
                   PROVE  i = j /\ w = v
      BY <2>5 DEF Told, d
    <3>2. (w \in Quotas /\ i = 1) \/ (w \in OnDemand /\ i = k) \/ (w \in TeamBudget /\ i = n)
      BY <2>7
    <3>3. (v \in Quotas /\ j = 1) \/ (v \in OnDemand /\ j = k) \/ (v \in TeamBudget /\ j = n)
      BY <2>7
    <3> HIDE DEF k
    <3>4. CASE w \in Quotas /\ i = 1
      BY <3>1, <3>3, <3>4, QuotasAre, OnDemandIs, BudgetIs
    <3>5. CASE w \in OnDemand /\ i = k
      BY <3>1, <3>3, <3>5, QuotasAre, OnDemandIs, BudgetIs
    <3>6. CASE w \in TeamBudget /\ i = n
      BY <3>1, <3>3, <3>6, QuotasAre, OnDemandIs, BudgetIs
    <3> QED
      BY <3>2, <3>4, <3>5, <3>6
  <2>9. ASSUME NEW i \in 1..n
        PROVE  /\ \A w \in d[i].windows : w.of = "team" <=> d[i].scope = "organization"
               /\ d[i].events => d[i].scope = "account_wide"
    <3>0. /\ \A w \in TeamBudget : w.of = "team"
          /\ \A w \in OnDemand : w.of # "team"
          /\ \A w \in Quotas : w.of = "team" <=> Scope = "organization"
      BY BudgetIs, OnDemandIs, QuotasAre
    <3>1. CASE d[i] = Main /\ Scope = "account_wide"
      BY <3>0, <3>1, MainIs
    <3>2. CASE d[i] = Pool /\ Scope = "organization"
      BY <3>0, <3>2, PoolIs
    <3>3. CASE d[i] = Personal
      BY <3>0, <3>3, PersonalIs
    <3>4. CASE d[i] = t \/ d[i] = only
      BY <2>6, <3>0, <3>4
    <3> QED
      BY <2>5, <3>1, <3>2, <3>3, <3>4
  <2>10. HasEvents <=> \E i \in 1..n : d[i].events
    <3>1. CASE HasEvents
      <4>1. d[1] = Main \/ (n > 1 /\ d[2] = Personal)
        BY <2>5, <3>1
      <4>2. CASE d[1] = Main
        <5>1. 1 \in 1..n /\ d[1].events
          BY <3>1, <4>2, MainIs
        <5> QED
          BY <3>1, <5>1
      <4>3. CASE n > 1 /\ d[2] = Personal
        <5>1. 2 \in 1..n /\ d[2].events
          BY <3>1, <4>3, PersonalIs
        <5> QED
          BY <3>1, <5>1
      <4> QED
        BY <4>1, <4>2, <4>3
    <3>2. CASE ~HasEvents
      <4>1. \A i \in 1..n : d[i] \in {Main, Pool, Personal, t, only}
        BY <2>5
      <4> QED
        BY <2>6, <3>2, <4>1, MainIs, PoolIs, PersonalIs
    <3> QED
      BY <3>1, <3>2
  <2>11. ASSUME NEW i \in 1..n, NEW j \in 1..n, i # j PROVE d[i].name # d[j].name /\ ~ (d[i].events /\ d[j].events)
    BY <2>5, <2>6, <2>11, MainIs, PoolIs, PersonalIs
  <2>12. Says("personal") => \E a \in Told : a[2].id = "cursor_on_demand"
    <3>1. SUFFICES ASSUME Says("personal") PROVE \E a \in Told : a[2].id = "cursor_on_demand"
      OBVIOUS
    <3>2. PICK w \in OnDemand : w.id = "cursor_on_demand"
      BY <3>1, OnDemandIs
    <3>3. PICK i \in 1..n : w \in d[i].windows
      <4>1. d[1] = Main \/ (n = 2 /\ d[2] = Personal)
        BY <2>5, <3>2
      <4> QED
        BY <3>2, <4>1, MainIs, PersonalIs
    <3>4. <<i, w>> \in Told
      BY <2>5, <3>3 DEF Told, d
    <3> QED
      BY <3>2, <3>4
  <2>13. HasEvents \/ report.warned \/ d[1].windows = TeamBudget
    BY <2>4, <2>6
  <2>14. TeamApart
    BY <2>5, <2>9 DEF TeamApart, d
  <2>15. ToldOnce
    BY <2>5, <2>8, <2>10, <2>11, <2>12, <2>13 DEF ToldOnce, d
  <2> QED
    BY <2>2, <2>14, <2>15 DEF TeamKeptApart
<1> QED
  BY <1>1, <1>2, <1>3 DEF CursorInv

LEMMA CursorStarts == CursorUsageInit => CursorInv
BY DEF CursorUsageInit, CursorInv

LEMMA CursorKept == ASSUME CursorInv, [CursorUsageNext]_cursorUsageVars PROVE CursorInv'
<1>0. said' = said
  BY DEF CursorUsageNext, cursorUsageVars
<1>1. Normalized' = Normalized
  <2>1. HeadlineSource' = HeadlineSource /\ HasEvents' = HasEvents /\ \A fact : Says(fact)' = Says(fact)
    BY <1>0 DEF HeadlineSource, HasEvents, Says
  <2>2. Quotas' = Quotas /\ Scope' = Scope /\ OnDemand' = OnDemand
    BY <1>0 DEF Quotas, Scope, OnDemand, HeadlineSource, Says
  <2>3. Own' = Own
    BY <2>1, <2>2 DEF Own
  <2> QED
    BY <1>0, <2>1, <2>3 DEF Normalized, Says
<1>2. CASE CursorUsageNext
  BY <1>0, <1>1, <1>2 DEF CursorUsageNext, CursorInv
<1>3. CASE UNCHANGED cursorUsageVars
  BY <1>0, <1>1, <1>3 DEF cursorUsageVars, CursorInv
<1> QED
  BY <1>2, <1>3

-----------------------------------------------------------------------------
(* The dashboard.  What was told of an account's days is no more than what *)
(* was used on them, and only a provider's own rows tell of other devices. *)
RowsByDay == UNION {[days -> Nat] : days \in SUBSET ReportDays}
DaySnapshot == [at : ReportDays \union {-1}, days : RowsByDay, ofDay : Nat]

NoMoreThanUsed(a) ==
  /\ \A d \in DOMAIN taken[a].days : taken[a].days[d] <= tokensUsed[a][d].here
  /\ taken[a].ofDay > 0 => taken[a].at \in ReportDays /\ taken[a].ofDay <= tokensUsed[a][taken[a].at].here
  /\ \A d \in DOMAIN retained[a] : retained[a][d] <= SpentIn(a, d)

DashboardInv ==
  /\ today \in ReportDays
  /\ tokensUsed \in [ReportAccounts -> [ReportDays -> [here : Nat, elsewhere : Nat]]]
  /\ taken \in [ReportAccounts -> DaySnapshot] /\ retained \in [ReportAccounts -> RowsByDay]
  /\ \A a \in ReportAccounts : taken[a].at <= today
  /\ \A a \in ReportAccounts : NoMoreThanUsed(a)
  /\ retained[Device] = <<>> /\ \A d \in ReportDays : tokensUsed[Device][d].elsewhere = 0

LEMMA RowsAre ==
  ASSUME NEW f
  PROVE  f \in RowsByDay <=> DOMAIN f \subseteq ReportDays /\ f \in [DOMAIN f -> Nat]
BY DEF RowsByDay

LEMMA EmptyRows == <<>> \in RowsByDay /\ DOMAIN <<>> = {}
<1>1. DOMAIN <<>> = {} /\ <<>> \in [{} -> Nat]
  OBVIOUS
<1> QED
  BY <1>1 DEF RowsByDay

LEMMA HereIs ==
  ASSUME DashboardInv, NEW a \in ReportAccounts
  PROVE  /\ Here(a) \in RowsByDay /\ \A d \in DOMAIN Here(a) : d \in ReportDays /\ Here(a)[d] = tokensUsed[a][d].here
         /\ \A d \in Recent(ReportDays) : d \notin DOMAIN Here(a) => tokensUsed[a][d].here = 0
<1>1. \A d \in ReportDays : tokensUsed[a][d].here \in Nat
  BY DEF DashboardInv
<1> DEFINE days == {e \in Recent(ReportDays) : tokensUsed[a][e].here > 0}
<1>2. days \subseteq ReportDays
  BY DEF Recent
<1>3. Here(a) = [d \in days |-> tokensUsed[a][d].here]
  BY DEF Here
<1>4. Here(a) \in [days -> Nat] /\ DOMAIN Here(a) = days
  BY <1>1, <1>2, <1>3
<1>5. Here(a) \in RowsByDay
  BY <1>2, <1>4 DEF RowsByDay
<1>6. \A d \in Recent(ReportDays) : d \notin days => tokensUsed[a][d].here = 0
  BY <1>1 DEF Recent
<1> QED
  BY <1>2, <1>3, <1>4, <1>5, <1>6

LEMMA EverywhereIs ==
  ASSUME DashboardInv, NEW a \in ReportAccounts
  PROVE  Everywhere(a) \in RowsByDay /\ \A d \in DOMAIN Everywhere(a) : d \in ReportDays /\ Everywhere(a)[d] = SpentIn(a, d)
<1>1. \A d \in ReportDays : SpentIn(a, d) \in Nat
  BY DEF DashboardInv, SpentIn
<1> DEFINE days == {e \in Recent(ReportDays) : SpentIn(a, e) > 0}
<1>2. days \subseteq ReportDays
  BY DEF Recent
<1>3. Everywhere(a) = [d \in days |-> SpentIn(a, d)]
  BY DEF Everywhere
<1>4. Everywhere(a) \in [days -> Nat] /\ DOMAIN Everywhere(a) = days
  BY <1>1, <1>2, <1>3
<1>5. Everywhere(a) \in RowsByDay
  BY <1>2, <1>4 DEF RowsByDay
<1> QED
  BY <1>2, <1>3, <1>4, <1>5

LEMMA OverIs ==
  ASSUME NEW f \in RowsByDay, NEW g \in RowsByDay
  PROVE  /\ Over(f, g) \in RowsByDay /\ DOMAIN Over(f, g) = DOMAIN f \union DOMAIN g
         /\ \A d \in DOMAIN Over(f, g) : Over(f, g)[d] = IF d \in DOMAIN f THEN f[d] ELSE g[d]
<1>1. /\ DOMAIN f \subseteq ReportDays /\ f \in [DOMAIN f -> Nat]
      /\ DOMAIN g \subseteq ReportDays /\ g \in [DOMAIN g -> Nat]
  BY RowsAre
<1> DEFINE days == DOMAIN f \union DOMAIN g
<1>2. Over(f, g) = [d \in days |-> IF d \in DOMAIN f THEN f[d] ELSE g[d]]
  BY DEF Over
<1>3. Over(f, g) \in [days -> Nat] /\ days \subseteq ReportDays
  BY <1>1, <1>2
<1>4. Over(f, g) \in RowsByDay
  BY <1>3 DEF RowsByDay
<1> QED
  BY <1>2, <1>3, <1>4

LEMMA DashboardStart == ReportInit => DashboardInv
<1> SUFFICES ASSUME ReportInit PROVE DashboardInv
  OBVIOUS
<1>1. today \in ReportDays
  BY ReportAssumption DEF ReportInit, ReportDays
<1>2. NoSnapshot \in DaySnapshot /\ NoSnapshot.days = <<>> /\ NoSnapshot.at = -1 /\ NoSnapshot.ofDay = 0
  BY EmptyRows DEF NoSnapshot, DaySnapshot
<1>3. \A a \in ReportAccounts : taken[a] = NoSnapshot /\ retained[a] = <<>>
  BY DEF ReportInit
<1>4. taken \in [ReportAccounts -> DaySnapshot] /\ retained \in [ReportAccounts -> RowsByDay]
  BY <1>2, EmptyRows DEF ReportInit
<1>5. tokensUsed \in [ReportAccounts -> [ReportDays -> [here : Nat, elsewhere : Nat]]]
  BY DEF ReportInit
<1>6. retained[Device] = <<>> /\ \A d \in ReportDays : tokensUsed[Device][d].elsewhere = 0
  BY DEF ReportInit, ReportAccounts
<1>7. \A a \in ReportAccounts : NoMoreThanUsed(a)
  BY <1>2, <1>3, EmptyRows DEF NoMoreThanUsed
<1>8. \A a \in ReportAccounts : taken[a].at <= today
  BY <1>1, <1>2, <1>3 DEF ReportDays
<1> QED
  BY <1>1, <1>4, <1>5, <1>6, <1>7, <1>8 DEF DashboardInv

LEMMA DashboardKept == ASSUME DashboardInv, [ReportNext]_reportVars PROVE DashboardInv'
<1>0. ReportDays \subseteq Nat /\ today \in ReportDays /\ MaxDays \in Nat
  BY ReportAssumption DEF ReportDays, DashboardInv
<1>t. /\ tokensUsed \in [ReportAccounts -> [ReportDays -> [here : Nat, elsewhere : Nat]]]
      /\ taken \in [ReportAccounts -> DaySnapshot] /\ retained \in [ReportAccounts -> RowsByDay]
  BY DEF DashboardInv
<1>1. CASE UNCHANGED reportVars
  BY <1>1 DEF reportVars, DashboardInv, NoMoreThanUsed, SpentIn
<1>2. ASSUME NEW a \in ReportAccounts, NEW where \in {"here", "elsewhere"}, Spends(a, where) PROVE DashboardInv'
  <2> DEFINE more == OneMore(tokensUsed[a][today], where)
  <2>1. tokensUsed[a][today] \in [here : Nat, elsewhere : Nat]
    BY <1>0, <1>t
  <2>2. /\ more \in [here : Nat, elsewhere : Nat] /\ more.here >= tokensUsed[a][today].here
        /\ more.elsewhere >= tokensUsed[a][today].elsewhere
        /\ where = "here" => more.elsewhere = tokensUsed[a][today].elsewhere
    BY <2>1 DEF OneMore
  <2>3. tokensUsed' = [tokensUsed EXCEPT ![a][today] = more] /\ UNCHANGED <<today, taken, retained, hidden, enabled>>
        /\ (where = "elsewhere" => a = Cloud)
    BY <1>2 DEF Spends
  <2> HIDE DEF more
  <2>4. tokensUsed' \in [ReportAccounts -> [ReportDays -> [here : Nat, elsewhere : Nat]]]
    BY <2>2, <2>3, <1>0, <1>t
  <2>5. \A b \in ReportAccounts, d \in ReportDays :
          tokensUsed'[b][d] = IF b = a /\ d = today THEN more ELSE tokensUsed[b][d]
    BY <2>3, <1>0, <1>t
  <2>6. \A b \in ReportAccounts, d \in ReportDays :
          tokensUsed[b][d].here <= tokensUsed'[b][d].here /\ tokensUsed[b][d].elsewhere <= tokensUsed'[b][d].elsewhere
    BY <2>2, <2>5, <1>t
  <2>7. \A d \in ReportDays : tokensUsed'[Device][d].elsewhere = 0
    <3>1. Device \in ReportAccounts /\ Cloud # Device
      BY ReportAssumption DEF ReportAccounts
    <3> QED
      BY <3>1, <2>2, <2>3, <2>5 DEF DashboardInv
  <2>8. ASSUME NEW b \in ReportAccounts PROVE NoMoreThanUsed(b)'
    <3>1. NoMoreThanUsed(b) /\ taken[b] \in DaySnapshot /\ retained[b] \in RowsByDay
      BY <1>t DEF DashboardInv
    <3>2. /\ DOMAIN taken[b].days \subseteq ReportDays /\ taken[b].days \in [DOMAIN taken[b].days -> Nat]
          /\ DOMAIN retained[b] \subseteq ReportDays /\ retained[b] \in [DOMAIN retained[b] -> Nat] /\ taken[b].ofDay \in Nat
      BY <3>1, RowsAre DEF DaySnapshot
    <3>3. \A d \in ReportDays : /\ tokensUsed[b][d].here \in Nat /\ tokensUsed'[b][d].here \in Nat
                               /\ SpentIn(b, d) \in Nat /\ SpentIn(b, d)' \in Nat /\ SpentIn(b, d) <= SpentIn(b, d)'
      BY <1>t, <2>4, <2>6 DEF SpentIn
    <3>4. \A d \in DOMAIN taken'[b].days : taken'[b].days[d] <= tokensUsed'[b][d].here
      BY <2>3, <2>6, <3>1, <3>2, <3>3 DEF NoMoreThanUsed
    <3>5. taken'[b].ofDay > 0 => taken'[b].at \in ReportDays /\ taken'[b].ofDay <= tokensUsed'[b][taken'[b].at].here
      BY <2>3, <2>6, <3>1, <3>2, <3>3 DEF NoMoreThanUsed
    <3>6. \A d \in DOMAIN retained'[b] : retained'[b][d] <= SpentIn(b, d)'
      BY <2>3, <3>1, <3>2, <3>3 DEF NoMoreThanUsed
    <3> QED
      BY <3>4, <3>5, <3>6 DEF NoMoreThanUsed
  <2> QED
    BY <2>3, <2>4, <2>7, <2>8 DEF DashboardInv
<1>c. ASSUME NEW a \in ReportAccounts, NEW t \in DaySnapshot, taken' = [taken EXCEPT ![a] = t], t.at <= today,
             UNCHANGED <<today, tokensUsed>>,
             \A d \in DOMAIN t.days : t.days[d] <= tokensUsed[a][d].here,
             t.ofDay > 0 => t.at \in ReportDays /\ t.ofDay <= tokensUsed[a][t.at].here,
             retained' \in [ReportAccounts -> RowsByDay], retained'[Device] = <<>>,
             \A b \in ReportAccounts : \A d \in DOMAIN retained'[b] : retained'[b][d] <= SpentIn(b, d)
      PROVE  DashboardInv'
  <2>1. taken' \in [ReportAccounts -> DaySnapshot]
    BY <1>c, <1>t
  <2>2. \A b \in ReportAccounts : taken'[b] = IF b = a THEN t ELSE taken[b]
    BY <1>c, <1>t
  <2>3. \A b \in ReportAccounts : taken'[b].at <= today'
    BY <1>c, <2>2 DEF DashboardInv
  <2>4. ASSUME NEW b \in ReportAccounts PROVE NoMoreThanUsed(b)'
    <3>1. NoMoreThanUsed(b)
      BY DEF DashboardInv
    <3>2. taken'[b] = IF b = a THEN t ELSE taken[b]
      BY <2>2
    <3>3. \A d : SpentIn(b, d)' = SpentIn(b, d)
      BY <1>c DEF SpentIn
    <3>4. \A d \in DOMAIN retained'[b] : retained'[b][d] <= SpentIn(b, d)'
      BY <1>c, <3>3
    <3>5. /\ \A d \in DOMAIN taken'[b].days : taken'[b].days[d] <= tokensUsed'[b][d].here
          /\ taken'[b].ofDay > 0 => taken'[b].at \in ReportDays /\ taken'[b].ofDay <= tokensUsed'[b][taken'[b].at].here
      BY <1>c, <3>1, <3>2 DEF NoMoreThanUsed
    <3> QED
      BY <3>4, <3>5 DEF NoMoreThanUsed
  <2> QED
    BY <1>c, <2>1, <2>3, <2>4 DEF DashboardInv
<1>3. ASSUME NEW a \in ReportAccounts, NEW answers \in BOOLEAN, CollectUsage(a, answers) PROVE DashboardInv'
  <2> DEFINE t == [at |-> today, days |-> Here(a), ofDay |-> tokensUsed[a][today].here]
  <2>1. t.at = today /\ t.days = Here(a) /\ t.ofDay = tokensUsed[a][today].here /\ t.ofDay \in Nat
    BY <1>0, <1>t
  <2>2. t \in DaySnapshot
    BY <1>0, <2>1, HereIs DEF DaySnapshot
  <2>3. taken' = [taken EXCEPT ![a] = t] /\ UNCHANGED <<today, tokensUsed>>
    BY <1>3 DEF CollectUsage
  <2>4. \A d \in DOMAIN t.days : t.days[d] <= tokensUsed[a][d].here
    <3>1. \A d \in DOMAIN Here(a) : d \in ReportDays /\ Here(a)[d] = tokensUsed[a][d].here /\ tokensUsed[a][d].here \in Nat
      BY HereIs, <1>t
    <3> QED
      BY <2>1, <3>1
  <2>5. retained' = IF answers /\ a = Cloud THEN [retained EXCEPT ![a] = Over(Everywhere(a), retained[a])] ELSE retained
    BY <1>3 DEF CollectUsage
  <2>6. retained[a] \in RowsByDay /\ Everywhere(a) \in RowsByDay
    BY <1>t, EverywhereIs
  <2> DEFINE over == Over(Everywhere(a), retained[a])
  <2>7. over \in RowsByDay /\ \A d \in DOMAIN over : over[d] <= SpentIn(a, d)
    <3>1. over \in RowsByDay /\ DOMAIN over = DOMAIN Everywhere(a) \union DOMAIN retained[a]
      BY <2>6, OverIs
    <3>2. \A d \in DOMAIN over : over[d] = IF d \in DOMAIN Everywhere(a) THEN Everywhere(a)[d] ELSE retained[a][d]
      BY <2>6, OverIs, ZenonT(60)
    <3>3. \A d \in DOMAIN retained[a] : retained[a][d] <= SpentIn(a, d)
      BY DEF DashboardInv, NoMoreThanUsed
    <3>4. \A d \in DOMAIN Everywhere(a) : Everywhere(a)[d] = SpentIn(a, d) /\ SpentIn(a, d) \in Nat
      BY EverywhereIs, <1>t DEF SpentIn
    <3> QED
      BY <3>1, <3>2, <3>3, <3>4
  <2> HIDE DEF over
  <2>8. retained' = IF answers /\ a = Cloud THEN [retained EXCEPT ![a] = over] ELSE retained
    BY <2>5 DEF over
  <2>9. retained' \in [ReportAccounts -> RowsByDay]
    BY <2>7, <2>8, <1>t
  <2>10. retained'[Device] = <<>>
    <3>1. Device \in ReportAccounts /\ Cloud # Device /\ retained[Device] = <<>>
      BY ReportAssumption DEF ReportAccounts, DashboardInv
    <3> QED
      BY <3>1, <2>8, <1>t
  <2>11. \A b \in ReportAccounts : \A d \in DOMAIN retained'[b] : retained'[b][d] <= SpentIn(b, d)
    <3>1. \A b \in ReportAccounts : \A d \in DOMAIN retained[b] : retained[b][d] <= SpentIn(b, d)
      BY DEF DashboardInv, NoMoreThanUsed
    <3>2. \A b \in ReportAccounts : retained'[b] = retained[b] \/ (b = a /\ retained'[b] = over)
      BY <2>8, <1>t
    <3> QED
      BY <3>1, <3>2, <2>7
  <2>12. t.ofDay > 0 => t.at \in ReportDays /\ t.ofDay <= tokensUsed[a][t.at].here
    BY <1>0, <2>1
  <2>13. t.at <= today
    BY <1>0, <2>1
  <2> HIDE DEF t
  <2> QED
    BY <1>c, <2>2, <2>3, <2>4, <2>9, <2>10, <2>11, <2>12, <2>13
<1>4. CASE CollectLegacy
  <2> DEFINE t == [at |-> 0, days |-> <<>>, ofDay |-> tokensUsed[Device][0].here]
  <2>1. today = 0 /\ Device \in ReportAccounts /\ taken' = [taken EXCEPT ![Device] = t] /\ UNCHANGED <<today, tokensUsed, retained>>
    BY <1>4 DEF CollectLegacy, ReportAccounts
  <2>2. t.at = 0 /\ t.days = <<>> /\ t.ofDay = tokensUsed[Device][0].here /\ t.ofDay \in Nat
    BY <1>0, <1>t, <2>1
  <2>3. t \in DaySnapshot
    BY <1>0, <2>1, <2>2, EmptyRows DEF DaySnapshot
  <2>4. retained' \in [ReportAccounts -> RowsByDay] /\ retained'[Device] = <<>>
        /\ \A b \in ReportAccounts : \A d \in DOMAIN retained'[b] : retained'[b][d] <= SpentIn(b, d)
    BY <2>1 DEF DashboardInv, NoMoreThanUsed
  <2>5. t.at <= today /\ (\A d \in DOMAIN t.days : t.days[d] <= tokensUsed[Device][d].here)
        /\ (t.ofDay > 0 => t.at \in ReportDays /\ t.ofDay <= tokensUsed[Device][t.at].here)
    BY <1>0, <2>1, <2>2, EmptyRows
  <2> HIDE DEF t
  <2> QED
    BY <1>c, <2>1, <2>3, <2>4, <2>5
<1>5. CASE NextDay
  <2>1. today' = today + 1 /\ today' \in ReportDays /\ UNCHANGED <<tokensUsed, taken, retained>>
    BY <1>5, <1>0, ReportAssumption DEF NextDay, ReportDays
  <2>2. \A a \in ReportAccounts : taken[a].at <= today + 1
    <3> SUFFICES ASSUME NEW a \in ReportAccounts PROVE taken[a].at <= today + 1
      OBVIOUS
    <3>1. taken[a] \in DaySnapshot /\ taken[a].at <= today
      BY <1>t DEF DashboardInv
    <3>2. ReportDays \subseteq Int
      BY <1>0
    <3>a. taken[a].at \in ReportDays \union {-1}
      BY <3>1 DEF DaySnapshot
    <3>b. -1 \in Int
      OBVIOUS
    <3>3. taken[a].at \in Int
      BY <3>2, <3>a, <3>b
    <3>4. today \in Int
      BY <1>0
    <3> QED
      BY <3>1, <3>3, <3>4
  <2> QED
    BY <2>1, <2>2 DEF DashboardInv, NoMoreThanUsed, SpentIn
<1>6. CASE \E a \in ReportAccounts : HideOrShow(a)
  BY <1>6 DEF HideOrShow, DashboardInv, NoMoreThanUsed, SpentIn
<1> QED
  BY <1>1, <1>2, <1>3, <1>4, <1>5, <1>6 DEF ReportNext

(* What a summary says of a recent day, unless its cost is misdated.       *)
LEMMA RecentAre == ASSUME DashboardInv, NEW d \in Recent(0..today) PROVE d \in ReportDays /\ d \in Recent(ReportDays) /\ d <= today
<1>1. today \in Nat /\ MaxDays \in Nat /\ today <= MaxDays /\ d \in 0..today /\ d > today - Lookback
  BY ReportAssumption DEF DashboardInv, ReportDays, Recent
<1> QED
  BY <1>1 DEF ReportDays, Recent

LEMMA DaysAreUsed ==
  ASSUME DashboardInv, NEW a \in ReportAccounts, NEW d \in ReportDays
  PROVE  /\ tokensUsed[a][d].here \in Nat /\ SpentIn(a, d) \in Nat /\ tokensUsed[a][d].here <= SpentIn(a, d)
         /\ a = Device => SpentIn(a, d) = tokensUsed[a][d].here
BY DEF DashboardInv, SpentIn, ReportAccounts

LEMMA CostIsUsed ==
  ASSUME DashboardInv, NEW a \in ReportAccounts, Collected(a), ~Misdated(a), NEW d \in Recent(0..today)
  PROVE  OfDay(CostDays(a), d) \in Nat /\ OfDay(CostDays(a), d) <= tokensUsed[a][d].here
<1>1. taken[a] \in DaySnapshot /\ NoMoreThanUsed(a) /\ taken[a].at <= today /\ today \in ReportDays
  BY DEF DashboardInv
<1>2. d \in ReportDays /\ tokensUsed[a][d].here \in Nat
  BY RecentAre, DaysAreUsed
<1>3. CASE taken[a].days # <<>>
  <2>1. CostDays(a) = taken[a].days
    BY <1>3 DEF CostDays
  <2>2. taken[a].days \in RowsByDay
    BY <1>1 DEF DaySnapshot
  <2>3. taken[a].days \in [DOMAIN taken[a].days -> Nat]
    BY <2>2, RowsAre
  <2> QED
    BY <1>1, <1>2, <2>1, <2>3 DEF OfDay, NoMoreThanUsed
<1>4. CASE taken[a].days = <<>> /\ taken[a].ofDay = 0
  <2>1. CostDays(a) = <<>>
    BY <1>4 DEF CostDays, TodayPoint
  <2>2. OfDay(CostDays(a), d) = 0
    BY <2>1, EmptyRows DEF OfDay
  <2> QED
    BY <1>2, <2>2
<1>5. CASE taken[a].days = <<>> /\ taken[a].ofDay # 0
  <2>1. taken[a].ofDay \in Nat /\ taken[a].at \in Int /\ today \in Int
    BY <1>1, ReportAssumption DEF DaySnapshot, ReportDays
  <2>2. taken[a].ofDay > 0 /\ taken[a].at = today
    BY <1>1, <1>5, <2>1 DEF Misdated
  <2>3. CostDays(a) = [e \in {today} |-> taken[a].ofDay]
    BY <1>5 DEF CostDays, TodayPoint
  <2>4. OfDay(CostDays(a), d) = IF d = today THEN taken[a].ofDay ELSE 0
    BY <2>3 DEF OfDay
  <2>5. taken[a].ofDay <= tokensUsed[a][today].here
    BY <1>1, <2>2 DEF NoMoreThanUsed
  <2> QED
    BY <1>2, <2>1, <2>4, <2>5
<1> QED
  BY <1>3, <1>4, <1>5

(* The activity that is shown: the rows that are kept, or else the cost.   *)
LEMMA ActivityIs ==
  ASSUME DashboardInv, NEW a \in ReportAccounts, NEW d \in Recent(0..today)
  PROVE  OfDay(ActivityDays(a), d) = IF retained[a] = <<>> THEN OfDay(CostDays(a), d) ELSE OfDay(retained[a], d)
<1>1. CASE retained[a] = <<>>
  BY <1>1 DEF ActivityDays
<1>2. CASE retained[a] # <<>>
  <2>1. ActivityDays(a) = [e \in Recent(DOMAIN retained[a]) |-> retained[a][e]]
    BY <1>2 DEF ActivityDays
  <2>2. d \in DOMAIN retained[a] => d \in Recent(DOMAIN retained[a])
    BY DEF Recent
  <2>3. d \notin DOMAIN retained[a] => d \notin Recent(DOMAIN retained[a])
    BY DEF Recent
  <2> QED
    BY <1>2, <2>1, <2>2, <2>3 DEF OfDay
<1> QED
  BY <1>1, <1>2

LEMMA ActivityIsUsed ==
  ASSUME DashboardInv, NEW a \in ReportAccounts, Collected(a), ~Misdated(a), NEW d \in Recent(0..today)
  PROVE  OfDay(ActivityDays(a), d) \in Nat /\ OfDay(ActivityDays(a), d) <= SpentIn(a, d)
<1>1. d \in ReportDays /\ tokensUsed[a][d].here \in Nat /\ SpentIn(a, d) \in Nat /\ tokensUsed[a][d].here <= SpentIn(a, d)
  BY RecentAre, DaysAreUsed
<1>2. CASE retained[a] = <<>>
  <2>1. OfDay(CostDays(a), d) \in Nat /\ OfDay(CostDays(a), d) <= tokensUsed[a][d].here
    BY CostIsUsed
  <2> QED
    BY <1>1, <1>2, <2>1, ActivityIs
<1>3. CASE retained[a] # <<>>
  <2>1. NoMoreThanUsed(a) /\ retained[a] \in RowsByDay
    BY DEF DashboardInv
  <2>2. retained[a] \in [DOMAIN retained[a] -> Nat]
    BY <2>1, RowsAre
  <2>3. OfDay(retained[a], d) \in Nat /\ OfDay(retained[a], d) <= SpentIn(a, d)
    BY <1>1, <2>1, <2>2 DEF OfDay, NoMoreThanUsed
  <2> QED
    BY <1>3, <2>3, ActivityIs
<1> QED
  BY <1>2, <1>3

LEMMA TokensAreUsed ==
  ASSUME DashboardInv, NEW a \in ReportAccounts, Collected(a), ~Misdated(a), NEW d \in Recent(0..today)
  PROVE  DayTokens(Summary(a), d) \in Nat /\ DayTokens(Summary(a), d) <= SpentIn(a, d)
<1>1. DayTokens(Summary(a), d) \in {OfDay(ActivityDays(a), d), OfDay(CostDays(a), d)}
  BY DEF DayTokens, Summary
<1>2. OfDay(ActivityDays(a), d) \in Nat /\ OfDay(ActivityDays(a), d) <= SpentIn(a, d)
  BY ActivityIsUsed
<1>3. OfDay(CostDays(a), d) \in Nat /\ OfDay(CostDays(a), d) <= tokensUsed[a][d].here
  BY CostIsUsed
<1>4. tokensUsed[a][d].here \in Nat /\ SpentIn(a, d) \in Nat /\ tokensUsed[a][d].here <= SpentIn(a, d)
  BY RecentAre, DaysAreUsed
<1> QED
  BY <1>1, <1>2, <1>3, <1>4

LEMMA TokensAreTold ==
  ASSUME DashboardInv, NEW a \in ReportAccounts, AllTold(a), NEW d \in Recent(0..today)
  PROVE  Collected(a) /\ DayTokens(Summary(a), d) = SpentIn(a, d)
<1>0. today \in Nat /\ d \in Recent(ReportDays) /\ d \in ReportDays
  BY RecentAre, ReportAssumption, SMTT(60) DEF DashboardInv, ReportDays
<1>1. Collected(a) /\ ~Misdated(a)
  BY <1>0 DEF AllTold, Collected, Misdated
<1>2. tokensUsed[a][d].here \in Nat /\ SpentIn(a, d) \in Nat /\ (a = Device => SpentIn(a, d) = tokensUsed[a][d].here)
  BY <1>0, DaysAreUsed
<1>3. Summary(a).activity = ActivityDays(a) /\ Summary(a).cost = CostDays(a)
  BY DEF Summary
<1>4. CASE a = Device
  <2>1. retained[a] = <<>>
    BY <1>4 DEF DashboardInv
  <2>2. ActivityDays(a) = CostDays(a)
    BY <2>1 DEF ActivityDays
  <2>3. DayTokens(Summary(a), d) = OfDay(CostDays(a), d)
    BY <1>3, <2>2 DEF DayTokens
  <2>4. CASE Here(a) # <<>>
    <3>1. CostDays(a) = Here(a)
      BY <2>4 DEF CostDays, AllTold
    <3>2. OfDay(Here(a), d) = tokensUsed[a][d].here
      BY <1>0, HereIs DEF OfDay
    <3> QED
      BY <1>1, <1>2, <1>4, <2>3, <3>1, <3>2
  <2>5. CASE Here(a) = <<>>
    <3>1. tokensUsed[a][d].here = 0
      BY <1>0, <2>5, HereIs, EmptyRows
    <3>2. OfDay(CostDays(a), d) \in Nat /\ OfDay(CostDays(a), d) <= 0
      BY <1>1, <3>1, CostIsUsed
    <3> QED
      BY <1>1, <1>2, <1>4, <2>3, <3>1, <3>2
  <2> QED
    BY <2>4, <2>5
<1>5. CASE a = Cloud
  <2>1. retained[a] # <<>> /\ OfDay(retained[a], d) = SpentIn(a, d)
    BY <1>5 DEF AllTold
  <2>2. OfDay(ActivityDays(a), d) = SpentIn(a, d)
    BY <2>1, ActivityIs
  <2>3. CASE ActivityDays(a) # <<>>
    BY <1>1, <1>3, <2>2, <2>3 DEF DayTokens
  <2>4. CASE ActivityDays(a) = <<>>
    <3>1. SpentIn(a, d) = 0
      BY <2>2, <2>4, EmptyRows DEF OfDay
    <3>2. DayTokens(Summary(a), d) \in Nat /\ DayTokens(Summary(a), d) <= 0
      BY <1>1, <3>1, TokensAreUsed
    <3> QED
      BY <1>1, <3>1, <3>2
  <2> QED
    BY <2>3, <2>4
<1> QED
  BY <1>4, <1>5 DEF ReportAccounts

(* What is shown of the accounts that are included and have been collected.*)
LEMMA SelectedAre ==
  ASSUME NEW r \in ReportRequests
  PROVE  /\ Selected(r) = {a \in Included(r) : Collected(a)} /\ Included(r) \subseteq ReportAccounts
         /\ \A a \in Selected(r) : Dashboard[a] = Summary(a)
<1>1. \A a \in Included(r) : a \in ReportAccounts \ hidden
  BY DEF Included, Includes
<1>2. Selected(r) = {a \in Included(r) : Collected(a)}
  BY <1>1 DEF Selected, VisibleAccounts, Included
<1> QED
  BY <1>1, <1>2 DEF Dashboard, Selected

LEMMA ShownIs ==
  ASSUME NEW r \in ReportRequests, today \in Nat, NEW d \in Recent(0..today)
  PROVE  Activity(r)[d] = (IF Cloud \in Selected(r) THEN DayTokens(Summary(Cloud), d) ELSE 0)
                          + (IF Device \in Selected(r) THEN DayTokens(Summary(Device), d) ELSE 0)
<1>1. d \in today - Lookback + 1..today
  BY DEF Recent, Lookback
<1>2. Activity(r)[d] = TotalOf(Selected(r), d)
  BY <1>1 DEF Activity
<1>3. \A a \in Selected(r) : Dashboard[a] = Summary(a)
  BY SelectedAre
<1>4. TotalOf(Selected(r), d) = SumOver(Selected(r), [a \in Selected(r) |-> DayTokens(Dashboard[a], d)])
  BY DEF TotalOf
<1>5. SumOver(Selected(r), [a \in Selected(r) |-> DayTokens(Dashboard[a], d)])
        = (IF Cloud \in Selected(r) THEN DayTokens(Dashboard[Cloud], d) ELSE 0)
          + (IF Device \in Selected(r) THEN DayTokens(Dashboard[Device], d) ELSE 0)
  BY DEF SumOver
<1>6. (Cloud \in Selected(r) => Dashboard[Cloud] = Summary(Cloud)) /\ (Device \in Selected(r) => Dashboard[Device] = Summary(Device))
  BY <1>3
<1> QED
  BY <1>2, <1>4, <1>5, <1>6

LEMMA UsedIs ==
  ASSUME NEW r \in ReportRequests, NEW d
  PROVE  SumOver(Included(r), [a \in ReportAccounts |-> SpentIn(a, d)])
           = (IF Cloud \in Included(r) THEN SpentIn(Cloud, d) ELSE 0) + (IF Device \in Included(r) THEN SpentIn(Device, d) ELSE 0)
BY DEF SumOver, ReportAccounts

LEMMA NothingCountsTwice == DashboardInv => NoneCountedTwice
<1> SUFFICES ASSUME DashboardInv, NEW r \in ReportRequests, Sound(r), NEW d \in Recent(0..today)
             PROVE  Activity(r)[d] <= SumOver(Included(r), [a \in ReportAccounts |-> SpentIn(a, d)])
  BY DEF NoneCountedTwice
<1>1. today \in Nat /\ d \in ReportDays
  BY RecentAre, ReportAssumption DEF DashboardInv, ReportDays
<1>2. \A a \in Included(r) : ~Misdated(a) /\ a \in ReportAccounts
  BY DEF Sound, Included
<1>3. Selected(r) = {a \in Included(r) : Collected(a)}
  BY SelectedAre
<1>4. \A a \in Selected(r) : DayTokens(Summary(a), d) \in Nat /\ DayTokens(Summary(a), d) <= SpentIn(a, d)
  BY <1>2, <1>3, TokensAreUsed
<1>5. \A a \in Included(r) : SpentIn(a, d) \in Nat
  BY <1>1, <1>2, DaysAreUsed
<1> DEFINE Part(a) == IF a \in Selected(r) THEN DayTokens(Summary(a), d) ELSE 0
           Whole(a) == IF a \in Included(r) THEN SpentIn(a, d) ELSE 0
<1>6. \A a : Part(a) \in Nat /\ Whole(a) \in Nat /\ Part(a) <= Whole(a)
  BY <1>3, <1>4, <1>5
<1>7. Activity(r)[d] = Part(Cloud) + Part(Device)
  BY <1>1, ShownIs
<1>8. SumOver(Included(r), [a \in ReportAccounts |-> SpentIn(a, d)]) = Whole(Cloud) + Whole(Device)
  BY UsedIs
<1> HIDE DEF Part, Whole
<1> QED
  BY <1>6, <1>7, <1>8

LEMMA AllIsShown == DashboardInv => WholeIsShown
<1> SUFFICES ASSUME DashboardInv, NEW r \in ReportRequests, Sound(r), NEW d \in Recent(0..today), \A a \in Included(r) : AllTold(a)
             PROVE  Activity(r)[d] = SumOver(Included(r), [a \in ReportAccounts |-> SpentIn(a, d)])
  BY DEF WholeIsShown
<1>1. today \in Nat
  BY ReportAssumption DEF DashboardInv, ReportDays
<1>2. \A a \in Included(r) : Collected(a) /\ DayTokens(Summary(a), d) = SpentIn(a, d)
  BY TokensAreTold DEF Included
<1>3. Selected(r) = Included(r)
  BY <1>2, SelectedAre
<1> QED
  BY <1>1, <1>2, <1>3, ShownIs, UsedIs

LEMMA StaleAreMarked == DashboardInv => StaleIsMarked
<1> SUFFICES ASSUME DashboardInv, NEW r \in ReportRequests, NEW p \in ReportProviders, Accepted(r), p \in SelectedProviders(r)
             PROVE  /\ (~Stale(r, p) /\ Snapshots(r, p) # {}) => \A a \in KnownAccounts(r, p) : taken[a].at = today
                    /\ r.providers = {p} /\ (\A a \in Selected(r) : Dashboard[a].activity # <<>>) => TodayTokens(r, p) = Activity(r)[today]
  BY DEF StaleIsMarked
<1>0. today \in Nat /\ today \in Recent(0..today)
  BY ReportAssumption DEF DashboardInv, ReportDays, Recent, Lookback
<1>1. ASSUME ~Stale(r, p), Snapshots(r, p) # {}, NEW a \in KnownAccounts(r, p) PROVE taken[a].at = today
  <2>1. a \in Snapshots(r, p) /\ ~(taken[a].at < today) /\ a \in ReportAccounts
    BY <1>1 DEF Stale, KnownAccounts
  <2>2. taken[a].at \in Int /\ taken[a].at <= today
    <3>1. taken[a] \in DaySnapshot /\ taken[a].at <= today
      BY <2>1 DEF DashboardInv
    <3>2. ReportDays \subseteq Int
      BY ReportAssumption DEF ReportDays
    <3>a. taken[a].at \in ReportDays \union {-1}
      BY <3>1 DEF DaySnapshot
    <3>b. -1 \in Int
      OBVIOUS
    <3>3. taken[a].at \in Int
      BY <3>2, <3>a, <3>b
    <3> QED
      BY <3>1, <3>3
  <2> QED
    BY <1>0, <2>1, <2>2
<1>2. ASSUME r.providers = {p}, \A a \in Selected(r) : Dashboard[a].activity # <<>> PROVE TodayTokens(r, p) = Activity(r)[today]
  <2>1. \A a \in Selected(r) : ProviderOf(a) = p
    BY <1>2 DEF Selected, Includes, SelectedProviders
  <2>2. {a \in Selected(r) : ProviderOf(a) = p} = Selected(r)
    BY <2>1
  <2>3. \A a \in Selected(r) : Dashboard[a] = Summary(a)
    BY SelectedAre
  <2>4. \A a \in Selected(r) : DayTokens(Summary(a), today) = OfDay(Dashboard[a].activity, today)
    BY <1>2, <2>3 DEF DayTokens
  <2>5. TodayTokens(r, p) = SumOver(Selected(r), [a \in Selected(r) |-> OfDay(Dashboard[a].activity, today)])
    BY <2>2 DEF TodayTokens
  <2>6. SumOver(Selected(r), [a \in Selected(r) |-> OfDay(Dashboard[a].activity, today)])
          = (IF Cloud \in Selected(r) THEN OfDay(Dashboard[Cloud].activity, today) ELSE 0)
            + (IF Device \in Selected(r) THEN OfDay(Dashboard[Device].activity, today) ELSE 0)
    BY DEF SumOver
  <2>7. /\ Cloud \in Selected(r) => DayTokens(Summary(Cloud), today) = OfDay(Dashboard[Cloud].activity, today)
        /\ Device \in Selected(r) => DayTokens(Summary(Device), today) = OfDay(Dashboard[Device].activity, today)
    BY <2>4
  <2>8. Activity(r)[today] = (IF Cloud \in Selected(r) THEN DayTokens(Summary(Cloud), today) ELSE 0)
                             + (IF Device \in Selected(r) THEN DayTokens(Summary(Device), today) ELSE 0)
    BY <1>0, ShownIs
  <2> QED
    BY <2>5, <2>6, <2>7, <2>8
<1> QED
  BY <1>1, <1>2

-----------------------------------------------------------------------------
(* The parts whose reports are proved, as MCParts runs them.               *)
ProvedReports == {"datasets", "codex_limits", "cursor_usage", "report"}
ReportInv == DatasetInv /\ CodexInv /\ CursorInv /\ DashboardInv

LEMMA ReportersRest ==
  ASSUME [PartsNext]_allPartsVars
  PROVE  /\ [DatasetsNext]_datasetVars /\ [CodexLimitsNext]_codexLimitVars
         /\ [CursorUsageNext]_cursorUsageVars /\ [ReportNext]_reportVars
<1>1. CASE UNCHANGED allPartsVars
  BY <1>1, SMTT(60) DEF allPartsVars
<1>2. CASE PartsNext
  BY <1>2 DEF PartsNext, OthersRest
<1> QED
  BY <1>1, <1>2

(* What is reported of an account is what its sources said, for any number *)
(* of readings and of features: sources that overlap stay apart, whatever  *)
(* the order in which they are read, stored and overlaid (merge_datasets,  *)
(* apply_local_usage_overlays); either source of Codex shows a limit under *)
(* one id (rate_limits.rs); no budget of a team is taken for the account's *)
(* (normalize_cursor_fetch); and the dashboard counts no token twice and   *)
(* none of an account that is hidden or not selected, shows all that was   *)
(* told, and marks what is stale (dashboard.rs, views.rs).                 *)
THEOREM ReportsAreTrue == PartsSpec => [](part \in ProvedReports => ReportsTrue)
<1>1. PartsInit => ReportInv
  BY DatasetsStart, CodexStarts, CursorStarts, DashboardStart DEF PartsInit, ReportInv
<1>2. ReportInv /\ [PartsNext]_allPartsVars => ReportInv'
  BY ReportersRest, DatasetsKept, CodexKept, CursorKept, DashboardKept DEF ReportInv
<1>3. ReportInv => (part \in ProvedReports => ReportsTrue)
  <2>1. ReportInv => SourcesTold /\ CodexLimitsTrue /\ TeamKeptApart /\ ReportedOnce
    BY SourcesAreTold, LimitsStayTold, ExpiryIsFirst, TeamStaysApart, NothingCountsTwice, AllIsShown, StaleAreMarked
    DEF ReportInv, CodexLimitsTrue, ReportedOnce
  <2> QED
    BY <2>1 DEF ProvedReports, ReportsTrue
<1> QED
  BY <1>1, <1>2, <1>3, PTL DEF PartsSpec
=============================================================================
