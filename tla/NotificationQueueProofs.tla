----------------------- MODULE NotificationQueueProofs ----------------------
(***************************************************************************)
(* Proofs about NotificationQueue: the types, that an acknowledgement      *)
(* removes what was shown only, and that no alert is forgotten, for any    *)
(* number of deliveries, alerts and rows.                                  *)
(***************************************************************************)
EXTENDS NotificationQueue, FiniteSetTheorems, TLAPS

(* Ids are handed out once, so that a row is known by its id alone.        *)
Numbered(rows, n) ==
  /\ rows \subseteq Row
  /\ \A row \in rows : row.id = row.alert /\ row.id <= n

LEMMA CountRows ==
  ASSUME NEW n \in Nat, NEW rows, Numbered(rows, n),
         NEW a \in Nat, \A row \in rows : a < row.id
  PROVE  /\ IsFiniteSet(rows)
         /\ Cardinality(rows) \in Nat
         /\ rows # {} => Cardinality(rows) <= n - a
<1> DEFINE f == [row \in rows |-> row.id]
           T == (a + 1) .. n
<1>1. ASSUME NEW row \in rows PROVE row \in Row /\ row.id \in T
  BY <1>1, QueueAssumption DEF Numbered, Row
<1>2. \A one, other \in rows : one.id = other.id => one = other
  BY DEF Numbered, Row
<1>3. f \in Injection(rows, T)
  BY <1>1, <1>2 DEF Injection, IsInjective
<1>4. /\ IsFiniteSet(T)
      /\ Cardinality(T) = IF a + 1 > n THEN 0 ELSE n - (a + 1) + 1
  <2> HIDE DEF T
  <2>1. a + 1 \in Int /\ n \in Int
    OBVIOUS
  <2> QED BY <2>1, FS_Interval DEF T
<1>5. IsFiniteSet(rows) /\ Cardinality(rows) <= Cardinality(T)
  <2> HIDE DEF f, T
  <2> QED BY <1>3, <1>4, FS_Injection
<1>6. Cardinality(rows) \in Nat
  BY <1>5, FS_CardinalityType
<1>7. rows # {} => a + 1 <= n
  BY <1>1
<1> QED BY <1>4, <1>5, <1>6, <1>7

(* Oldest(rows, m) has at most m rows (LIMIT).                             *)
LEMMA OldestBounded ==
  ASSUME NEW n \in Nat, NEW rows, Numbered(rows, n), NEW m \in Nat
  PROVE  Cardinality(Oldest(rows, m)) <= m
<1> DEFINE S == Oldest(rows, m)
           older(row) == {other \in rows : other.id < row.id}
           g == [row \in S |-> Cardinality(older(row))]
<1>1. IsFiniteSet(rows)
  <2>1. \A row \in rows : 0 < row.id
    BY QueueAssumption DEF Numbered, Row
  <2> QED BY <2>1, CountRows
<1>2. ASSUME NEW row \in rows
      PROVE  IsFiniteSet(older(row)) /\ Cardinality(older(row)) \in Nat
  <2>1. older(row) \in SUBSET rows
    OBVIOUS
  <2> QED BY <1>1, <2>1, FS_Subset, FS_CardinalityType
<1>3. ASSUME NEW row \in S PROVE row \in rows /\ g[row] \in 0 .. (m - 1)
  BY <1>2 DEF Oldest
<1>4. ASSUME NEW one \in rows, NEW two \in rows, one.id < two.id
      PROVE  Cardinality(older(one)) < Cardinality(older(two))
  <2>1. one.id \in Int /\ two.id \in Int /\ \A other \in rows : other.id \in Int
    BY QueueAssumption DEF Numbered, Row
  <2>2. one \notin older(one) /\ older(one) \union {one} \in SUBSET older(two)
    BY <1>4, <2>1
  <2>3. Cardinality(older(one) \union {one}) = Cardinality(older(one)) + 1
    BY <1>2, <2>2, FS_AddElement
  <2>4. Cardinality(older(one) \union {one}) <= Cardinality(older(two))
    BY <1>2, <2>2, FS_Subset
  <2> HIDE DEF older
  <2> QED BY <1>2, <2>3, <2>4
<1>5. ASSUME NEW one \in S, NEW two \in S, g[one] = g[two] PROVE one = two
  <2>1. one \in rows /\ two \in rows /\ one.id \in Int /\ two.id \in Int
    <3>1. one \in rows /\ two \in rows
      BY DEF Oldest
    <3> QED BY <3>1, QueueAssumption DEF Numbered, Row
  <2>2. Cardinality(older(one)) = Cardinality(older(two))
    BY <1>5
  <2>3. ~(one.id < two.id) /\ ~(two.id < one.id)
    <3> HIDE DEF older
    <3> QED BY <1>2, <1>4, <2>1, <2>2
  <2>4. one.id = two.id
    BY <2>1, <2>3
  <2> QED BY <2>1, <2>4 DEF Numbered, Row
<1>6. g \in Injection(S, 0 .. (m - 1))
  <2>1. g \in [S -> 0 .. (m - 1)]
    <3> HIDE DEF older
    <3> QED BY <1>3
  <2> HIDE DEF g
  <2> QED BY <1>5, <2>1 DEF Injection, IsInjective
<1>7. IsFiniteSet(0 .. (m - 1)) /\ Cardinality(0 .. (m - 1)) <= m
  <2>1. 0 \in Int /\ m - 1 \in Int
    OBVIOUS
  <2>2. /\ IsFiniteSet(0 .. (m - 1))
        /\ Cardinality(0 .. (m - 1)) = IF 0 > m - 1 THEN 0 ELSE (m - 1) - 0 + 1
    BY <2>1, FS_Interval
  <2> QED BY <2>2
<1>8. IsFiniteSet(S) /\ Cardinality(S) <= Cardinality(0 .. (m - 1))
  <2> HIDE DEF g, S
  <2> QED BY <1>6, <1>7, FS_Injection
<1>9. Cardinality(S) \in Nat /\ Cardinality(0 .. (m - 1)) \in Nat
  BY <1>7, <1>8, FS_CardinalityType
<1> HIDE DEF S
<1>10. Cardinality(S) <= m
  BY <1>7, <1>8, <1>9
<1> QED BY <1>10 DEF S

(* The trim drops a row only if as many newer rows as the table may hold   *)
(* are in it (the DELETE of enqueue_notification).                         *)
LEMMA TrimDropsOvertaken ==
  ASSUME NEW n \in Nat, NEW rows, Numbered(rows, n), NEW excess, excess \in Int,
         excess = Max({Cardinality(rows) - Capacity, 0}),
         NEW row \in Oldest(rows, excess)
  PROVE  row.id + Capacity <= n
<1> DEFINE older == {other \in rows : other.id < row.id}
           newer == {other \in rows : row.id < other.id}
<1>1. /\ row \in rows /\ row.id \in Nat /\ row.id <= n
      /\ \A other \in rows : other.id \in Nat /\ 0 < other.id
  BY QueueAssumption DEF Numbered, Row, Oldest
<1>2. IsFiniteSet(rows) /\ Cardinality(rows) \in Nat
  BY <1>1, CountRows
<1>3. Cardinality(older) < excess
  BY DEF Oldest
<1>4. /\ IsFiniteSet(older) /\ Cardinality(older) \in Nat
      /\ IsFiniteSet(newer) /\ Cardinality(newer) \in Nat
  <2>1. older \in SUBSET rows /\ newer \in SUBSET rows
    OBVIOUS
  <2> HIDE DEF older, newer
  <2> QED BY <1>2, <2>1, FS_Subset, FS_CardinalityType
<1>5. Cardinality(rows) <= Cardinality(older) + Cardinality(newer) + 1
  <2>1. rows = (older \union newer) \union {row}
    <3>1. ASSUME NEW other \in rows, other.id = row.id PROVE other = row
      BY <1>1, <3>1 DEF Numbered, Row
    <3> QED BY <1>1, <3>1
  <2>2. older \intersect newer = {}
    BY <1>1
  <2>3. row \notin older \union newer
    BY <1>1
  <2> HIDE DEF older, newer
  <2>4. /\ IsFiniteSet(older \union newer)
        /\ Cardinality(older \union newer) = Cardinality(older) + Cardinality(newer) - Cardinality({})
    BY <1>4, <2>2, FS_Union
  <2>5. Cardinality(rows) = Cardinality(older \union newer) + 1
    BY <2>1, <2>3, <2>4, FS_AddElement
  <2> QED BY <1>4, <2>4, <2>5, FS_EmptySet
<1>6. newer # {} => Cardinality(newer) <= n - row.id
  <2>1. Numbered(newer, n) /\ \A other \in newer : row.id < other.id
    BY DEF Numbered
  <2> HIDE DEF newer
  <2> QED BY <1>1, <2>1, CountRows
<1>7. excess \in {Cardinality(rows) - Capacity, 0}
  <2> DEFINE a == Cardinality(rows) - Capacity
  <2>1. a \in Int
    BY <1>2, QueueAssumption
  <2> HIDE DEF a
  <2>2. \E x \in {a, 0} : \A y \in {a, 0} : x >= y
    BY <2>1
  <2>3. Max({a, 0}) \in {a, 0}
    BY <2>2 DEF Max
  <2> QED BY <2>3 DEF a
<1>8. Capacity \in Nat \ {0}
  BY QueueAssumption
<1>9. Capacity <= Cardinality(newer)
  <2> HIDE DEF older, newer
  <2> QED BY <1>2, <1>3, <1>4, <1>5, <1>7, <1>8
<1>10. newer # {}
  <2> HIDE DEF newer
  <2>1. Cardinality(newer) # 0
    BY <1>4, <1>8, <1>9
  <2> QED BY <2>1, FS_EmptySet
<1> HIDE DEF newer
<1> QED BY <1>1, <1>4, <1>6, <1>8, <1>9, <1>10
-----------------------------------------------------------------------------
(* The inductive invariant.  What a call holds is still what it was in the *)
(* table, and what it is going to acknowledge it has shown.                *)
IInv ==
  /\ TypeOK
  /\ lastId = alerts
  /\ Numbered(queue, alerts)
  /\ \A d \in Deliveries : Numbered(page[d], alerts) /\ delivered[d] \subseteq shown
  /\ NothingForgotten

(* What the invariant says about the table and what is known of alerts.    *)
TableInv ==
  /\ queue \subseteq Row
  /\ lastId \in 0 .. MaxAlerts /\ alerts \in 0 .. MaxAlerts
  /\ shown \subseteq 1 .. MaxAlerts /\ cleared \subseteq 1 .. MaxAlerts
  /\ lastId = alerts
  /\ Numbered(queue, alerts)
  /\ NothingForgotten

(* What it says about the daemon's and the app's switches.                 *)
SwitchInv ==
  /\ configured \in BOOLEAN /\ on \in BOOLEAN /\ appOn \in BOOLEAN /\ authorized \in BOOLEAN
  /\ change \in {"none", "clearing", "setting"}
  /\ evaluating \in BOOLEAN /\ trimming \in BOOLEAN

(* What it says about the calls of deliverPendingNotifications.            *)
CallInv ==
  /\ phase \in [Deliveries -> {"idle", "showing"}]
  /\ page \in [Deliveries -> SUBSET Row]
  /\ delivered \in [Deliveries -> SUBSET (1 .. MaxAlerts)]
  /\ \A d \in Deliveries :
       /\ Cardinality(page[d]) <= Page
       /\ phase[d] = "idle" => page[d] = {} /\ delivered[d] = {}
       /\ Numbered(page[d], alerts)
       /\ delivered[d] \subseteq shown

LEMMA InvParts == IInv <=> SwitchInv /\ TableInv /\ CallInv
BY DEF IInv, TypeOK, SwitchInv, TableInv, CallInv

LEMMA InitHolds == Init => IInv
<1> SUFFICES ASSUME Init PROVE IInv
  OBVIOUS
<1>1. \A rows : rows = {} => Numbered(rows, alerts)
  BY DEF Numbered
<1>2. SwitchInv
  BY DEF Init, SwitchInv
<1>3. TableInv
  BY <1>1, QueueAssumption DEF Init, TableInv, NothingForgotten
<1>4. CallInv
  <2>1. Cardinality({}) <= Page
    BY QueueAssumption, FS_EmptySet
  <2>2. \A d \in Deliveries : phase[d] = "idle" /\ page[d] = {} /\ delivered[d] = {}
    BY DEF Init
  <2>3. /\ phase \in [Deliveries -> {"idle", "showing"}]
        /\ page \in [Deliveries -> SUBSET Row]
        /\ delivered \in [Deliveries -> SUBSET (1 .. MaxAlerts)]
    BY DEF Init
  <2>4. \A d \in Deliveries : Cardinality(page[d]) <= Page /\ Numbered(page[d], alerts)
    BY <1>1, <2>1, <2>2
  <2> QED BY <2>2, <2>3, <2>4 DEF CallInv
<1> QED BY <1>2, <1>3, <1>4, InvParts

(* The insert: a new row has a new id, rows already read keep theirs.      *)
LEMMA InsertKeeps ==
  ASSUME TableInv, CallInv, InsertAlert
  PROVE  TableInv' /\ CallInv'
<1> DEFINE new == [id |-> NextId, alert |-> alerts']
<1>1. /\ alerts \in Nat /\ alerts' = alerts + 1 /\ lastId' = alerts'
      /\ alerts' \in 0 .. MaxAlerts
  BY QueueAssumption DEF InsertAlert, NextId, TableInv
<1>2. new \in Row /\ new.id = new.alert /\ new.id <= alerts' /\ new.alert = alerts'
  BY <1>1, QueueAssumption DEF Row, NextId, TableInv, InsertAlert
<1>3. ASSUME NEW rows, Numbered(rows, alerts) PROVE Numbered(rows, alerts')
  BY <1>1, <1>3, QueueAssumption DEF Numbered, Row
<1>4. queue' = queue \union {new}
  BY DEF InsertAlert
<1> HIDE DEF new
<1>5. Numbered(queue', alerts')
  BY <1>2, <1>3, <1>4 DEF TableInv, Numbered
<1>6. NothingForgotten'
  <2> SUFFICES ASSUME NEW a \in 1 .. alerts'
               PROVE  \/ a \in shown \union cleared \union Alerted(queue')
                      \/ a + Capacity <= alerts'
    BY DEF NothingForgotten, InsertAlert
  <2>1. CASE a = alerts'
    BY <1>2, <1>4, <2>1 DEF Alerted
  <2>2. CASE a \in 1 .. alerts
    <3>1. \/ a \in shown \union cleared \union Alerted(queue)
          \/ a + Capacity <= alerts
      BY <2>2 DEF TableInv, NothingForgotten
    <3>2. Alerted(queue) \subseteq Alerted(queue')
      BY <1>4 DEF Alerted
    <3> QED BY <1>1, <3>1, <3>2, QueueAssumption
  <2> QED BY <1>1, <2>1, <2>2
<1>7. TableInv'
  BY <1>1, <1>5, <1>6 DEF TableInv, InsertAlert, Numbered
<1>8. CallInv'
  BY <1>3 DEF CallInv, InsertAlert, callVars
<1> QED BY <1>7, <1>8

LEMMA TrimKeeps ==
  ASSUME TableInv, TrimQueue
  PROVE  TableInv'
<1> DEFINE excess == Max({Cardinality(queue) - Capacity, 0})
<1>1. CASE queue' = queue
  BY <1>1 DEF TrimQueue, TableInv, Numbered, NothingForgotten
<1>2. CASE queue' = Kept
  <2>1. queue' \subseteq queue /\ \A row \in queue : row \in queue' \/ row \in Oldest(queue, excess)
    BY <1>2 DEF Kept
  <2>2. alerts \in Nat /\ Numbered(queue, alerts)
    BY QueueAssumption DEF TableInv
  <2>3. excess \in Int
    <3> DEFINE a == Cardinality(queue) - Capacity
    <3>1. \A row \in queue : 0 < row.id
      BY QueueAssumption DEF TableInv, Row
    <3>2. Cardinality(queue) \in Nat
      BY <2>2, <3>1, CountRows
    <3>3. a \in Int
      BY <3>2, QueueAssumption
    <3> HIDE DEF a
    <3>4. \E x \in {a, 0} : \A y \in {a, 0} : x >= y
      BY <3>3
    <3>5. Max({a, 0}) \in Int
      BY <3>3, <3>4 DEF Max
    <3> QED BY <3>5 DEF a
  <2>4. \A row \in Oldest(queue, excess) : row.id + Capacity <= alerts
    BY <2>2, <2>3, TrimDropsOvertaken
  <2> HIDE DEF excess
  <2>5. ASSUME NEW a \in 1 .. alerts, a \in Alerted(queue)
        PROVE  a \in Alerted(queue') \/ a + Capacity <= alerts
    BY <2>1, <2>2, <2>4, <2>5 DEF Alerted, Numbered
  <2>6. Numbered(queue', alerts)
    BY <2>1, <2>2 DEF Numbered
  <2>7. NothingForgotten'
    BY <2>5 DEF TrimQueue, TableInv, NothingForgotten
  <2> QED BY <2>1, <2>6, <2>7 DEF TrimQueue, TableInv
<1> QED BY <1>1, <1>2 DEF TrimQueue

LEMMA ClearKeeps ==
  ASSUME TableInv, ClearPending
  PROVE  TableInv'
<1>1. queue' = {} /\ cleared' = cleared \union Alerted(queue) /\ UNCHANGED <<shown, alerts, lastId>>
  BY DEF ClearPending
<1>2. Alerted(queue) \subseteq 1 .. MaxAlerts
  BY DEF TableInv, Alerted, Row
<1>3. NothingForgotten'
  BY <1>1 DEF TableInv, NothingForgotten
<1>4. Numbered(queue', alerts')
  BY <1>1 DEF Numbered
<1> QED BY <1>1, <1>2, <1>3, <1>4 DEF TableInv

(* A call ends with nothing left to show or to acknowledge.                *)
LEMMA EndKeeps ==
  ASSUME CallInv, NEW d \in Deliveries, EndCall(d), UNCHANGED <<alerts, shown>>
  PROVE  CallInv'
<1>1. \A e \in Deliveries :
        /\ phase'[e] = IF e = d THEN "idle" ELSE phase[e]
        /\ page'[e] = IF e = d THEN {} ELSE page[e]
        /\ delivered'[e] = IF e = d THEN {} ELSE delivered[e]
  BY DEF EndCall, CallInv
<1>2. Cardinality({}) <= Page /\ Numbered({}, alerts)
  BY QueueAssumption, FS_EmptySet DEF Numbered
<1>3. /\ phase' \in [Deliveries -> {"idle", "showing"}]
      /\ page' \in [Deliveries -> SUBSET Row]
      /\ delivered' \in [Deliveries -> SUBSET (1 .. MaxAlerts)]
  BY DEF EndCall, CallInv
<1> QED BY <1>1, <1>2, <1>3 DEF CallInv, Numbered

(* A page is read: the oldest rows, which are numbered like the table.     *)
LEMMA ListKeeps ==
  ASSUME TableInv, CallInv, NEW d \in Deliveries, ListPending(d)
  PROVE  CallInv'
<1>1. /\ Listed \subseteq queue /\ Numbered(Listed, alerts)
  BY DEF Listed, Oldest, TableInv, Numbered
<1>2. Cardinality(Listed) <= Page
  BY OldestBounded, QueueAssumption DEF Listed, TableInv
<1>3. \A e \in Deliveries :
        /\ phase'[e] = IF e = d THEN "showing" ELSE phase[e]
        /\ page'[e] = IF e = d THEN Listed ELSE page[e]
  BY DEF ListPending, CallInv
<1>4. /\ phase' \in [Deliveries -> {"idle", "showing"}]
      /\ page' \in [Deliveries -> SUBSET Row]
  BY <1>1 DEF ListPending, CallInv, TableInv
<1>5. UNCHANGED <<delivered, shown, alerts>>
  BY DEF ListPending, tableVars
<1> QED BY <1>1, <1>2, <1>3, <1>4, <1>5 DEF CallInv, Numbered

(* An alert is handed to the notification center, which may reject it.     *)
LEMMA ShowKeeps ==
  ASSUME TableInv, CallInv, NEW d \in Deliveries, NEW row \in page[d],
         Show(d, row) \/ FailToShow(d, row)
  PROVE  TableInv' /\ CallInv'
<1>1. /\ row \in Row /\ row.id = row.alert /\ row.alert \in 1 .. MaxAlerts
  BY DEF CallInv, Numbered, Row
<1>2. /\ phase[d] = "showing"
      /\ page' = [page EXCEPT ![d] = @ \ {row}]
      /\ UNCHANGED <<phase, queue, lastId, alerts, cleared>>
  BY DEF Show, FailToShow, Upcoming, tableVars
<1>3. \A e \in Deliveries : page'[e] = IF e = d THEN page[d] \ {row} ELSE page[e]
  BY <1>2 DEF CallInv
<1>4. shown \subseteq shown' /\ shown' \subseteq shown \union {row.alert}
  BY DEF Show, FailToShow
<1>5. /\ delivered' \in [Deliveries -> SUBSET (1 .. MaxAlerts)]
      /\ \A e \in Deliveries : delivered'[e] \subseteq delivered[e] \union (shown' \intersect {row.id})
      /\ \A e \in Deliveries : phase[e] = "idle" => delivered'[e] = delivered[e]
  BY <1>1, <1>2 DEF Show, FailToShow, CallInv
<1>6. Cardinality(page[d] \ {row}) <= Page
  <2>1. alerts \in Nat /\ Numbered(page[d], alerts) /\ \A other \in page[d] : 0 < other.id
    BY QueueAssumption DEF CallInv, TableInv, Row
  <2>2. IsFiniteSet(page[d]) /\ Cardinality(page[d]) \in Nat /\ Cardinality(page[d]) <= Page
    BY <2>1, CountRows DEF CallInv
  <2>3. Cardinality(page[d] \ {row}) = Cardinality(page[d]) - 1
    BY <2>2, FS_RemoveElement
  <2> QED BY <2>2, <2>3, QueueAssumption
<1>7. TableInv'
  BY <1>1, <1>2, <1>4 DEF TableInv, NothingForgotten, Numbered
<1>8. page' \in [Deliveries -> SUBSET Row]
  BY <1>2 DEF CallInv
<1>9. \A e \in Deliveries : delivered'[e] \subseteq shown'
  BY <1>4, <1>5 DEF CallInv
<1>10. \A e \in Deliveries :
         /\ Cardinality(page'[e]) <= Page
         /\ Numbered(page'[e], alerts)
         /\ phase[e] = "idle" => page'[e] = {} /\ delivered'[e] = {}
  BY <1>2, <1>3, <1>5, <1>6 DEF CallInv, Numbered
<1> QED BY <1>2, <1>5, <1>7, <1>8, <1>9, <1>10 DEF CallInv

(* An acknowledged row was shown, so that it may go.                       *)
LEMMA AcknowledgeKeeps ==
  ASSUME TableInv, CallInv, NEW d \in Deliveries, Acknowledge(d)
  PROVE  /\ TableInv'
         /\ Alerted(queue \ queue') \subseteq shown
<1>1. /\ queue' = {row \in queue : row.id \notin delivered[d]}
      /\ UNCHANGED <<shown, cleared, alerts, lastId>>
  BY DEF Acknowledge
<1>2. ASSUME NEW row \in queue \ queue' PROVE row.alert \in shown
  BY <1>1 DEF CallInv, TableInv, Numbered
<1>3. Alerted(queue \ queue') \subseteq shown
  BY <1>2 DEF Alerted
<1>4. Alerted(queue) \subseteq Alerted(queue') \union shown
  BY <1>2 DEF Alerted
<1>5. NothingForgotten'
  BY <1>1, <1>4 DEF TableInv, NothingForgotten
<1> QED BY <1>1, <1>3, <1>5 DEF TableInv, Numbered
-----------------------------------------------------------------------------
LEMMA NextKeeps == IInv /\ [Next]_vars => IInv'
<1> SUFFICES ASSUME SwitchInv, TableInv, CallInv, [Next]_vars
             PROVE  SwitchInv' /\ TableInv' /\ CallInv'
  BY DEF IInv, TypeOK, SwitchInv, TableInv, CallInv
<1>1. SwitchInv'
  <2> USE DEF SwitchInv
  <2>1. CASE EvaluationStep
    BY <2>1 DEF EvaluationStep, BeginEvaluation, EndEvaluation, InsertAlert, TrimQueue, appVars
  <2>2. CASE SwitchStep
    BY <2>2 DEF SwitchStep, SwitchConfig, ClearPending, SetConfig, RollBack, appVars
  <2>3. CASE DaemonCrash \/ AppStep
    BY <2>3 DEF DaemonCrash, AppStep, Load, Authorize, daemonVars, appVars
  <2>4. CASE \E d \in Deliveries : DeliveryStep(d)
    BY <2>4 DEF DeliveryStep, ListPending, Show, FailToShow, Acknowledge, LoseCall, daemonVars, appVars
  <2>5. CASE UNCHANGED vars
    BY <2>5 DEF vars, daemonVars, appVars
  <2> QED BY <2>1, <2>2, <2>3, <2>4, <2>5 DEF Next
<1>2. ASSUME UNCHANGED <<tableVars, shown, cleared>> PROVE TableInv'
  BY <1>2 DEF TableInv, tableVars, Numbered, NothingForgotten
<1>3. ASSUME UNCHANGED <<callVars, alerts, shown>> PROVE CallInv'
  BY <1>3 DEF CallInv, callVars, Numbered
<1>4. CASE EvaluationStep
  <2>1. CASE InsertAlert
    BY <1>1, <2>1, InsertKeeps
  <2>2. CASE TrimQueue
    BY <1>1, <1>3, <2>2, TrimKeeps DEF TrimQueue
  <2>3. CASE BeginEvaluation \/ EndEvaluation
    BY <1>1, <1>2, <1>3, <2>3 DEF BeginEvaluation, EndEvaluation, tableVars
  <2> QED BY <1>4, <2>1, <2>2, <2>3 DEF EvaluationStep
<1>5. CASE SwitchStep
  <2>1. CASE ClearPending
    BY <1>1, <1>3, <2>1, ClearKeeps DEF ClearPending
  <2>2. CASE SwitchConfig \/ SetConfig \/ RollBack
    BY <1>1, <1>2, <1>3, <2>2 DEF SwitchConfig, SetConfig, RollBack, tableVars
  <2> QED BY <1>5, <2>1, <2>2 DEF SwitchStep
<1>6. CASE DaemonCrash \/ AppStep \/ UNCHANGED vars
  BY <1>1, <1>2, <1>3, <1>6 DEF DaemonCrash, AppStep, Load, Authorize, vars, tableVars
<1>7. ASSUME NEW d \in Deliveries, DeliveryStep(d) PROVE TableInv' /\ CallInv'
  <2>1. CASE ListPending(d)
    BY <1>2, <2>1, ListKeeps DEF ListPending
  <2>2. CASE \E row \in page[d] : Show(d, row) \/ FailToShow(d, row)
    BY <2>2, ShowKeeps
  <2>3. CASE Acknowledge(d)
    BY <2>3, AcknowledgeKeeps, EndKeeps DEF Acknowledge
  <2>4. CASE LoseCall(d)
    BY <1>2, <2>4, EndKeeps DEF LoseCall, tableVars
  <2> QED BY <1>7, <2>1, <2>2, <2>3, <2>4 DEF DeliveryStep
<1> QED BY <1>1, <1>4, <1>5, <1>6, <1>7 DEF Next

THEOREM QueueInvariant == Spec => []IInv
BY InitHolds, NextKeeps, PTL DEF Spec

(* Type correctness, for any number of deliveries, alerts and rows.        *)
THEOREM TypeCorrect == Spec => []TypeOK
<1>1. IInv => TypeOK
  BY DEF IInv
<1> QED BY <1>1, QueueInvariant, PTL

(* No queued alert is forgotten: it was shown, waits, was cleared with the *)
(* queue, or was overtaken by as many as the queue holds, wherever calls   *)
(* fail, requests are lost and the daemon or the app crash.                *)
THEOREM NoneForgotten == Spec => []NothingForgotten
<1>1. IInv => NothingForgotten
  BY DEF IInv
<1> QED BY <1>1, QueueInvariant, PTL

(* Acknowledgements take away what was shown only, although calls overlap  *)
(* and ids are used long after they were read.                             *)
THEOREM OnlyShownAcknowledged == Spec => AcknowledgedWasShown
<1> DEFINE Ends(d) == phase[d] = "showing" /\ phase'[d] = "idle"
           Removed == Alerted(queue \ queue') \subseteq shown
<1>1. ASSUME IInv, Next, NEW d \in Deliveries, Ends(d) PROVE Removed
  <2>1. SwitchInv /\ TableInv /\ CallInv
    BY <1>1, InvParts
  <2>2. Acknowledge(d) \/ LoseCall(d)
    <3>1. ~UNCHANGED phase
      BY <1>1
    <3>2. PICK e \in Deliveries : DeliveryStep(e)
      BY <1>1, <3>1 DEF Next, EvaluationStep, BeginEvaluation, EndEvaluation, InsertAlert, TrimQueue,
         SwitchStep, SwitchConfig, ClearPending, SetConfig, RollBack, DaemonCrash, AppStep, Load,
         Authorize, callVars
    <3>3. CASE ListPending(e)
      BY <1>1, <2>1, <3>3 DEF ListPending, CallInv
    <3>4. CASE \E row \in page[e] : Show(e, row) \/ FailToShow(e, row)
      BY <3>1, <3>4 DEF Show, FailToShow
    <3>5. CASE Acknowledge(e) \/ LoseCall(e)
      BY <1>1, <2>1, <3>5 DEF Acknowledge, LoseCall, EndCall, CallInv
    <3> QED BY <3>2, <3>3, <3>4, <3>5 DEF DeliveryStep
  <2>3. CASE Acknowledge(d)
    BY <2>1, <2>3, AcknowledgeKeeps
  <2>4. CASE LoseCall(d)
    BY <2>4 DEF LoseCall, tableVars, Alerted
  <2> QED BY <2>2, <2>3, <2>4
<1>2. IInv /\ [Next]_vars => [\A d \in Deliveries : Ends(d) => Removed]_vars
  BY <1>1
<1> QED BY <1>2, QueueInvariant, PTL DEF Spec, AcknowledgedWasShown
=============================================================================
