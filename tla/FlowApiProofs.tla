------------------------------ MODULE FlowApiProofs ------------------------------
(***************************************************************************)
(* Proofs about FlowApi for any flows, tags, requests, clients, limit, pool*)
(* and length of a tick.                                                   *)
(***************************************************************************)
EXTENDS FlowApi, FiniteSetTheorems, TLAPS

Rows == [flow : Flows, row : BOOLEAN, tags : SUBSET AllTags]
ItemRows == [flow : Flows, row : BOOLEAN, tags : SUBSET AllTags, items : SUBSET Nat]
Stages == {"idle", "wait", "query", "queryTags", "detail", "detailItems",
           "detailTags", "star", "stats", "statsTags"}
Replies == [status : {"none", "ok", "missing", "failed", "busy"},
            rows : SUBSET Rows, items : SUBSET Nat]
Begun == [stored : SUBSET Flows, indexed : SUBSET Flows, end : Int]

\* What the writers keep.
TableInv ==
    /\ indexed \subseteq Flows /\ stored \subseteq Flows
    /\ tagTable \subseteq AllTags /\ "starred" \in tagTable
    /\ items \in [Flows -> SUBSET Nat] /\ tags \in [Flows -> SUBSET AllTags]
    /\ \A f \in Flows : /\ items[f] \subseteq ItemTimes[f]
                        /\ IF f \in stored THEN items[f] # {} ELSE tags[f] = {}

ClientTypes ==
    /\ pc \in [Clients -> Stages]
    /\ req \in [Clients -> Requests]
    /\ found \in [Clients -> SUBSET (Rows \cup ItemRows)]
    /\ reply \in [Clients -> Replies]
    /\ begun \in [Clients -> Begun]
    /\ asked \in 0..MaxRequests

Flowing(rows) == {x.flow : x \in rows}

\* The stages of a request are those of what is asked; nothing is found or answered early,
\* and what was there when it began still is.
StageInv(c) ==
    /\ pc[c] \in {"idle", "wait", "query", "detail", "star", "stats"} => found[c] = {}
    /\ pc[c] \in {"query", "queryTags"} => req[c].op = "query"
    /\ pc[c] \in {"detail", "detailItems", "detailTags"} => req[c].op = "detail"
    /\ pc[c] \in {"stats", "statsTags"} => req[c].op = "stats"
    /\ pc[c] = "star" => req[c].op = "star"
    /\ pc[c] # "idle" => reply[c] = NoAnswer
    /\ begun[c].stored \subseteq stored /\ begun[c].indexed \subseteq indexed

There(c) == IF req[c].op = "query" /\ req[c].regex THEN begun[c].stored \cap begun[c].indexed
                                                   ELSE begun[c].stored
Due(c, F) == {f \in F : TickOf(f) \in req[c].lo .. begun[c].end - 1}

\* A list of flows F is short, or leaves out nothing.
Complete(c, F) ==
    /\ Cardinality(F) <= Limit
    /\ req[c].want = {} /\ req[c].avoid = {} /\ Cardinality(F) < Limit =>
         {f \in There(c) : req[c].bounded => Time[f] \in req[c].lo .. req[c].hi} \subseteq F

\* What the statements before have found.
QueryInv(c) ==
    pc[c] = "queryTags" =>
        /\ found[c] \subseteq Rows
        /\ \A x \in found[c] :
              IF x.row THEN x.flow \in stored
              ELSE req[c].regex /\ Unconditional(req[c]) /\ x.flow \in indexed \ begun[c].stored
        /\ Complete(c, Flowing(found[c]))

DetailInv(c) ==
    /\ pc[c] = "detailItems" =>
          found[c] \subseteq Rows /\ \A x \in found[c] : x.flow = req[c].flow /\ x.flow \in stored
    /\ pc[c] = "detailTags" =>
          /\ found[c] \subseteq ItemRows
          /\ \A x \in found[c] : /\ x.flow = req[c].flow /\ x.flow \in stored
                                 /\ x.items = items[x.flow]

StatsInv(c) ==
    pc[c] = "statsTags" =>
        /\ found[c] \subseteq Rows
        /\ Due(c, There(c)) \subseteq Flowing(found[c])
        /\ Flowing(found[c]) \subseteq Due(c, stored)

\* The properties of one client's answer.
Known(c) ==
    reply[c].status = "failed" =>
        \/ /\ req[c].op = "query"
           /\ \/ req[c].refused
              \/ req[c].regex /\ Unconditional(req[c]) /\ ~(indexed \subseteq begun[c].stored)
        \/ /\ req[c].op = "stats"
           /\ \/ ~(IsDate(req[c].lo) /\ IsDate(begun[c].end))
              \/ \E f \in stored : Time[f] = begun[c].end * TickLength

Agree(c) ==
    reply[c].status = "ok" /\ req[c].op = "detail" =>
        /\ req[c].flow \in stored
        /\ reply[c].items = items[req[c].flow]

Whole(c) ==
    reply[c].status = "ok" =>
        /\ req[c].op = "query" =>
             Flowing(reply[c].rows) \subseteq stored /\ Complete(c, Flowing(reply[c].rows))
        /\ req[c].op = "stats" =>
             /\ Due(c, There(c)) \subseteq Flowing(reply[c].rows)
             /\ Flowing(reply[c].rows) \subseteq Due(c, stored)

ClientInv(c) == /\ StageInv(c) /\ QueryInv(c) /\ DetailInv(c) /\ StatsInv(c)
                /\ Known(c) /\ Agree(c) /\ Whole(c)

ApiInv == TableInv /\ ClientTypes /\ \A c \in Clients : ClientInv(c)
--------------------------------------------------------------------------------
(* Facts about the constants and about ticks. *)

LEMMA TimeIsNat == \A f \in Flows : Time[f] \in Nat
  BY FlowApiAssumption

\* The quotient of a natural number.
LEMMA Quotient ==
  ASSUME NEW t \in Nat
  PROVE  /\ t \div TickLength \in Nat
         /\ TickLength * (t \div TickLength) <= t
         /\ t < TickLength * (t \div TickLength) + TickLength
  BY FlowApiAssumption

LEMMA Product ==
  ASSUME NEW a \in Int, NEW b \in Int, a <= b
  PROVE  a * TickLength <= b * TickLength
  BY FlowApiAssumption

\* Between two multiples of the length of a tick are the ticks between, and of the next
\* one only its first microsecond.
LEMMA TicksBetween ==
  ASSUME NEW lo \in Int, NEW end \in Int, NEW t \in Nat
  PROVE  /\ lo * TickLength <= t /\ t <= end * TickLength =>
              \/ (t \div TickLength) \in lo .. end - 1
              \/ t = end * TickLength
         /\ (t \div TickLength) \in lo .. end - 1 =>
              lo * TickLength <= t /\ t <= end * TickLength
<1> DEFINE q == t \div TickLength
<1>0. TickLength \in Nat \ {0}
  BY FlowApiAssumption
<1>1. q \in Nat /\ q * TickLength <= t /\ t < q * TickLength + TickLength
  BY <1>0, Quotient
<1>2. (q + 1) * TickLength = q * TickLength + TickLength
  BY <1>0, <1>1
<1> HIDE DEF q
<1>3. ASSUME lo * TickLength <= t, t <= end * TickLength
      PROVE  q \in lo .. end - 1 \/ t = end * TickLength
  <2>1. q < lo => (q + 1) * TickLength <= lo * TickLength
    BY <1>1, Product
  <2>2. lo * TickLength \in Int /\ end * TickLength \in Int /\ q * TickLength \in Int
    BY <1>0, <1>1
  <2>3. lo <= q
    BY <1>0, <1>1, <1>2, <1>3, <2>1, <2>2
  <2>4. q > end => (end + 1) * TickLength <= q * TickLength
    BY <1>1, Product
  <2>5. (end + 1) * TickLength = end * TickLength + TickLength
    BY <1>0
  <2>6. q <= end
    BY <1>0, <1>1, <1>3, <2>2, <2>4, <2>5
  <2>7. q = end => t = end * TickLength
    BY <1>1, <1>3, <2>2
  <2> QED
    BY <1>1, <2>3, <2>6, <2>7
<1>4. ASSUME q \in lo .. end - 1
      PROVE  lo * TickLength <= t /\ t <= end * TickLength
  <2>1. lo * TickLength <= q * TickLength /\ (q + 1) * TickLength <= end * TickLength
    BY <1>1, <1>4, Product
  <2>2. lo * TickLength \in Int /\ end * TickLength \in Int /\ q * TickLength \in Int
    BY <1>0, <1>1
  <2> QED
    BY <1>0, <1>1, <1>2, <2>1, <2>2
<1> QED
  BY <1>3, <1>4 DEF q

\* Flows are finitely many, and so are those of any set of them.
LEMMA FewFlows ==
  ASSUME NEW F \in SUBSET Flows
  PROVE  IsFiniteSet(F) /\ Cardinality(F) \in Nat
  BY FlowApiAssumption, FS_Subset, FS_CardinalityType

\* All items of a flow lie within its duration.
LEMMA ItemsOfFlow ==
  ASSUME TableInv, NEW f \in Flows
  PROVE  flow_item_query(f) = items[f]
<1> DEFINE Last(t) == \A u \in ItemTimes[f] : u <= t
<1>1. \E t \in ItemTimes[f] : Last(t)
  BY FlowApiAssumption
<1>2. PICK end : end = CHOOSE t \in ItemTimes[f] : Last(t)
  OBVIOUS
<1>3. end \in ItemTimes[f] /\ Last(end)
  BY <1>1, <1>2
<1>4. \A t \in items[f] : Time[f] <= t /\ t <= end
  BY <1>3, FlowApiAssumption DEF TableInv
<1> QED
  BY <1>2, <1>4 DEF flow_item_query

LEMMA RequestType ==
  ASSUME NEW r \in Requests
  PROVE  /\ r.op \in {"query", "detail", "star", "stats"} /\ r.flow \in Flows
         /\ r.lo \in Int /\ r.hi \in Int /\ r.regex \in BOOLEAN /\ r.bounded \in BOOLEAN
  BY FlowApiAssumption DEF Request

--------------------------------------------------------------------------------
(* The initial state, and clients that a step does not touch. *)

LEMMA InitApi == Init => ApiInv
<1> SUFFICES ASSUME Init PROVE ApiInv
  OBVIOUS
<1>1. TableInv
  BY DEF Init, TableInv, AllTags
<1>2. ClientTypes
  <2>1. (CHOOSE r \in Requests : TRUE) \in Requests
    BY FlowApiAssumption
  <2>2. NoAnswer \in Replies /\ NotBegun \in Begun
    BY DEF NoAnswer, NotBegun, Replies, Begun
  <2> QED
    BY <2>1, <2>2, FlowApiAssumption DEF Init, ClientTypes, Stages
<1>3. ASSUME NEW c \in Clients PROVE ClientInv(c)
  BY DEF Init, ClientInv, StageInv, QueryInv, DetailInv, StatsInv, Known, Agree, Whole,
     NoAnswer, NotBegun
<1> QED
  BY <1>1, <1>2, <1>3 DEF ApiInv

\* Tables only grow, so what a client has seen stays there.
LEMMA ClientKeeps ==
  ASSUME NEW c \in Clients, ClientInv(c),
         pc'[c] = pc[c], req'[c] = req[c], found'[c] = found[c], reply'[c] = reply[c],
         begun'[c] = begun[c],
         stored \subseteq stored', indexed \subseteq indexed',
         \A f \in stored : items'[f] = items[f]
  PROVE  ClientInv(c)'
<1> USE DEF ClientInv
<1>1. StageInv(c)'
  BY DEF StageInv
<1>2. There(c)' = There(c) /\ \A F : Complete(c, F)' <=> Complete(c, F)
  BY DEF There, Complete
<1>3. \A F : Due(c, F)' = Due(c, F)
  BY DEF Due
<1>4. Due(c, stored) \subseteq Due(c, stored')
  BY DEF Due
<1>5. QueryInv(c)'
  BY <1>2 DEF QueryInv, Complete, There
<1>6. DetailInv(c)'
  BY DEF DetailInv
<1>7. StatsInv(c)'
  BY <1>2, <1>3, <1>4 DEF StatsInv, Due, There
<1>8. Known(c)'
  BY DEF Known
<1>9. Agree(c)'
  BY DEF Agree
<1>10. Whole(c)'
  BY <1>2, <1>3, <1>4 DEF Whole, Due, There, Complete
<1> QED
  BY <1>1, <1>5, <1>6, <1>7, <1>8, <1>9, <1>10

\* A step of the writers.
LEMMA WriterKeeps ==
  ASSUME ApiInv, TableInv', UNCHANGED requests,
         stored \subseteq stored', indexed \subseteq indexed',
         \A f \in stored : items'[f] = items[f]
  PROVE  ApiInv'
<1>1. ClientTypes'
  BY DEF ApiInv, ClientTypes, requests
<1>2. ASSUME NEW c \in Clients PROVE ClientInv(c)'
  BY ClientKeeps DEF ApiInv, requests
<1> QED
  BY <1>1, <1>2 DEF ApiInv

\* A step of client d's request.
LEMMA RequestKeeps ==
  ASSUME ApiInv, NEW d \in Clients, TableInv', ClientTypes', ClientInv(d)',
         UNCHANGED <<stored, indexed, items>>,
         \A c \in Clients \ {d} :
             /\ pc'[c] = pc[c] /\ req'[c] = req[c] /\ found'[c] = found[c]
             /\ reply'[c] = reply[c] /\ begun'[c] = begun[c]
  PROVE  ApiInv'
<1>1. ASSUME NEW c \in Clients \ {d} PROVE ClientInv(c)'
  BY ClientKeeps DEF ApiInv
<1> QED
  BY <1>1 DEF ApiInv

LEMMA WriteKeeps ==
  ASSUME ApiInv, Write
  PROVE  ApiInv'
<1>0. TableInv
  BY DEF ApiInv
<1>1. ASSUME NEW f \in Flows, StoreIndex(f) PROVE ApiInv'
  <2>1. TableInv'
    BY <1>0, <1>1 DEF StoreIndex, TableInv, requests
  <2> QED
    BY <1>1, <2>1, WriterKeeps DEF StoreIndex
<1>2. ASSUME NEW f \in Flows, StoreItems(f) PROVE ApiInv'
  <2>1. PICK some \in SUBSET ItemTimes[f] \ {{}} : items' = [items EXCEPT ![f] = some]
    BY <1>2 DEF StoreItems
  <2>2. some \in SUBSET Nat
    BY <2>1, FlowApiAssumption
  <2>3. TableInv'
    BY <1>0, <1>2, <2>1, <2>2 DEF StoreItems, TableInv, requests
  <2>4. \A g \in stored : items'[g] = items[g]
    BY <1>0, <1>2, <2>1 DEF StoreItems, TableInv
  <2> QED
    BY <1>2, <2>3, <2>4, WriterKeeps DEF StoreItems
<1>3. ASSUME NEW f \in Flows, StoreFlow(f) PROVE ApiInv'
  <2>1. PICK T \in SUBSET Tags : tags' = [tags EXCEPT ![f] = T]
    BY <1>3 DEF StoreFlow
  <2>2. TableInv'
    BY <1>0, <1>3, <2>1 DEF StoreFlow, TableInv, AllTags, requests
  <2> QED
    BY <1>3, <2>2, WriterKeeps DEF StoreFlow
<1>4. ASSUME NEW f \in Flows, NEW t \in Tags, MarkFlow(f, t) PROVE ApiInv'
  <2>1. TableInv'
    BY <1>0, <1>4 DEF MarkFlow, TableInv, AllTags, requests
  <2> QED
    BY <1>4, <2>1, WriterKeeps DEF MarkFlow
<1>5. ASSUME NEW t \in Tags, ListTag(t) PROVE ApiInv'
  <2>1. TableInv'
    BY <1>0, <1>5 DEF ListTag, TableInv, AllTags, requests
  <2> QED
    BY <1>5, <2>1, WriterKeeps DEF ListTag
<1> QED
  BY <1>1, <1>2, <1>3, <1>4, <1>5 DEF Write

--------------------------------------------------------------------------------
(* The steps of a request. *)

\* Statements change no table.
LEMMA TablesStay ==
  ASSUME ApiInv, UNCHANGED tables
  PROVE  TableInv' /\ UNCHANGED <<stored, indexed, items>>
  BY DEF ApiInv, TableInv, tables

LEMMA BeginKeeps ==
  ASSUME ApiInv, NEW d \in Clients, Begin(d)
  PROVE  ApiInv'
<1>1. PICK r \in Requests : req' = [req EXCEPT ![d] = r]
  BY DEF Begin
<1>2. /\ pc' = [pc EXCEPT ![d] = "wait"] /\ reply' = [reply EXCEPT ![d] = NoAnswer]
      /\ begun' = [begun EXCEPT ![d] = NotBegun] /\ asked' = asked + 1
      /\ UNCHANGED <<tables, found>> /\ pc[d] = "idle" /\ asked < MaxRequests
  BY DEF Begin
<1>3. TableInv' /\ UNCHANGED <<stored, indexed, items>>
  BY <1>2, TablesStay
<1>4. ClientTypes'
  <2>1. NoAnswer \in Replies /\ NotBegun \in Begun
    BY DEF NoAnswer, NotBegun, Replies, Begun
  <2> QED
    BY <1>1, <1>2, <2>1, FlowApiAssumption DEF ApiInv, ClientTypes, Stages
<1>5. /\ pc'[d] = "wait" /\ found'[d] = {} /\ reply'[d] = NoAnswer /\ begun'[d] = NotBegun
  BY <1>2 DEF ApiInv, ClientTypes, ClientInv, StageInv
<1>6. ClientInv(d)'
  BY <1>5 DEF ClientInv, StageInv, QueryInv, DetailInv, StatsInv, Known, Agree, Whole,
     NoAnswer, NotBegun
<1> QED
  BY <1>1, <1>2, <1>3, <1>4, <1>6, RequestKeeps DEF ApiInv, ClientTypes

LEMMA ConnectKeeps ==
  ASSUME ApiInv, NEW d \in Clients, Connect(d)
  PROVE  ApiInv'
<1>1. PICK end \in TickEnds(req[d]) :
        begun' = IF req[d].op \in {"detail", "star"} THEN begun
                 ELSE [begun EXCEPT ![d] = [stored |-> stored, indexed |-> indexed, end |-> end]]
  BY DEF Connect
<1>2. /\ pc' = [pc EXCEPT ![d] = req[d].op] /\ pc[d] = "wait"
      /\ UNCHANGED <<tables, req, found, reply, asked>>
  BY DEF Connect
<1>3. TableInv' /\ UNCHANGED <<stored, indexed, items>>
  BY <1>2, TablesStay
<1>4. req[d] \in Requests /\ req[d].op \in {"query", "detail", "star", "stats"}
  BY RequestType DEF ApiInv, ClientTypes
<1>5. end \in Int
  BY <1>1, <1>4, RequestType, FlowApiAssumption DEF TickEnds
<1>6. ClientTypes'
  <2>1. [stored |-> stored, indexed |-> indexed, end |-> end] \in Begun
    BY <1>5 DEF ApiInv, TableInv, Begun
  <2>2. begun' \in [Clients -> Begun]
    BY <1>1, <2>1 DEF ApiInv, ClientTypes
  <2> QED
    BY <1>2, <1>4, <2>2 DEF ApiInv, ClientTypes, Stages
<1>7. /\ pc'[d] = req[d].op /\ req'[d] = req[d] /\ found'[d] = {} /\ reply'[d] = NoAnswer
  BY <1>2, <1>4 DEF ApiInv, ClientTypes, ClientInv, StageInv
<1>8. begun'[d].stored \subseteq stored /\ begun'[d].indexed \subseteq indexed
  BY <1>1 DEF ApiInv, ClientTypes, ClientInv, StageInv
<1>9. ClientInv(d)'
  BY <1>3, <1>4, <1>7, <1>8 DEF ClientInv, StageInv, QueryInv, DetailInv, StatsInv, Known,
     Agree, Whole, NoAnswer
<1> QED
  BY <1>1, <1>2, <1>3, <1>6, <1>9, RequestKeeps DEF ApiInv, ClientTypes

\* A request that is answered: its reply must have the right type, and what is said of it.
LEMMA AnswerKeeps ==
  ASSUME ApiInv, NEW d \in Clients, NEW status, NEW rows, NEW shown,
         Answer(d, status, rows, shown),
         [status |-> status, rows |-> rows, items |-> shown] \in Replies,
         Known(d)', Agree(d)', Whole(d)'
  PROVE  ApiInv'
<1>1. /\ reply' = [reply EXCEPT ![d] = [status |-> status, rows |-> rows, items |-> shown]]
      /\ pc' = [pc EXCEPT ![d] = "idle"] /\ found' = [found EXCEPT ![d] = {}]
      /\ UNCHANGED <<tables, req, begun, asked>>
  BY DEF Answer
<1>2. TableInv' /\ UNCHANGED <<stored, indexed, items>>
  BY <1>1, TablesStay
<1>3. ClientTypes'
  BY <1>1 DEF ApiInv, ClientTypes, Stages
<1>4. pc'[d] = "idle" /\ found'[d] = {} /\ begun'[d] = begun[d]
  BY <1>1 DEF ApiInv, ClientTypes
<1>5. ClientInv(d)'
  BY <1>2, <1>4 DEF ApiInv, ClientInv, StageInv, QueryInv, DetailInv, StatsInv
<1> QED
  BY <1>1, <1>2, <1>3, <1>5, RequestKeeps DEF ApiInv, ClientTypes

\* The reply of an answer.
LEMMA AnswerIs ==
  ASSUME ApiInv, NEW d \in Clients, NEW status, NEW rows, NEW shown,
         Answer(d, status, rows, shown)
  PROVE  /\ reply'[d] = [status |-> status, rows |-> rows, items |-> shown]
         /\ req'[d] = req[d] /\ begun'[d] = begun[d]
         /\ UNCHANGED <<stored, indexed, items, tagTable>>
  BY DEF Answer, ApiInv, ClientTypes, tables

\* An answer that is neither a success nor a failure says nothing.
LEMMA OtherAnswer ==
  ASSUME ApiInv, NEW d \in Clients, NEW status \in {"missing", "busy"},
         Answer(d, status, {}, {})
  PROVE  ApiInv'
<1>0. reply'[d] = [status |-> status, rows |-> {}, items |-> {}]
  BY AnswerIs
<1>1. reply'[d].status = status
  BY <1>0
<1>2. Known(d)' /\ Agree(d)' /\ Whole(d)'
  BY <1>1 DEF Known, Agree, Whole
<1>3. [status |-> status, rows |-> {}, items |-> {}] \in Replies
  BY DEF Replies
<1> QED
  BY <1>2, <1>3, AnswerKeeps

\* A request that goes on with its next statement.
LEMMA ContinueKeeps ==
  ASSUME ApiInv, NEW d \in Clients, NEW stage \in Stages, NEW rows,
         Continue(d, stage, rows), rows \in SUBSET (Rows \cup ItemRows),
         pc[d] # "idle",
         StageInv(d)', QueryInv(d)', DetailInv(d)', StatsInv(d)'
  PROVE  ApiInv'
<1>1. /\ found' = [found EXCEPT ![d] = rows] /\ pc' = [pc EXCEPT ![d] = stage]
      /\ UNCHANGED <<tables, req, reply, begun, asked>>
  BY DEF Continue
<1>2. TableInv' /\ UNCHANGED <<stored, indexed, items>>
  BY <1>1, TablesStay
<1>3. ClientTypes'
  BY <1>1 DEF ApiInv, ClientTypes
<1>4. reply'[d] = NoAnswer
  BY <1>1 DEF ApiInv, ClientInv, StageInv
<1>5. ClientInv(d)'
  BY <1>4 DEF ClientInv, Known, Agree, Whole, NoAnswer
<1> QED
  BY <1>1, <1>2, <1>3, <1>5, RequestKeeps DEF ApiInv, ClientTypes

\* The state after such a statement.
LEMMA ContinueIs ==
  ASSUME ApiInv, NEW d \in Clients, NEW stage, NEW rows, Continue(d, stage, rows)
  PROVE  /\ found'[d] = rows /\ pc'[d] = stage
         /\ req'[d] = req[d] /\ begun'[d] = begun[d] /\ reply'[d] = reply[d]
         /\ UNCHANGED <<stored, indexed, items, tagTable>>
  BY DEF Continue, ApiInv, ClientTypes, tables

\* The first statement of a query finds flows that match, all of them or as many as the limit.
LEMMA QueryFlowsKeeps ==
  ASSUME ApiInv, NEW d \in Clients, QueryFlows(d)
  PROVE  ApiInv'
<1> DEFINE hits == Matches(req[d])
           rowOf(f) == [flow |-> f, row |-> f \in stored, tags |-> tags[f]]
           rows(F) == {rowOf(f) : f \in F}
<1>1. PICK F \in SUBSET hits :
         /\ Cardinality(F) = Limit \/ (Cardinality(hits) < Limit /\ F = hits)
         /\ Continue(d, "queryTags", rows(F))
  BY DEF QueryFlows
<1>2. hits \subseteq Candidates(req[d]) /\ Candidates(req[d]) \subseteq Flows
  BY DEF Matches, Candidates, ApiInv, TableInv
<1>3. rows(F) \in SUBSET Rows
  <2>1. ASSUME NEW f \in F PROVE rowOf(f) \in Rows
    <3>1. f \in Flows /\ tags[f] \in SUBSET AllTags /\ (f \in stored) \in BOOLEAN
      BY <1>2 DEF ApiInv, TableInv
    <3> QED
      BY <3>1 DEF Rows
  <2> QED
    BY <2>1
<1>4. Flowing(rows(F)) = F
  <2>1. \A f \in F : rowOf(f).flow = f
    OBVIOUS
  <2> HIDE DEF rowOf
  <2> QED
    BY <2>1 DEF Flowing
<1>5. /\ found'[d] = rows(F) /\ pc'[d] = "queryTags"
      /\ req'[d] = req[d] /\ begun'[d] = begun[d] /\ reply'[d] = reply[d]
      /\ UNCHANGED <<stored, indexed, items, tagTable>>
  BY <1>1, ContinueIs
<1>6. /\ pc[d] = "query" /\ req[d].op = "query" /\ reply[d] = NoAnswer
      /\ begun[d].stored \subseteq stored /\ begun[d].indexed \subseteq indexed
  BY DEF QueryFlows, ApiInv, ClientInv, StageInv
<1>7. StageInv(d)'
  BY <1>5, <1>6 DEF StageInv
<1>8. ASSUME NEW x \in rows(F)
      PROVE  IF x.row THEN x.flow \in stored
             ELSE req[d].regex /\ Unconditional(req[d]) /\ x.flow \in indexed \ begun[d].stored
  <2>1. PICK f \in F : x = rowOf(f)
    OBVIOUS
  <2>2. x.flow = f /\ (x.row <=> f \in stored)
    BY <2>1
  <2>3. f \in stored \/ (Unconditional(req[d]) /\ f \in Candidates(req[d]))
    BY DEF Matches
  <2> QED
    BY <1>6, <2>2, <2>3 DEF Candidates
<1>9. Complete(d, F)
  <2>1. Cardinality(F) <= Limit
    BY <1>1, <1>2, FewFlows, FlowApiAssumption
  <2>2. ASSUME req[d].want = {}, req[d].avoid = {}, Cardinality(F) < Limit
        PROVE  {f \in There(d) : req[d].bounded => Time[f] \in req[d].lo .. req[d].hi} \subseteq F
    <3>1. F = hits
      BY <1>1, <2>2, FlowApiAssumption
    <3>2. SUFFICES ASSUME NEW f \in There(d), req[d].bounded => Time[f] \in req[d].lo .. req[d].hi
                   PROVE  f \in hits
      BY <3>1
    <3>3. f \in stored /\ f \in Candidates(req[d])
      BY <1>6 DEF There, Candidates
    <3>4. Meets(req[d], f)
      BY <2>2, <3>2 DEF Meets
    <3> QED
      BY <3>3, <3>4 DEF Matches
  <2> QED
    BY <2>1, <2>2 DEF Complete
<1>10. Complete(d, F)'
  BY <1>5, <1>9 DEF Complete, There
<1>11. QueryInv(d)'
  BY <1>3, <1>4, <1>5, <1>8, <1>10 DEF QueryInv
<1>12. DetailInv(d)' /\ StatsInv(d)'
  BY <1>5 DEF DetailInv, StatsInv
<1> QED
  BY <1>1, <1>3, <1>6, <1>7, <1>11, <1>12, ContinueKeeps DEF Stages

\* A query whose values the database refuses.
LEMMA QueryRefusedKeeps ==
  ASSUME ApiInv, NEW d \in Clients, QueryRefused(d)
  PROVE  ApiInv'
<1>1. req[d].op = "query" /\ req[d].refused /\ Answer(d, "failed", {}, {})
  BY DEF QueryRefused, ApiInv, ClientInv, StageInv
<1>2. /\ reply'[d] = [status |-> "failed", rows |-> {}, items |-> {}]
      /\ req'[d] = req[d] /\ begun'[d] = begun[d] /\ UNCHANGED <<stored, indexed, items, tagTable>>
  BY <1>1, AnswerIs
<1>3. Known(d)' /\ Agree(d)' /\ Whole(d)'
  BY <1>1, <1>2 DEF Known, Agree, Whole
<1>4. [status |-> "failed", rows |-> {}, items |-> {}] \in Replies
  BY DEF Replies
<1> QED
  BY <1>1, <1>3, <1>4, AnswerKeeps

\* The second statement fails for a row that is not there, or shows what was found.
LEMMA QueryTagsKeeps ==
  ASSUME ApiInv, NEW d \in Clients, QueryTags(d)
  PROVE  ApiInv'
<1>0. PICK rows : rows = {[x EXCEPT !.tags = x.tags \cap tagTable] : x \in found[d]}
  OBVIOUS
<1>1. /\ pc[d] = "queryTags" /\ req[d].op = "query" /\ tagTable # {}
      /\ found[d] \subseteq Rows
  BY DEF QueryTags, ApiInv, ClientInv, StageInv, QueryInv, TableInv
<1>2. CASE \E x \in found[d] : ~x.row
  <2>1. Answer(d, "failed", {}, {})
    BY <1>1, <1>2 DEF QueryTags
  <2>2. /\ reply'[d] = [status |-> "failed", rows |-> {}, items |-> {}]
        /\ req'[d] = req[d] /\ begun'[d] = begun[d] /\ UNCHANGED <<stored, indexed, items, tagTable>>
    BY <2>1, AnswerIs
  <2>3. req[d].regex /\ Unconditional(req[d]) /\ ~(indexed \subseteq begun[d].stored)
    BY <1>1, <1>2 DEF ApiInv, ClientInv, QueryInv
  <2>4. Known(d)' /\ Agree(d)' /\ Whole(d)'
    BY <1>1, <2>2, <2>3 DEF Known, Agree, Whole
  <2>5. [status |-> "failed", rows |-> {}, items |-> {}] \in Replies
    BY DEF Replies
  <2> QED
    BY <2>1, <2>4, <2>5, AnswerKeeps
<1>3. CASE \A x \in found[d] : x.row
  <2>1. Answer(d, "ok", rows, {})
    BY <1>0, <1>3 DEF QueryTags
  <2>2. /\ reply'[d] = [status |-> "ok", rows |-> rows, items |-> {}]
        /\ req'[d] = req[d] /\ begun'[d] = begun[d] /\ UNCHANGED <<stored, indexed, items, tagTable>>
    BY <2>1, AnswerIs
  <2>3. \A x \in found[d] : /\ [x EXCEPT !.tags = x.tags \cap tagTable] \in Rows
                            /\ [x EXCEPT !.tags = x.tags \cap tagTable].flow = x.flow
    BY <1>1 DEF Rows
  <2>4. rows \in SUBSET Rows /\ Flowing(rows) = Flowing(found[d])
    BY <1>0, <2>3 DEF Flowing
  <2>5. Flowing(found[d]) \subseteq stored /\ Complete(d, Flowing(found[d]))
    BY <1>1, <1>3 DEF ApiInv, ClientInv, QueryInv, Flowing
  <2>6. Whole(d)'
    <3>1. reply'[d].rows = rows
      BY <2>2
    <3>2. Complete(d, Flowing(rows)) /\ Flowing(rows) \subseteq stored
      BY <2>4, <2>5
    <3>3. (Complete(d, Flowing(reply[d].rows)))'
      BY <2>2, <3>1, <3>2 DEF Complete, There
    <3>4. Flowing(reply'[d].rows) \subseteq stored'
      BY <2>2, <3>1, <3>2
    <3> QED
      BY <1>1, <2>2, <3>3, <3>4 DEF Whole
  <2>7. Known(d)' /\ Agree(d)'
    BY <1>1, <2>2 DEF Known, Agree
  <2>8. [status |-> "ok", rows |-> rows, items |-> {}] \in Replies
    BY <2>4 DEF Replies
  <2> QED
    BY <2>1, <2>6, <2>7, <2>8, AnswerKeeps
<1> QED
  BY <1>2, <1>3

\* The first statement of a flow's details.
LEMMA DetailFlowKeeps ==
  ASSUME ApiInv, NEW d \in Clients, DetailFlow(d)
  PROVE  ApiInv'
<1>1. pc[d] = "detail" /\ req[d].op = "detail" /\ reply[d] = NoAnswer
  BY DEF DetailFlow, ApiInv, ClientInv, StageInv
<1>f. PICK f : f = req[d].flow
  OBVIOUS
<1>2. f \in Flows
  BY <1>f, RequestType DEF ApiInv, ClientTypes
<1>3. CASE f \in stored
  <2>1. PICK rows : rows = {[flow |-> f, row |-> TRUE, tags |-> tags[f]]}
    OBVIOUS
  <2>2. Continue(d, "detailItems", rows)
    BY <1>f, <1>3, <2>1 DEF DetailFlow
  <2>3. rows \in SUBSET Rows /\ \A x \in rows : x.flow = f
    BY <1>2, <2>1 DEF Rows, ApiInv, TableInv
  <2>4. /\ found'[d] = rows /\ pc'[d] = "detailItems"
        /\ req'[d] = req[d] /\ begun'[d] = begun[d] /\ reply'[d] = reply[d]
        /\ UNCHANGED <<stored, indexed, items, tagTable>>
    BY <2>2, ContinueIs
  <2>5. StageInv(d)' /\ QueryInv(d)' /\ StatsInv(d)'
    BY <1>1, <2>4 DEF StageInv, QueryInv, StatsInv, ApiInv, ClientInv
  <2>6. DetailInv(d)'
    BY <1>f, <1>3, <2>3, <2>4 DEF DetailInv
  <2> QED
    BY <1>1, <2>2, <2>3, <2>5, <2>6, ContinueKeeps DEF Stages
<1>4. CASE f \notin stored
  <2>1. Answer(d, "missing", {}, {})
    BY <1>f, <1>4 DEF DetailFlow
  <2> QED
    BY <2>1, OtherAnswer
<1> QED
  BY <1>3, <1>4

\* The items are read: all that a stored flow has.
LEMMA DetailItemsKeeps ==
  ASSUME ApiInv, NEW d \in Clients, DetailItems(d)
  PROVE  ApiInv'
<1>1. /\ pc[d] = "detailItems" /\ req[d].op = "detail" /\ reply[d] = NoAnswer
      /\ found[d] \subseteq Rows
      /\ \A x \in found[d] : x.flow = req[d].flow /\ x.flow \in stored
  BY DEF DetailItems, ApiInv, ClientInv, StageInv, DetailInv
<1> DEFINE shown(x) == [flow |-> x.flow, row |-> TRUE, tags |-> x.tags,
                        items |-> flow_item_query(x.flow)]
<1>2. PICK rows : rows = {shown(x) : x \in found[d]}
  OBVIOUS
<1>3. Continue(d, "detailTags", rows)
  BY <1>2 DEF DetailItems
<1>4. ASSUME NEW x \in found[d]
      PROVE  /\ shown(x) \in ItemRows /\ shown(x).flow = req[d].flow
             /\ shown(x).flow \in stored /\ shown(x).items = items[shown(x).flow]
  <2>1. x.flow \in Flows /\ x.tags \in SUBSET AllTags
    BY <1>1 DEF Rows
  <2>2. flow_item_query(x.flow) = items[x.flow] /\ items[x.flow] \in SUBSET Nat
    BY <2>1, ItemsOfFlow DEF ApiInv, TableInv
  <2> QED
    BY <1>1, <2>1, <2>2 DEF ItemRows
<1>5. /\ found'[d] = rows /\ pc'[d] = "detailTags"
      /\ req'[d] = req[d] /\ begun'[d] = begun[d] /\ reply'[d] = reply[d]
      /\ UNCHANGED <<stored, indexed, items, tagTable>>
  BY <1>3, ContinueIs
<1> HIDE DEF shown
<1>6. /\ rows \in SUBSET ItemRows
      /\ \A x \in rows : /\ x.flow = req[d].flow /\ x.flow \in stored
                          /\ x.items = items[x.flow]
  BY <1>2, <1>4
<1>7. StageInv(d)' /\ QueryInv(d)' /\ StatsInv(d)'
  BY <1>1, <1>5 DEF StageInv, QueryInv, StatsInv, ApiInv, ClientInv
<1>8. DetailInv(d)'
  BY <1>5, <1>6 DEF DetailInv
<1> QED
  BY <1>1, <1>3, <1>6, <1>7, <1>8, ContinueKeeps DEF Stages

LEMMA DetailTagsKeeps ==
  ASSUME ApiInv, NEW d \in Clients, DetailTags(d)
  PROVE  ApiInv'
<1>1. /\ pc[d] = "detailTags" /\ req[d].op = "detail"
      /\ found[d] \subseteq ItemRows
      /\ \A x \in found[d] : /\ x.flow = req[d].flow /\ x.flow \in stored
                              /\ x.items = items[x.flow]
  BY DEF DetailTags, ApiInv, ClientInv, StageInv, DetailInv
<1>2. PICK x \in found[d] :
        Answer(d, "ok", {[flow |-> x.flow, row |-> TRUE, tags |-> x.tags \cap tagTable]}, x.items)
  BY DEF DetailTags
<1>3. PICK rows : rows = {[flow |-> x.flow, row |-> TRUE, tags |-> x.tags \cap tagTable]}
  OBVIOUS
<1>4. /\ reply'[d] = [status |-> "ok", rows |-> rows, items |-> x.items]
      /\ req'[d] = req[d] /\ begun'[d] = begun[d] /\ UNCHANGED <<stored, indexed, items, tagTable>>
  BY <1>2, <1>3, AnswerIs
<1>5. [status |-> "ok", rows |-> rows, items |-> x.items] \in Replies
  <2>1. x.flow \in Flows /\ x.tags \in SUBSET AllTags /\ x.items \in SUBSET Nat
    BY <1>1 DEF ItemRows
  <2>2. rows \in SUBSET Rows
    BY <1>3, <2>1 DEF Rows
  <2> QED
    BY <2>1, <2>2 DEF Replies
<1>6. Known(d)' /\ Whole(d)' /\ Agree(d)'
  BY <1>1, <1>4 DEF Known, Whole, Agree
<1> QED
  BY <1>2, <1>3, <1>5, <1>6, AnswerKeeps

\* A star is set, or there is no row to set it in.
LEMMA SetStarKeeps ==
  ASSUME ApiInv, NEW d \in Clients, SetStar(d)
  PROVE  ApiInv'
<1>1. PICK answer : answer = [status |-> "ok", rows |-> {}, items |-> {}]
  OBVIOUS
<1>2. /\ pc[d] = "star" /\ req[d].op = "star"
      /\ reply' = [reply EXCEPT ![d] = answer] /\ pc' = [pc EXCEPT ![d] = "idle"]
      /\ UNCHANGED <<indexed, items, stored, tagTable, req, found, begun, asked>>
  BY <1>1 DEF SetStar, ApiInv, ClientInv, StageInv
<1>3. TableInv'
  <2>1. req[d].flow \in Flows
    BY RequestType DEF ApiInv, ClientTypes
  <2>2. flow_tag(req[d].flow, req[d].star) \in SUBSET AllTags
    BY <2>1 DEF flow_tag, ApiInv, TableInv, AllTags
  <2> QED
    BY <1>2, <2>1, <2>2 DEF SetStar, ApiInv, TableInv
<1>4. ClientTypes'
  <2>1. answer \in Replies
    BY <1>1 DEF Replies
  <2> QED
    BY <1>2, <2>1 DEF ApiInv, ClientTypes, Stages
<1>5. /\ pc'[d] = "idle" /\ found'[d] = {} /\ reply'[d].status = "ok" /\ begun'[d] = begun[d]
      /\ req'[d] = req[d]
  BY <1>1, <1>2 DEF ApiInv, ClientTypes, ClientInv, StageInv
<1>6. ClientInv(d)'
  BY <1>2, <1>5 DEF ApiInv, ClientInv, StageInv, QueryInv, DetailInv, StatsInv, Known, Agree, Whole
<1> QED
  BY <1>2, <1>3, <1>4, <1>6, RequestKeeps DEF ApiInv, ClientTypes

\* The window of a request and the ticks it asks for: the same flows, but for those of the
\* first microsecond after.
LEMMA WindowIs ==
  ASSUME ApiInv, NEW d \in Clients
  PROVE  /\ Window(req[d].lo, begun[d].end) \subseteq stored
         /\ Due(d, stored) \subseteq Window(req[d].lo, begun[d].end)
         /\ \A f \in Window(req[d].lo, begun[d].end) :
               f \in Due(d, stored) \/ Time[f] = begun[d].end * TickLength
<1>1. req[d].lo \in Int /\ begun[d].end \in Int
  BY RequestType DEF ApiInv, ClientTypes, Begun
<1>2. \A f \in stored : Time[f] \in Nat
  BY TimeIsNat DEF ApiInv, TableInv
<1>3. ASSUME NEW f \in Due(d, stored) PROVE f \in Window(req[d].lo, begun[d].end)
  BY <1>1, <1>2, <1>3, TicksBetween DEF Due, TickOf, Window
<1>4. ASSUME NEW f \in Window(req[d].lo, begun[d].end)
      PROVE  f \in Due(d, stored) \/ Time[f] = begun[d].end * TickLength
  <2>1. PICK lo \in Int, end \in Int : lo = req[d].lo /\ end = begun[d].end
    BY <1>1
  <2>2. PICK t \in Nat : t = Time[f]
    BY <1>2, <1>4 DEF Window
  <2>3. f \in stored /\ lo * TickLength <= t /\ t <= end * TickLength
    BY <1>4, <2>1, <2>2 DEF Window
  <2>4. (t \div TickLength) \in lo .. end - 1 \/ t = end * TickLength
    BY <2>3, TicksBetween
  <2> QED
    BY <2>1, <2>2, <2>3, <2>4 DEF Due, TickOf
<1> QED
  BY <1>3, <1>4 DEF Window

\* A row of a tick that was not asked for: the flow began where the last tick ends.
LEMMA OutOfRange ==
  ASSUME ApiInv, NEW d \in Clients, NEW F \in SUBSET Window(req[d].lo, begun[d].end)
  PROVE  /\ ~InRange(d, F) => \E f \in stored : Time[f] = begun[d].end * TickLength
         /\ InRange(d, F) => F \subseteq Due(d, stored)
<1>1. \A f \in F : f \in stored /\ (f \in Due(d, stored) \/ Time[f] = begun[d].end * TickLength)
  BY WindowIs
<1> QED
  BY <1>1 DEF InRange, Due

\* Statistics that fail.
LEMMA StatsFail ==
  ASSUME ApiInv, NEW d \in Clients, req[d].op = "stats", Answer(d, "failed", {}, {}),
         \/ ~(IsDate(req[d].lo) /\ IsDate(begun[d].end))
         \/ \E f \in stored : Time[f] = begun[d].end * TickLength
  PROVE  ApiInv'
<1>1. /\ reply'[d] = [status |-> "failed", rows |-> {}, items |-> {}]
      /\ req'[d] = req[d] /\ begun'[d] = begun[d] /\ UNCHANGED <<stored, indexed, items, tagTable>>
  BY AnswerIs
<1>2. Known(d)' /\ Agree(d)' /\ Whole(d)'
  BY <1>1 DEF Known, Agree, Whole, IsDate
<1>3. [status |-> "failed", rows |-> {}, items |-> {}] \in Replies
  BY DEF Replies
<1> QED
  BY <1>2, <1>3, AnswerKeeps

\* Ticks beyond the times that datetime has.
LEMMA StatsOverflowKeeps ==
  ASSUME ApiInv, NEW d \in Clients, StatsOverflow(d)
  PROVE  ApiInv'
<1>1. req[d].op = "stats" /\ Answer(d, "failed", {}, {})
  BY DEF StatsOverflow, ApiInv, ClientInv, StageInv
<1>2. ~(IsDate(req[d].lo) /\ IsDate(begun[d].end))
  BY DEF StatsOverflow
<1> QED
  BY <1>1, <1>2, StatsFail

\* The first count.
LEMMA StatsCountKeeps ==
  ASSUME ApiInv, NEW d \in Clients, StatsCount(d)
  PROVE  ApiInv'
<1>1. pc[d] = "stats" /\ req[d].op = "stats" /\ reply[d] = NoAnswer
  BY DEF StatsCount, ApiInv, ClientInv, StageInv
<1>2. PICK F : F = Window(req[d].lo, begun[d].end)
  OBVIOUS
<1>3. CASE InRange(d, F)
  <2> DEFINE rowOf(f) == [flow |-> f, row |-> TRUE, tags |-> {}]
  <2>1. PICK rows : rows = {rowOf(f) : f \in F}
    OBVIOUS
  <2>2. Continue(d, "statsTags", rows)
    BY <1>2, <1>3, <2>1 DEF StatsCount
  <2>3. F = Due(d, stored) /\ F \subseteq Flows
    <3>1. F \subseteq stored /\ Due(d, stored) \subseteq F
      BY <1>2, WindowIs
    <3>2. F \subseteq Due(d, stored)
      BY <1>2, <1>3, OutOfRange
    <3> QED
      BY <3>1, <3>2 DEF ApiInv, TableInv
  <2>4. \A f \in F : rowOf(f) \in Rows /\ rowOf(f).flow = f
    BY <2>3 DEF Rows
  <2> HIDE DEF rowOf
  <2>5. rows \in SUBSET Rows /\ Flowing(rows) = F
    BY <2>1, <2>4 DEF Flowing
  <2>6. /\ found'[d] = rows /\ pc'[d] = "statsTags"
        /\ req'[d] = req[d] /\ begun'[d] = begun[d] /\ reply'[d] = reply[d]
        /\ UNCHANGED <<stored, indexed, items, tagTable>>
    BY <2>2, ContinueIs
  <2>7. Due(d, There(d)) \subseteq F
    BY <2>3 DEF Due, There, ApiInv, ClientInv, StageInv
  <2>8. StageInv(d)' /\ QueryInv(d)' /\ DetailInv(d)'
    BY <1>1, <2>6 DEF StageInv, QueryInv, DetailInv, ApiInv, ClientInv
  <2>9. StatsInv(d)'
    BY <2>3, <2>5, <2>6, <2>7 DEF StatsInv, Due, There
  <2> QED
    BY <1>1, <2>2, <2>5, <2>8, <2>9, ContinueKeeps DEF Stages
<1>4. CASE ~InRange(d, F)
  <2>1. Answer(d, "failed", {}, {})
    BY <1>2, <1>4 DEF StatsCount
  <2> QED
    BY <1>1, <1>2, <1>4, <2>1, OutOfRange, StatsFail
<1> QED
  BY <1>3, <1>4

\* The count of the tags.
LEMMA StatsTagsKeeps ==
  ASSUME ApiInv, NEW d \in Clients, StatsTags(d)
  PROVE  ApiInv'
<1>1. /\ pc[d] = "statsTags" /\ req[d].op = "stats" /\ found[d] \subseteq Rows
      /\ Due(d, There(d)) \subseteq Flowing(found[d])
      /\ Flowing(found[d]) \subseteq Due(d, stored)
  BY DEF StatsTags, ApiInv, ClientInv, StageInv, StatsInv
<1>2. PICK F : F = {f \in Window(req[d].lo, begun[d].end) : tags[f] \cap tagTable \cap Counted # {}}
  OBVIOUS
<1>3. CASE InRange(d, F)
  <2>1. PICK rows : rows = found[d]
    OBVIOUS
  <2>2. Answer(d, "ok", rows, {})
    BY <1>2, <1>3, <2>1 DEF StatsTags
  <2>3. /\ reply'[d] = [status |-> "ok", rows |-> rows, items |-> {}]
        /\ req'[d] = req[d] /\ begun'[d] = begun[d] /\ UNCHANGED <<stored, indexed, items, tagTable>>
    BY <2>2, AnswerIs
  <2>4. reply'[d].rows = rows /\ reply'[d].status = "ok"
    BY <2>3
  <2>5. Whole(d)'
    BY <1>1, <2>1, <2>3, <2>4 DEF Whole, Due, There
  <2>6. Known(d)' /\ Agree(d)'
    BY <1>1, <2>3, <2>4 DEF Known, Agree
  <2>7. [status |-> "ok", rows |-> rows, items |-> {}] \in Replies
    BY <1>1, <2>1 DEF Replies
  <2> QED
    BY <2>2, <2>5, <2>6, <2>7, AnswerKeeps
<1>4. CASE ~InRange(d, F)
  <2>1. Answer(d, "failed", {}, {})
    BY <1>2, <1>4 DEF StatsTags
  <2>2. F \in SUBSET Window(req[d].lo, begun[d].end)
    BY <1>2
  <2> QED
    BY <1>1, <1>4, <2>1, <2>2, OutOfRange, StatsFail
<1> QED
  BY <1>3, <1>4

LEMMA NextApi ==
  ASSUME ApiInv, [Next]_vars
  PROVE  ApiInv'
<1>1. CASE UNCHANGED vars
  BY <1>1, WriterKeeps DEF vars, requests, tables, ApiInv, TableInv
<1>2. CASE Write
  BY <1>2, WriteKeeps
<1>3. ASSUME NEW c \in Clients, Begin(c) \/ Serve(c) PROVE ApiInv'
  <2>1. CASE PoolTimeout(c)
    BY <2>1, OtherAnswer DEF PoolTimeout
  <2> QED
    BY <1>3, <2>1, BeginKeeps, ConnectKeeps, QueryFlowsKeeps, QueryRefusedKeeps,
       QueryTagsKeeps, DetailFlowKeeps, DetailItemsKeeps, DetailTagsKeeps, SetStarKeeps,
       StatsOverflowKeeps, StatsCountKeeps, StatsTagsKeeps DEF Serve
<1> QED
  BY <1>1, <1>2, <1>3 DEF Next

LEMMA SpecApi == Spec => []ApiInv
  BY InitApi, NextApi, PTL DEF Spec

--------------------------------------------------------------------------------
(* The results. *)

\* Type correctness: among others, only a flow with a row has tags, and it has items.
THEOREM ApiTypeCorrectness == Spec => []TypeOK
<1>1. ApiInv => TypeOK
  <2> SUFFICES ASSUME ApiInv PROVE TypeOK
    OBVIOUS
  <2>1. ASSUME NEW c \in Clients
        PROVE  /\ \A x \in found[c] \cup reply[c].rows : x.flow \in Flows /\ x.tags \subseteq AllTags
               /\ reply[c].status \in {"none", "ok", "missing", "failed", "busy"}
               /\ begun[c] \in [stored : SUBSET Flows, indexed : SUBSET Flows, end : Int]
    <3>1. found[c] \subseteq Rows \cup ItemRows /\ reply[c] \in Replies /\ begun[c] \in Begun
      BY DEF ApiInv, ClientTypes
    <3>2. \A x \in Rows \cup ItemRows : x.flow \in Flows /\ x.tags \subseteq AllTags
      BY DEF Rows, ItemRows
    <3>3. reply[c].rows \subseteq Rows /\ reply[c].status \in {"none", "ok", "missing", "failed", "busy"}
      BY <3>1 DEF Replies
    <3> QED
      BY <3>1, <3>2, <3>3 DEF Begun
  <2> QED
    BY <2>1 DEF ApiInv, TableInv, ClientTypes, TypeOK, Stages
<1> QED
  BY <1>1, SpecApi, PTL

\* A request with a connection fails for its own values (database.py:183, 294-295), in a text
\* search that meets a flow without a row (192, 226) and for a flow in the first microsecond
\* after the statistics (316): for nothing that writers or other requests do besides.
THEOREM OnlyKnownFailures == Spec => []FailuresAreKnown
<1>1. ApiInv => FailuresAreKnown
  BY DEF ApiInv, ClientInv, Known, FailuresAreKnown, IsDate
<1> QED
  BY <1>1, SpecApi, PTL

\* The three statements of a flow's details see different states, and agree
\* (database.py:230-269).
THEOREM DetailsNeverDisagree == Spec => []DetailsAgree
<1>1. ApiInv => DetailsAgree
  BY DEF ApiInv, TableInv, ClientInv, Agree, DetailsAgree
<1> QED
  BY <1>1, SpecApi, PTL

\* An answer leaves out nothing that was there when its request began (database.py:136-221,
\* 287-320).
THEOREM NothingIsLeftOut == Spec => []AnswersAreWhole
<1>1. ApiInv => AnswersAreWhole
  <2> SUFFICES ASSUME ApiInv, NEW c \in Clients, reply[c].status = "ok"
               PROVE  LET r == req[c]
                          shown == {x.flow : x \in reply[c].rows}
                          there == IF r.op = "query" /\ r.regex THEN begun[c].stored \cap begun[c].indexed
                                                               ELSE begun[c].stored
                      IN  /\ r.op = "query" =>
                               /\ shown \subseteq stored /\ Cardinality(shown) <= Limit
                               /\ r.want = {} /\ r.avoid = {} /\ Cardinality(shown) < Limit =>
                                    {f \in there : r.bounded => Time[f] \in r.lo .. r.hi} \subseteq shown
                          /\ r.op = "stats" =>
                               LET due(F) == {f \in F : TickOf(f) \in r.lo .. begun[c].end - 1}
                               IN  due(there) \subseteq shown /\ shown \subseteq due(stored)
    BY DEF AnswersAreWhole
  <2>1. Whole(c)
    BY DEF ApiInv, ClientInv
  <2> QED
    BY <2>1 DEF Whole, Complete, There, Due, Flowing
<1> QED
  BY <1>1, SpecApi, PTL

\* Users and the enricher write one column, and neither undoes what the other does
\* (database.py:271-285).
THEOREM StarsKeepMarks == Spec => StarsAndMarks
<1> DEFINE Step ==
      \A f \in stored :
          /\ tags[f] \ {"starred"} \subseteq tags'[f]
          /\ ("starred" \in tags[f]) # ("starred" \in tags'[f]) =>
                \E c \in Clients : /\ pc[c] = "star" /\ pc'[c] = "idle" /\ req[c].flow = f
                                  /\ req[c].star = ("starred" \in tags'[f])
<1>1. ASSUME ApiInv, Next PROVE Step \/ UNCHANGED vars
  <2>1. CASE tags' = tags
    BY <2>1
  <2>2. ASSUME NEW g \in Flows, StoreFlow(g) PROVE Step
    BY <1>1, <2>2 DEF StoreFlow, ApiInv, TableInv
  <2>3. ASSUME NEW g \in Flows, NEW t \in Tags, MarkFlow(g, t) PROVE Step
    BY <1>1, <2>3, FlowApiAssumption DEF MarkFlow, ApiInv, TableInv
  <2>4. ASSUME NEW d \in Clients, SetStar(d) PROVE Step
    <3>1. req[d] \in Requests /\ req[d].flow \in Flows /\ req[d].star \in BOOLEAN
      BY <1>1, FlowApiAssumption DEF ApiInv, ClientTypes, Request
    <3>2. pc[d] = "star" /\ pc'[d] = "idle"
      BY <1>1, <2>4 DEF SetStar, ApiInv, ClientTypes
    <3>3. CASE req[d].flow \notin stored
      BY <2>4, <3>3 DEF SetStar
    <3>4. CASE req[d].flow \in stored
      <4>1. tags' = [tags EXCEPT ![req[d].flow] = flow_tag(req[d].flow, req[d].star)]
        BY <2>4, <3>4 DEF SetStar
      <4>2. SUFFICES ASSUME NEW f \in stored
                     PROVE  /\ tags[f] \ {"starred"} \subseteq tags'[f]
                            /\ ("starred" \in tags[f]) # ("starred" \in tags'[f]) =>
                                 f = req[d].flow /\ req[d].star = ("starred" \in tags'[f])
        BY <3>2
      <4>3. CASE f # req[d].flow
        BY <1>1, <4>1, <4>3 DEF ApiInv, TableInv
      <4>4. CASE f = req[d].flow
        <5>1. tags'[f] = IF req[d].star THEN tags[f] \cup {"starred"} ELSE tags[f] \ {"starred"}
          BY <1>1, <3>1, <4>1, <4>4 DEF flow_tag, ApiInv, TableInv
        <5>2. CASE req[d].star
          BY <4>4, <5>1, <5>2
        <5>3. CASE ~req[d].star
          BY <3>1, <4>4, <5>1, <5>3
        <5> QED
          BY <5>2, <5>3
      <4> QED
        BY <4>3, <4>4
    <3> QED
      BY <3>3, <3>4
  <2>5. tags' = tags \/ (\E g \in Flows : StoreFlow(g) \/ \E t \in Tags : MarkFlow(g, t))
          \/ \E d \in Clients : SetStar(d)
    BY <1>1 DEF Next, Write, StoreIndex, StoreItems, ListTag, Begin, Serve, Connect, PoolTimeout,
       QueryFlows, QueryRefused, QueryTags, DetailFlow, DetailItems, DetailTags,
       StatsOverflow, StatsCount, StatsTags,
       Answer, Continue, tables
  <2> QED
    BY <2>1, <2>2, <2>3, <2>4, <2>5
<1>2. ApiInv /\ [Next]_vars => [Step]_vars
  BY <1>1
<1> QED
  BY <1>2, SpecApi, PTL DEF Spec, StarsAndMarks

--------------------------------------------------------------------------------
(* The tables under the requests are a FlowCatalog. *)

\* A row in the flow table makes its items appear.
LEMMA StoredFlowAppears ==
  ASSUME ApiInv, NEW g \in Flows, StoreFlow(g)
  PROVE  Catalog!CatalogNext
<1>1. /\ items[g] # {} /\ g \notin stored /\ stored' = stored \cup {g} /\ items' = items
  BY DEF StoreFlow
<1>2. items \in [Flows -> SUBSET UNION {ItemTimes[f] : f \in Flows}]
  BY DEF ApiInv, TableInv
<1>3. shownItems' = [f \in Flows |-> IF f \in {g} THEN items[f] ELSE shownItems[f]]
  <2>1. ASSUME NEW f \in Flows
        PROVE  (IF f \in stored' THEN items'[f] ELSE {})
                  = IF f \in {g} THEN items[f] ELSE IF f \in stored THEN items[f] ELSE {}
    BY <1>1
  <2> QED
    BY <2>1 DEF shownItems
<1>4. Catalog!Appear({g}, items)
  BY <1>1, <1>3 DEF Catalog!Appear, shownItems
<1>5. \A f \in {g} : items[f] \subseteq ItemTimes[f]
  BY DEF ApiInv, TableInv
<1> QED
  BY <1>2, <1>4, <1>5 DEF Catalog!CatalogNext

\* Items show with their flow's row only, and only then.
LEMMA NothingElseShows ==
  ASSUME ApiInv, stored' = stored, \A f \in stored : items'[f] = items[f]
  PROVE  shownItems' = shownItems
  BY DEF shownItems

\* The writers and the requests keep the promise to readers that FlowStore keeps: a flow
\* appears at once, with an item, and never changes (db.go:362-401, database.py:271-285).
THEOREM ApiKeepsTheCatalog == Spec => WritersKeepTheCatalog
<1>1. Init => Catalog!CatalogInit
  BY DEF Init, Catalog!CatalogInit, shownItems
<1>2. ASSUME ApiInv, [Next]_vars PROVE [Catalog!CatalogNext]_shownItems
  <2>1. CASE UNCHANGED vars
    BY <1>2, <2>1, NothingElseShows DEF vars
  <2>2. ASSUME NEW f \in Flows, StoreIndex(f) \/ \E t \in Tags : MarkFlow(f, t)
        PROVE  shownItems' = shownItems
    BY <1>2, <2>2, NothingElseShows DEF StoreIndex, MarkFlow
  <2>3. ASSUME NEW f \in Flows, StoreItems(f) PROVE shownItems' = shownItems
    <3>1. f \notin stored /\ stored' = stored /\ \A g \in stored : items'[g] = items[g]
      BY <1>2, <2>3 DEF StoreItems, ApiInv, TableInv
    <3> QED
      BY <1>2, <3>1, NothingElseShows
  <2>4. ASSUME NEW f \in Flows, StoreFlow(f) PROVE Catalog!CatalogNext
    BY <1>2, <2>4, StoredFlowAppears
  <2>5. ASSUME NEW t \in Tags, ListTag(t) PROVE shownItems' = shownItems
    BY <1>2, <2>5, NothingElseShows DEF ListTag
  <2>6. ASSUME NEW c \in Clients, Begin(c) \/ Serve(c) PROVE shownItems' = shownItems
    <3>1. UNCHANGED <<stored, items>>
      BY <2>6 DEF Begin, Serve, Connect, PoolTimeout, QueryFlows, QueryTags, DetailFlow,
         DetailItems, DetailTags, SetStar, QueryRefused, StatsOverflow, StatsCount, StatsTags, Answer, Continue, tables
    <3> QED
      BY <1>2, <3>1, NothingElseShows
  <2> QED
    BY <1>2, <2>1, <2>2, <2>3, <2>4, <2>5, <2>6 DEF Next, Write
<1> QED
  BY <1>1, <1>2, SpecApi, PTL DEF Spec, WritersKeepTheCatalog, Catalog!CatalogSpec

================================================================================
