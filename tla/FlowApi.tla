-------------------------------- MODULE FlowApi --------------------------------
(***************************************************************************)
(* The web API (api/webservice.py, api/database.py): threads that answer   *)
(* requests over a pool of connections, while the assembler stores flows   *)
(* and the enricher marks them.                                            *)
(*                                                                         *)
(* A request is several statements, each of which sees what is committed   *)
(* when it begins (PostgreSQL's READ COMMITTED): a list of flows is the    *)
(* flows and then the tags, one flow is its row, its items and then the    *)
(* tags, statistics are two counts.  The writers store a flow's index rows *)
(* and items in any order and its row after the items (FlowStore); a flow  *)
(* may stay without a row for good.                                        *)
(***************************************************************************)
EXTENDS Integers, FiniteSets

CONSTANTS Flows,        \* flows that are stored, or not
          Time,         \* Time[f]: when flow f began, in the database's microseconds
          ItemTimes,    \* ItemTimes[f]: the times of the items of flow f, Time[f] the first
          Tags,         \* tags other than "starred"
          Counted,      \* tags that statistics count
          Clients,      \* concurrent requests
          Requests,     \* what may be asked
          Limit,        \* FlowQuery.limit
          PoolSize,     \* connections in the pool
          TickLength,   \* configurations.tick_length, in microseconds
          Earliest,     \* the first and the last time that datetime has
          Latest,
          Nows,         \* ticks the clock may be in when a request looks at it
          MaxRequests   \* bound: requests

AllTags == Tags \cup {"starred"}

\* A request.  lo, hi: time_from and time_to of a query, a time before everything and one
\* after everything if they are not given; tick_from and tick_to of statistics, 0 if they
\* are not given.  bounded: whether a query gives either.  refused: it gives a value that
\* passes webservice.py and not the database (a regular expression that Python compiles and
\* PostgreSQL does not, a port that is no number).  want, avoid: tags_include and
\* tags_exclude, both: tag_intersection_and.  flow: the id in /flow, /star and the exports;
\* star: what to set.
Request == [op : {"query", "detail", "star", "stats"}, regex : BOOLEAN, refused : BOOLEAN,
            bounded : BOOLEAN, lo : Int, hi : Int, want : SUBSET AllTags,
            avoid : SUBSET AllTags, both : BOOLEAN, flow : Flows, star : BOOLEAN]

ASSUME FlowApiAssumption ==
    /\ Time \in [Flows -> Nat]
    /\ \A f \in Flows : /\ Time[f] \in ItemTimes[f]
                        /\ \A t \in ItemTimes[f] : t \in Nat /\ t >= Time[f]
                        /\ \E last \in ItemTimes[f] : \A t \in ItemTimes[f] : t <= last
    /\ "starred" \notin Tags /\ Counted \subseteq Tags /\ IsFiniteSet(Flows)
    /\ Requests \subseteq Request /\ Requests # {}
    /\ Limit \in Nat \ {0} /\ PoolSize \in Nat \ {0} /\ TickLength \in Nat \ {0}
    /\ Earliest \in Int /\ Latest \in Int
    /\ Nows \subseteq Nat /\ Nows # {} /\ MaxRequests \in Nat

VARIABLES indexed,      \* flows with rows in flow_index
          items,        \* items[f]: the times of f's rows in flow_item
          stored,       \* flows with a row in flow
          tags,         \* tags[f]: the tags column of f's row
          tagTable,     \* names in the tag table
          pc,           \* where each client's request is
          req,          \* the request
          found,        \* what the statements before have found
          reply,        \* the last answer of each client
          begun,        \* what held when the request got its connection
          asked         \* requests so far

vars == <<indexed, items, stored, tags, tagTable, pc, req, found, reply, begun, asked>>
tables == <<indexed, items, stored, tags, tagTable>>

NotBegun == [stored |-> {}, indexed |-> {}, end |-> 0]
NoAnswer == [status |-> "none", rows |-> {}, items |-> {}]

Init == /\ indexed = {} /\ stored = {}
        /\ items = [f \in Flows |-> {}]
        /\ tags = [f \in Flows |-> {}]
        /\ tagTable = {"starred"}
        /\ pc = [c \in Clients |-> "idle"]
        /\ req = [c \in Clients |-> CHOOSE r \in Requests : TRUE]
        /\ found = [c \in Clients |-> {}]
        /\ reply = [c \in Clients |-> NoAnswer]
        /\ begun = [c \in Clients |-> NotBegun]
        /\ asked = 0
--------------------------------------------------------------------------------
(* The writers. *)

requests == <<pc, req, found, reply, begun, asked>>

StoreIndex(f) == /\ f \notin indexed
                 /\ indexed' = indexed \cup {f}
                 /\ UNCHANGED <<items, stored, tags, tagTable, requests>>

\* The callbacks of all items have come; not all of them were errors.
StoreItems(f) == /\ items[f] = {}
                 /\ \E some \in SUBSET ItemTimes[f] \ {{}} : items' = [items EXCEPT ![f] = some]
                 /\ UNCHANGED <<indexed, stored, tags, tagTable, requests>>

\* The flow's row, with the tags it was assembled with.
StoreFlow(f) == /\ items[f] # {} /\ f \notin stored
                /\ stored' = stored \cup {f}
                /\ \E T \in SUBSET Tags : tags' = [tags EXCEPT ![f] = T]
                /\ UNCHANGED <<indexed, items, tagTable, requests>>

\* The enricher adds a tag to a row.
MarkFlow(f, t) == /\ f \in stored /\ t \notin tags[f]
                  /\ tags' = [tags EXCEPT ![f] = tags[f] \cup {t}]
                  /\ UNCHANGED <<indexed, items, stored, tagTable, requests>>

\* A tag that flows carry is added to the table some time.
ListTag(t) == /\ t \notin tagTable /\ \E f \in Flows : t \in tags[f]
              /\ tagTable' = tagTable \cup {t}
              /\ UNCHANGED <<indexed, items, stored, tags, requests>>

Write == \/ \E f \in Flows : StoreIndex(f) \/ StoreItems(f) \/ StoreFlow(f)
                             \/ \E t \in Tags : MarkFlow(f, t)
         \/ \E t \in Tags : ListTag(t)
--------------------------------------------------------------------------------
(* Requests. *)

\* Clients whose thread holds a connection.
Connected == {c \in Clients : pc[c] \notin {"idle", "wait"}}

\* A thread takes the request on.
Begin(c) == /\ pc[c] = "idle" /\ asked < MaxRequests
            /\ \E r \in Requests : req' = [req EXCEPT ![c] = r]
            /\ pc' = [pc EXCEPT ![c] = "wait"]
            /\ asked' = asked + 1
            /\ reply' = [reply EXCEPT ![c] = NoAnswer]
            /\ begun' = [begun EXCEPT ![c] = NotBegun]
            /\ UNCHANGED <<tables, found>>

\* The tick stats_query ends with: 0 counts as not given.
TickEnds(r) == IF r.op # "stats" \/ r.hi # 0 THEN {r.hi} ELSE {now + 1 : now \in Nows}
TickOf(f) == Time[f] \div TickLength

\* with db.connection() as c; statistics look at the clock next.
Connect(c) == /\ pc[c] = "wait" /\ Cardinality(Connected) < PoolSize
              /\ pc' = [pc EXCEPT ![c] = req[c].op]
              /\ \E end \in TickEnds(req[c]) :
                   begun' = IF req[c].op \in {"detail", "star"} THEN begun
                            ELSE [begun EXCEPT ![c] = [stored |-> stored, indexed |-> indexed, end |-> end]]
              /\ UNCHANGED <<tables, req, found, reply, asked>>

\* The answer, or the exception that becomes a 500; the connection goes back either way.
Answer(c, status, rows, shown) ==
    /\ reply' = [reply EXCEPT ![c] = [status |-> status, rows |-> rows, items |-> shown]]
    /\ pc' = [pc EXCEPT ![c] = "idle"]
    /\ found' = [found EXCEPT ![c] = {}]
    /\ UNCHANGED <<tables, req, begun, asked>>

\* Another statement follows.
Continue(c, stage, rows) ==
    /\ found' = [found EXCEPT ![c] = rows]
    /\ pc' = [pc EXCEPT ![c] = stage]
    /\ UNCHANGED <<tables, req, reply, begun, asked>>

\* PoolTimeout: no connection became free.
PoolTimeout(c) == /\ pc[c] = "wait" /\ Cardinality(Connected) = PoolSize
                  /\ Answer(c, "busy", {}, {})

\* The rows of the first statement of flow_query: of the flow table, or for a regular
\* expression one for each flow that the index has, empty if the flow is not there.
Candidates(r) == IF r.regex THEN indexed ELSE stored

\* The conditions on f.*, all of which an empty row fails.
Unconditional(r) == ~r.bounded /\ r.want = {} /\ r.avoid = {}

\* Meets with bounds that are themselves left out.
MeetsWithin(r, f) ==
    /\ r.bounded => r.lo < Time[f] /\ Time[f] < r.hi
    /\ r.want # {} => IF r.both THEN r.want \subseteq tags[f] ELSE r.want \cap tags[f] # {}
    /\ r.avoid \cap tags[f] = {}
Meets(r, f) == /\ r.bounded => r.lo <= Time[f] /\ Time[f] <= r.hi
               /\ r.want # {} => IF r.both THEN r.want \subseteq tags[f] ELSE r.want \cap tags[f] # {}
               /\ r.avoid \cap tags[f] = {}
Matches(r) == {f \in Candidates(r) : (f \in stored /\ Meets(r, f)) \/ (f \notin stored /\ Unconditional(r))}

\* LIMIT takes any of them: nothing orders the outer select.
QueryFlows(c) ==
    /\ pc[c] = "query"
    /\ LET hits == Matches(req[c]) IN
       \E F \in SUBSET hits :
          /\ Cardinality(F) = Limit \/ (Cardinality(hits) < Limit /\ F = hits)
          /\ Continue(c, "queryTags", {[flow |-> f, row |-> f \in stored, tags |-> tags[f]] : f \in F})
    \* An expression that is refused need not be noticed without a text to try it on.
    /\ req[c].refused => req[c].regex /\ indexed = {}

\* PostgreSQL refuses a value: the statement raises, and nothing catches it.
QueryRefused(c) == /\ pc[c] = "query" /\ req[c].refused
                   /\ Answer(c, "failed", {}, {})

\* tag_list, and the filter that asks each row for each name of the tag table: an empty row
\* has no list to look in.
QueryTags(c) ==
    /\ pc[c] = "queryTags"
    /\ IF (\E x \in found[c] : ~x.row) /\ tagTable # {}
         THEN Answer(c, "failed", {}, {})
         ELSE Answer(c, "ok", {[x EXCEPT !.tags = x.tags \cap tagTable] : x \in found[c]}, {})

\* flow_detail, which /flow and the exports call.
DetailFlow(c) ==
    /\ pc[c] = "detail"
    /\ LET f == req[c].flow IN
       IF f \in stored THEN Continue(c, "detailItems", {[flow |-> f, row |-> TRUE, tags |-> tags[f]]})
                       ELSE Answer(c, "missing", {}, {})

\* flow_item_query that would leave out the last instant.
flow_item_queryBefore(f) ==
    LET end == CHOOSE t \in ItemTimes[f] : \A u \in ItemTimes[f] : u <= t
    IN  {t \in items[f] : Time[f] <= t /\ t < end}

\* flow_item_query: the items from the flow's time to the end of its duration.
flow_item_query(f) ==
    LET end == CHOOSE t \in ItemTimes[f] : \A u \in ItemTimes[f] : u <= t
    IN  {t \in items[f] : Time[f] <= t /\ t <= end}

DetailItems(c) == /\ pc[c] = "detailItems"
                  /\ Continue(c, "detailTags",
                              {[flow |-> x.flow, row |-> TRUE, tags |-> x.tags,
                                items |-> flow_item_query(x.flow)] : x \in found[c]})

DetailTags(c) == /\ pc[c] = "detailTags"
                 /\ \E x \in found[c] :
                      Answer(c, "ok", {[flow |-> x.flow, row |-> TRUE, tags |-> x.tags \cap tagTable]},
                             x.items)

\* flow_tag that would write the column it has read before the enricher's mark.
flow_tagOverwrites(f, apply) == IF apply THEN {"starred"} ELSE {}

\* flow_tag: the new value of the tags column, computed by the UPDATE itself.
flow_tag(f, apply) == IF apply THEN tags[f] \cup {"starred"} ELSE tags[f] \ {"starred"}

\* An update that would make the row it does not find.
SetStarUpserts(c) ==
    /\ pc[c] = "star"
    /\ LET f == req[c].flow IN tags' = [tags EXCEPT ![f] = flow_tag(f, req[c].star)]
    /\ reply' = [reply EXCEPT ![c] = [status |-> "ok", rows |-> {}, items |-> {}]]
    /\ pc' = [pc EXCEPT ![c] = "idle"]
    /\ UNCHANGED <<indexed, items, stored, tagTable, req, found, begun, asked>>

\* The update finds no row of a flow that is not stored, and the answer is the same.
SetStar(c) ==
    /\ pc[c] = "star"
    /\ LET f == req[c].flow IN
       tags' = IF f \in stored THEN [tags EXCEPT ![f] = flow_tag(f, req[c].star)] ELSE tags
    /\ reply' = [reply EXCEPT ![c] = [status |-> "ok", rows |-> {}, items |-> {}]]
    /\ pc' = [pc EXCEPT ![c] = "idle"]
    /\ UNCHANGED <<indexed, items, stored, tagTable, req, found, begun, asked>>

\* Window of a reader that would ask for the end of the last tick.
WindowOfWholeTicks(start, end) ==
    {f \in stored : start * TickLength <= Time[f] /\ Time[f] <= (end + 1) * TickLength}

\* The flows between the two ids, each of which takes in its whole microsecond.
Window(start, end) == {f \in stored : start * TickLength <= Time[f] /\ Time[f] <= end * TickLength}

\* The ticks of the rows must be members of range(tick_start, tick_end).
InRange(c, F) == \A f \in F : TickOf(f) \in req[c].lo .. begun[c].end - 1

\* tick_first plus so many ticks is a time that datetime has.
IsDate(tick) == Earliest <= tick * TickLength /\ tick * TickLength <= Latest

\* OverflowError, with the connection in hand and before any statement.
StatsOverflow(c) == /\ pc[c] = "stats" /\ ~(IsDate(req[c].lo) /\ IsDate(begun[c].end))
                    /\ Answer(c, "failed", {}, {})

\* The two counts: the flows, and the flows with each tag of the table, of which only
\* those with a column of their own look at their tick.
StatsCount(c) ==
    /\ pc[c] = "stats" /\ IsDate(req[c].lo) /\ IsDate(begun[c].end)
    /\ LET F == Window(req[c].lo, begun[c].end) IN
       IF InRange(c, F)
         THEN Continue(c, "statsTags", {[flow |-> f, row |-> TRUE, tags |-> {}] : f \in F})
         ELSE Answer(c, "failed", {}, {})

StatsTags(c) ==
    /\ pc[c] = "statsTags"
    /\ LET F == {f \in Window(req[c].lo, begun[c].end) : tags[f] \cap tagTable \cap Counted # {}} IN
       IF InRange(c, F) THEN Answer(c, "ok", found[c], {}) ELSE Answer(c, "failed", {}, {})

Serve(c) == \/ Connect(c) \/ PoolTimeout(c)
            \/ QueryFlows(c) \/ QueryRefused(c) \/ QueryTags(c)
            \/ DetailFlow(c) \/ DetailItems(c) \/ DetailTags(c)
            \/ SetStar(c)
            \/ StatsOverflow(c) \/ StatsCount(c) \/ StatsTags(c)

Next == Write \/ \E c \in Clients : Begin(c) \/ Serve(c)

Spec == Init /\ [][Next]_vars
--------------------------------------------------------------------------------
TypeOK ==
    /\ indexed \subseteq Flows /\ stored \subseteq Flows /\ tagTable \subseteq AllTags
    /\ items \in [Flows -> SUBSET Nat] /\ tags \in [Flows -> SUBSET AllTags]
    /\ \A f \in Flows : /\ items[f] \subseteq ItemTimes[f]
                        /\ IF f \in stored THEN items[f] # {} ELSE tags[f] = {}
    /\ asked \in 0..MaxRequests
    /\ pc \in [Clients -> {"idle", "wait", "query", "queryTags", "detail", "detailItems",
                           "detailTags", "star", "stats", "statsTags"}]
    /\ req \in [Clients -> Requests]
    /\ \A c \in Clients : /\ \A x \in found[c] \cup reply[c].rows : x.flow \in Flows /\ x.tags \subseteq AllTags
                          /\ reply[c].status \in {"none", "ok", "missing", "failed", "busy"}
                          /\ begun[c] \in [stored : SUBSET Flows, indexed : SUBSET Flows, end : Int]

\* Whatever the writers do meanwhile, a request with a connection, to a database that works,
\* fails only for its own values, which PostgreSQL or datetime refuses, and for one of two
\* states of the tables: a text search without another condition met a flow that is indexed
\* and not stored, or a flow began in the very microsecond in which the last tick of the
\* statistics ends.
FailuresAreKnown ==
    \A c \in Clients : reply[c].status = "failed" =>
        \/ /\ req[c].op = "query"
           /\ \/ req[c].refused
              \/ req[c].regex /\ Unconditional(req[c]) /\ ~(indexed \subseteq begun[c].stored)
        \/ /\ req[c].op = "stats"
           /\ \/ ~(IsDate(req[c].lo) /\ IsDate(begun[c].end))
              \/ \E f \in stored : Time[f] = begun[c].end * TickLength

\* A flow that is shown has items, and shows all it will ever have: the details read in
\* three statements, while it was stored, are what anybody reads of it later.
DetailsAgree ==
    \A c \in Clients : reply[c].status = "ok" /\ req[c].op = "detail" =>
        reply[c].items # {} /\ reply[c].items = items[req[c].flow]

\* No answer leaves out what was there when it began.  A list that is shorter than the limit
\* has every such flow within its bounds (when tags are asked for, those may come and go);
\* statistics count every such flow of their ticks, and no other tick's.
AnswersAreWhole ==
    \A c \in Clients : reply[c].status = "ok" =>
        LET r == req[c]
            shown == {x.flow : x \in reply[c].rows}
            there == IF r.op = "query" /\ r.regex THEN begun[c].stored \cap begun[c].indexed
                                                 ELSE begun[c].stored
        IN  /\ r.op = "query" =>
                 /\ shown \subseteq stored /\ Cardinality(shown) <= Limit
                 /\ r.want = {} /\ r.avoid = {} /\ Cardinality(shown) < Limit =>
                      {f \in there : r.bounded => Time[f] \in r.lo .. r.hi} \subseteq shown
            /\ r.op = "stats" =>
                 LET due(F) == {f \in F : TickOf(f) \in r.lo .. begun[c].end - 1}
                 IN  due(there) \subseteq shown /\ shown \subseteq due(stored)

\* Stars and the enricher's marks are written to one column by programs that know nothing of
\* each other: no step takes a mark away, and only a request for a flow's star changes it.
StarsAndMarks ==
    [][\A f \in stored :
          /\ tags[f] \ {"starred"} \subseteq tags'[f]
          /\ ("starred" \in tags[f]) # ("starred" \in tags'[f]) =>
                \E c \in Clients : /\ pc[c] = "star" /\ pc'[c] = "idle" /\ req[c].flow = f
                                  /\ req[c].star = ("starred" \in tags'[f])]_vars

--------------------------------------------------------------------------------
(* The writers of this module keep to FlowCatalog, as FlowInsert does. *)

\* What a reader finds of each flow, by the join of flow and flow_item.
shownItems == [f \in Flows |-> IF f \in stored THEN items[f] ELSE {}]

Catalog == INSTANCE FlowCatalog WITH visible <- shownItems, ItemsOf <- ItemTimes

\* A flow appears at once, with an item, and never changes: requests that star a flow and
\* programs that mark it do not touch what it shows.
WritersKeepTheCatalog == Catalog!CatalogSpec
================================================================================
