-------------------------------- MODULE Enricher --------------------------------
(***************************************************************************)
(* The enricher (cmd/enricher/main.go) and the part of the database object *)
(* it uses (internal/pkg/db/db.go: FlowAddSignatures, FlowAddTags,         *)
(* SuricataIdFindFlow, KnownTagsUpsert, KnownTagsUpdate).                  *)
(*                                                                         *)
(* Suricata appends lines to eve.json while the enricher polls the file's  *)
(* size and reads on from the offset it keeps in memory.  For a line with  *)
(* an alert or flowbits it looks for the flow the line is about, first as  *)
(* the line names its ends, then the other way round, and leaves two       *)
(* updates of that flow's row and one note per tag to the worker pool.     *)
(* The assembler, another process, stores flows meanwhile.                 *)
(*                                                                         *)
(* Offsets and sizes are counted in lines; a line that is not yet complete *)
(* adds Part to the size.  The ends and the time of a line appear as the   *)
(* flows that SuricataIdFindFlow would match, stored or not.               *)
(***************************************************************************)
EXTENDS Naturals, Sequences, FiniteSets, Bags

CONSTANTS Flows,        \* flows the assembler may store
          Eve,          \* the lines Suricata will write, in order
          Tags,         \* names of tags
          Rules,        \* Suricata's rules
          ListedTags,   \* tags the schema puts into the tag table
          FlowTag,      \* the tag every flow is stored with ("tcp" or "udp")
          MaxCrashes,   \* bound: restarts of the enricher
          MaxErrors     \* bound: failed calls (open, stat, read, query, update)

Ways == {"straight", "swapped"}

\* What handleEveLine reads from a line.  action is "" when there is no alert; bits are
\* the flowbits, hasBits tells whether the field exists; match[w] are the flows that
\* have the line's ends in their order (straight) or exchanged, within the window.
EveLine == [valid    : BOOLEAN,
            rule     : Rules,
            action   : {"", "allowed", "blocked"},
            metadata : SUBSET Tags,
            hasBits  : BOOLEAN,
            bits     : SUBSET Tags,
            match    : [Ways -> SUBSET Flows]]

ASSUME EnricherAssumption ==
    /\ Eve \in Seq(EveLine)
    /\ IsFiniteSet(Tags) /\ IsFiniteSet(Rules) /\ IsFiniteSet(Flows)
    /\ {"suricata", "blocked", FlowTag} \subseteq Tags
    /\ ListedTags \subseteq Tags
    /\ MaxCrashes \in Nat /\ MaxErrors \in Nat

VARIABLES complete,     \* lines of eve.json that end in a newline
          partial,      \* whether a line without its newline follows them
          pc,           \* where watchEve is
          initial,      \* whether this is the scan before the loop
          ratchet,      \* lines that were handled
          prevSize,     \* the size seen by the last stat
          jobs,         \* updates submitted to the worker pool and not run yet
          stored,       \* flows whose row is in the flow table
          tags,         \* flow.tags, a bag
          signatures,   \* flow.signatures, a bag
          knownTags,    \* db.knownTags, the cache
          tagTable,     \* names in the tag table
          missed,       \* history: lines whose flow was not found when they were last read
          failed,       \* history: updates that failed and were not done since
          crashes, errors

vars == <<complete, partial, pc, initial, ratchet, prevSize, jobs, stored, tags,
          signatures, knownTags, tagTable, missed, failed, crashes, errors>>
file == <<complete, partial>>
reader == <<pc, initial, ratchet, prevSize>>
rows == <<stored, tags, signatures>>
names == <<knownTags, tagTable>>
history == <<missed, failed>>
bounds == <<crashes, errors>>

--------------------------------------------------------------------------------
(* What a line asks for. *)

\* The size os.Stat reports.
Size == 2 * complete + (IF partial THEN 1 ELSE 0)

HasAlert(n) == Eve[n].action # ""

\* Lines that are valid JSON and have an alert or flowbits; the others are skipped.
Acts(n) == Eve[n].valid /\ (HasAlert(n) \/ Eve[n].hasBits)

Matches(n) == Eve[n].match["straight"] \cup Eve[n].match["swapped"]

TagsOf(n) ==
    Eve[n].metadata
      \cup (IF HasAlert(n) THEN {"suricata"} ELSE {})
      \cup (IF Eve[n].action = "blocked" THEN {"blocked"} ELSE {})
      \cup Eve[n].bits

SignatureOf(n) == <<Eve[n].rule, Eve[n].action>>

\* FlowAddSignatures and FlowAddTags: what is submitted for line n and flow f.
UpdatesFor(n, f) ==
    {[kind |-> "tags", line |-> n, flow |-> f]}
      \cup (IF HasAlert(n) THEN {[kind |-> "signatures", line |-> n, flow |-> f]} ELSE {})

KnownFor(n) == {[kind |-> "known", tag |-> t] : t \in TagsOf(n)}

\* jsonb_unique that only passes its argument on.
JsonbUniqueKeepsAll(bag) == bag

\* jsonb_unique (schema/functions.sql).
JsonbUnique(bag) == SetToBag(BagToSet(bag))

\* Merge that puts the new marks in place of the column.
MergeOverwrites(bag, new) == SetToBag(new)

\* column || new, made unique.
Merge(bag, new) == JsonbUnique(bag (+) SetToBag(new))

--------------------------------------------------------------------------------

UpdateJobs == [kind : {"tags", "signatures"}, line : DOMAIN Eve, flow : Flows]
KnownJobs == [kind : {"known"}, tag : Tags]
Signatures == Rules \X {"allowed", "blocked"}

TypeOK ==
    /\ complete \in 0 .. Len(Eve) /\ partial \in BOOLEAN
    /\ pc \in {"start", "open", "read", "straight", "swapped", "stat", "sleep"}
    /\ initial \in BOOLEAN
    /\ ratchet \in 0 .. complete
    /\ prevSize \in 0 .. Size
    /\ pc \in Ways => ratchet < complete /\ Acts(ratchet + 1)
    /\ jobs \subseteq UpdateJobs \cup KnownJobs
    /\ stored \subseteq Flows
    /\ DOMAIN tags = Flows /\ DOMAIN signatures = Flows
    /\ \A f \in Flows : /\ IsABag(tags[f]) /\ BagToSet(tags[f]) \subseteq Tags
                        /\ IsABag(signatures[f]) /\ BagToSet(signatures[f]) \subseteq Signatures
    /\ knownTags \subseteq Tags /\ tagTable \subseteq Tags
    /\ missed \subseteq DOMAIN Eve /\ failed \subseteq UpdateJobs
    /\ crashes \in 0 .. MaxCrashes /\ errors \in 0 .. MaxErrors

Init ==
    /\ complete = 0 /\ partial = FALSE
    /\ pc = "start" /\ initial = TRUE /\ ratchet = 0 /\ prevSize = 0
    /\ jobs = {}
    /\ stored = {}
    /\ tags = [f \in Flows |-> EmptyBag]
    /\ signatures = [f \in Flows |-> EmptyBag]
    /\ knownTags = {} /\ tagTable = ListedTags
    /\ missed = {} /\ failed = {}
    /\ crashes = 0 /\ errors = 0

--------------------------------------------------------------------------------
(* Suricata and the assembler. *)

WritePart ==
    /\ complete < Len(Eve) /\ ~partial
    /\ partial' = TRUE
    /\ UNCHANGED <<complete, reader, jobs, rows, names, history, bounds>>

WriteLine ==
    /\ complete < Len(Eve)
    /\ complete' = complete + 1
    /\ partial' = FALSE
    /\ UNCHANGED <<reader, jobs, rows, names, history, bounds>>

\* The COPY that stores the flow row, from which on SuricataIdFindFlow finds it
\* (FlowStore!SettleRows).
StoreFlow(f) ==
    /\ f \notin stored
    /\ stored' = stored \cup {f}
    /\ tags' = [tags EXCEPT ![f] = SetToBag({FlowTag})]
    /\ UNCHANGED <<file, reader, jobs, signatures, names, history, bounds>>

--------------------------------------------------------------------------------
(* main and watchEve. *)

\* NewDatabase reads the tag table into the cache; watchEve begins at offset 0.
Start ==
    /\ pc = "start"
    /\ pc' = "open"
    /\ knownTags' = knownTags \cup tagTable
    /\ UNCHANGED <<file, initial, ratchet, prevSize, jobs, rows, tagTable, history, bounds>>

\* Crash of an enricher that would keep its offset somewhere safe.
CrashKeepsOffset ==
    /\ crashes < MaxCrashes
    /\ crashes' = crashes + 1
    /\ pc' = "start" /\ initial' = TRUE /\ prevSize' = 0
    /\ jobs' = {}
    /\ knownTags' = {}
    /\ UNCHANGED <<file, ratchet, rows, tagTable, history, errors>>

\* The process dies and is started again; only the database remains.
Crash ==
    /\ crashes < MaxCrashes
    /\ crashes' = crashes + 1
    /\ pc' = "start" /\ initial' = TRUE /\ ratchet' = 0 /\ prevSize' = 0
    /\ jobs' = {}
    /\ knownTags' = {}
    /\ UNCHANGED <<file, rows, tagTable, history, errors>>

\* A failed call, within the bound.
Fault == errors < MaxErrors /\ errors' = errors + 1

\* The stat after the initial scan: what was written between the two counts as seen.
InitialStat ==
    /\ pc = "stat"
    /\ pc' = "sleep" /\ initial' = FALSE
    /\ \/ prevSize' = Size /\ UNCHANGED errors
       \/ prevSize' = 0 /\ Fault
    /\ UNCHANGED <<file, ratchet, jobs, rows, names, history, crashes>>

\* One round of the loop that finds the file grown.  (A failed stat, or an unchanged
\* size, changes nothing; eve.json is never shortened.)
Poll ==
    /\ pc = "sleep"
    /\ Size > prevSize
    /\ pc' = "open"
    /\ prevSize' = Size
    /\ UNCHANGED <<file, initial, ratchet, jobs, rows, names, history, bounds>>

--------------------------------------------------------------------------------
(* updateEve. *)

Return == pc' = IF initial THEN "stat" ELSE "sleep"

OpenEve ==
    /\ pc = "open"
    /\ \/ pc' = "read" /\ UNCHANGED errors
       \/ Return /\ Fault
    /\ UNCHANGED <<file, initial, ratchet, prevSize, jobs, rows, names, history, crashes>>

\* ReadEnd that takes an incomplete line for the last one.
ReadEndTakesPart ==
    /\ pc = "read"
    /\ ratchet = complete
    /\ ratchet' = IF partial THEN ratchet + 1 ELSE ratchet
    /\ Return
    /\ UNCHANGED <<file, initial, prevSize, jobs, rows, names, history, bounds>>

\* ReadString meets the end of the file, in front of or inside a line, or fails.
ReadEnd ==
    /\ pc = "read"
    /\ Return
    /\ \/ ratchet = complete /\ UNCHANGED errors
       \/ Fault
    /\ UNCHANGED <<file, initial, ratchet, prevSize, jobs, rows, names, history, crashes>>

\* SkipLine that gives up the scan at a line that is not JSON.
SkipLineReturns ==
    /\ pc = "read" /\ ratchet < complete
    /\ ~Acts(ratchet + 1)
    /\ ratchet' = ratchet + 1
    /\ IF Eve[ratchet + 1].valid THEN UNCHANGED pc ELSE Return
    /\ UNCHANGED <<file, initial, prevSize, jobs, rows, names, history, bounds>>

\* A line that is not JSON, or asks for nothing, is behind the ratchet at once.
SkipLine ==
    /\ pc = "read" /\ ratchet < complete
    /\ ~Acts(ratchet + 1)
    /\ ratchet' = ratchet + 1
    /\ UNCHANGED <<file, pc, initial, prevSize, jobs, rows, names, history, bounds>>

ReadLine ==
    /\ pc = "read" /\ ratchet < complete
    /\ Acts(ratchet + 1)
    /\ pc' = "straight"
    /\ UNCHANGED <<file, initial, ratchet, prevSize, jobs, rows, names, history, bounds>>

--------------------------------------------------------------------------------
(* handleEveLine from the first lookup on. *)

\* SuricataIdFindFlow finds a stored flow (any of several): the updates are submitted
\* and the line is behind the ratchet.
FlowFound(w) ==
    /\ pc = w
    /\ \E f \in stored \cap Eve[ratchet + 1].match[w] :
          jobs' = jobs \cup UpdatesFor(ratchet + 1, f) \cup KnownFor(ratchet + 1)
    /\ pc' = "read"
    /\ ratchet' = ratchet + 1
    /\ missed' = missed \ {ratchet + 1}
    /\ UNCHANGED <<file, initial, prevSize, rows, names, failed, bounds>>

\* The query returns no row, or fails; the error is not looked at.
NotFound(w) ==
    \/ stored \cap Eve[ratchet + 1].match[w] = {} /\ UNCHANGED errors
    \/ Fault

\* The line's ends are exchanged for the second lookup.
NotFoundStraight ==
    /\ pc = "straight"
    /\ NotFound("straight")
    /\ pc' = "swapped"
    /\ UNCHANGED <<file, initial, ratchet, prevSize, jobs, rows, names, history, crashes>>

\* "Flow not found": the line is behind the ratchet all the same.
NotFoundSwapped ==
    /\ pc = "swapped"
    /\ NotFound("swapped")
    /\ pc' = "read"
    /\ ratchet' = ratchet + 1
    /\ missed' = missed \cup {ratchet + 1}
    /\ UNCHANGED <<file, initial, prevSize, jobs, rows, names, failed, crashes>>

--------------------------------------------------------------------------------
(* The worker pool of the database object, in any order. *)

UpdateSignatures(j) ==
    /\ j \in jobs /\ j.kind = "signatures"
    /\ signatures' = [signatures EXCEPT ![j.flow] = Merge(@, {SignatureOf(j.line)})]
    /\ jobs' = jobs \ {j}
    /\ failed' = failed \ {j}
    /\ UNCHANGED <<file, reader, stored, tags, names, missed, bounds>>

UpdateTags(j) ==
    /\ j \in jobs /\ j.kind = "tags"
    /\ tags' = [tags EXCEPT ![j.flow] = Merge(@, TagsOf(j.line))]
    /\ jobs' = jobs \ {j}
    /\ failed' = failed \ {j}
    /\ UNCHANGED <<file, reader, stored, signatures, names, missed, bounds>>

\* The statement fails; the error is only logged.
UpdateFails(j) ==
    /\ j \in jobs /\ j.kind # "known"
    /\ Fault
    /\ jobs' = jobs \ {j}
    /\ failed' = failed \cup {j}
    /\ UNCHANGED <<file, reader, rows, names, missed, crashes>>

KnownTagsUpsert(j) ==
    /\ j \in jobs /\ j.kind = "known"
    /\ knownTags' = knownTags \cup {j.tag}
    /\ jobs' = jobs \ {j}
    /\ UNCHANGED <<file, reader, rows, tagTable, history, bounds>>

\* KnownTagsUpdate without its INSERT.
KnownTagsUpdateReadsOnly ==
    /\ pc # "start"
    /\ knownTags # tagTable
    /\ knownTags' = knownTags \cup tagTable
    /\ UNCHANGED <<file, reader, jobs, rows, tagTable, history, bounds>>

\* Every five seconds: new names into the table, then the table into the cache.  (An
\* INSERT that fails ends the process: Crash.)
KnownTagsUpdate ==
    /\ pc # "start"
    /\ knownTags # tagTable
    /\ tagTable' = tagTable \cup knownTags
    /\ knownTags' = knownTags \cup tagTable'
    /\ UNCHANGED <<file, reader, jobs, rows, history, bounds>>

--------------------------------------------------------------------------------

Read == \/ Start \/ InitialStat \/ Poll \/ OpenEve \/ ReadEnd \/ SkipLine \/ ReadLine
        \/ \E w \in Ways : FlowFound(w)
        \/ NotFoundStraight \/ NotFoundSwapped

Work(j) == UpdateSignatures(j) \/ UpdateTags(j) \/ UpdateFails(j) \/ KnownTagsUpsert(j)

Next == \/ WritePart
        \/ WriteLine
        \/ \E f \in Flows : StoreFlow(f)
        \/ Read
        \/ Crash
        \/ \E j \in jobs : Work(j)
        \/ KnownTagsUpdate

Spec == Init /\ [][Next]_vars

\* watchEve's loop, the workers and the ticker go on for ever; nobody has to write a
\* line, store a flow, or stop writing in the middle of one.
Fairness == /\ WF_vars(Read)
            /\ WF_vars(\E j \in jobs : Work(j))
            /\ WF_vars(KnownTagsUpdate)

FairSpec == Spec /\ Fairness

--------------------------------------------------------------------------------
(* What must hold. *)

Done(j) == IF j.kind = "tags" THEN TagsOf(j.line) \subseteq BagToSet(tags[j.flow])
                              ELSE BagIn(SignatureOf(j.line), signatures[j.flow])

\* For every line behind the ratchet, each update is still submitted, done, or logged as
\* failed, unless no flow was found.
UpdatesAccounted ==
    \A n \in 1 .. ratchet :
        Acts(n) /\ n \notin missed =>
            \E f \in Matches(n) \cap stored :
                \A j \in UpdatesFor(n, f) : j \in jobs \/ j \in failed \/ Done(j)

\* The name of tag t is on its way to the tag table, or there.
NameKept(t) == t \in knownTags \cup tagTable \/ [kind |-> "known", tag |-> t] \in jobs

\* Unless a call has failed, the name of each tag a flow was marked with is kept, or there is
\* a line ahead that asks for it and will find a flow.
NamesAccounted ==
    errors = 0 => \A f \in Flows : \A t \in BagToSet(tags[f]) \ {FlowTag} :
        \/ NameKept(t)
        \/ \E n \in ratchet + 1 .. complete : Acts(n) /\ t \in TagsOf(n) /\ f \in Matches(n)

\* The offset lives in memory beside the jobs and the names it runs ahead of: what a line
\* asked for is not lost, and a tag that got to a flow just before the process died gets to
\* the tag table when the line is read again.  A restart that kept the offset and not the
\* jobs would lose some (main.go:46, 104-109; db.go:184-225).
NothingForgotten == UpdatesAccounted /\ NamesAccounted

\* However often a restart reads eve.json again, and however many lines name the same
\* rule or tag, a flow lists each signature and each tag once (db.go:416, 445 with
\* jsonb_unique).
ListedOnce ==
    \A f \in Flows : /\ \A t \in BagToSet(tags[f]) : tags[f][t] = 1
                     /\ \A s \in BagToSet(signatures[f]) : signatures[f][s] = 1

\* A stored flow carries the tags it was stored with and marks that some complete line
\* about it asks for, never those of a line about another flow.
NoForeignMarks ==
    \A f \in Flows :
        LET about == {n \in 1 .. complete : Acts(n) /\ f \in Matches(n)}
        IN  /\ BagToSet(tags[f]) \subseteq
                  (UNION {TagsOf(n) : n \in about}) \cup (IF f \in stored THEN {FlowTag} ELSE {})
            /\ BagToSet(signatures[f]) \subseteq {SignatureOf(n) : n \in about}

\* Restarts, repeated lines and lines about other flows: each mark of a flow is there once,
\* and because of a line about that flow.
MarksEarnedOnce == ListedOnce /\ NoForeignMarks

\* The workers run updates of one row in any order and a restart repeats them: no step
\* takes a tag or a signature away from a flow.
MarksNeverLost ==
    [][\A f \in Flows : /\ BagToSet(tags[f]) \subseteq BagToSet(tags'[f])
                        /\ BagToSet(signatures[f]) \subseteq BagToSet(signatures'[f])]_vars

\* Once the loop sees that the file has grown, every complete line is handled, lines
\* that came while another scan ran or behind a line that is not JSON included, unless
\* a call fails (main.go:55-70, 111-117).
GrowthIsNoticed ==
    \A n \in DOMAIN Eve :
        (pc = "sleep" /\ Size > prevSize /\ complete >= n) ~> (ratchet >= n \/ errors > 0)

\* Every new tag of a flow gets into the tag table, from which the front end takes its
\* filters, also when the process dies between the update of the flow and the next
\* KnownTagsUpdate: the scan from offset 0 submits the name again.
TagsGetListed ==
    \A t \in Tags \ ListedTags :
        (\E f \in Flows : BagIn(t, tags[f])) ~> (t \in tagTable \/ errors > 0)

--------------------------------------------------------------------------------
(* Enricher implements FlowMarks. *)

\* The columns as sets, and what each line asks for.
tagSets == [f \in Flows |-> BagToSet(tags[f])]
signatureSets == [f \in Flows |-> BagToSet(signatures[f])]
aboutLines == [n \in DOMAIN Eve |-> IF Acts(n) THEN Matches(n) ELSE {}]
tagsOfLines == [n \in DOMAIN Eve |-> TagsOf(n)]
signaturesOfLines == [n \in DOMAIN Eve |-> IF HasAlert(n) THEN {SignatureOf(n)} ELSE {}]

Marks == INSTANCE FlowMarks WITH
            written <- complete, tagsOf <- tagSets, signaturesOf <- signatureSets,
            About <- aboutLines, TagsIn <- tagsOfLines, SignaturesIn <- signaturesOfLines

\* To a reader of the flow table the enricher does one thing: now and then a stored flow
\* gets all the tags or the signature of a complete line about it.  Offsets, workers, failed
\* calls, repeated scans and restarts cannot be seen, and nothing is ever taken away.
ImplementsFlowMarks == Marks!MarksSpec
================================================================================
