----------------------------- MODULE EnricherProofs -----------------------------
(***************************************************************************)
(* Proofs about Enricher for any flows, lines, tags and rules, and any     *)
(* number of restarts and failed calls.                                    *)
(***************************************************************************)
EXTENDS Enricher, TLAPS

\* The bags that hold each of their elements once, and take them from S.
UniqueBags(S) == {SetToBag(T) : T \in SUBSET S}

--------------------------------------------------------------------------------

LEMMA SetBag ==
  ASSUME NEW S
  PROVE  /\ BagToSet(SetToBag(S)) = S
         /\ \A e \in S : SetToBag(S)[e] = 1 /\ BagIn(e, SetToBag(S))
         /\ IsABag(SetToBag(S))
  BY DEF BagToSet, SetToBag, BagIn, IsABag

LEMMA UniqueBag ==
  ASSUME NEW S, NEW B \in UniqueBags(S)
  PROVE  /\ IsABag(B)
         /\ BagToSet(B) \subseteq S
         /\ \A e \in BagToSet(B) : B[e] = 1
<1>1. PICK T \in SUBSET S : B = SetToBag(T)
  BY DEF UniqueBags
<1> QED
  BY <1>1, SetBag

\* Merge makes a bag without repetitions of the marks that were there and the new ones.
LEMMA MergeUnites ==
  ASSUME NEW B, NEW S
  PROVE  /\ Merge(B, S) = SetToBag(BagToSet(B) \cup S)
         /\ BagToSet(Merge(B, S)) = BagToSet(B) \cup S
<1>1. BagToSet(B (+) SetToBag(S)) = BagToSet(B) \cup S
  BY DEF BagToSet, SetToBag, (+)
<1>2. Merge(B, S) = SetToBag(BagToSet(B) \cup S)
  BY <1>1 DEF Merge, JsonbUnique
<1> QED
  BY <1>2, SetBag

--------------------------------------------------------------------------------

LEMMA Lines ==
  /\ DOMAIN Eve = 1 .. Len(Eve)
  /\ Len(Eve) \in Nat
  /\ \A n \in 1 .. Len(Eve) :
        /\ TagsOf(n) \subseteq Tags
        /\ Matches(n) \subseteq Flows
        /\ \A w \in Ways : Eve[n].match[w] \subseteq Matches(n)
        /\ HasAlert(n) => SignatureOf(n) \in Signatures
<1>1. Eve \in Seq(EveLine) /\ {"suricata", "blocked", FlowTag} \subseteq Tags
  BY EnricherAssumption
<1>2. DOMAIN Eve = 1 .. Len(Eve) /\ Len(Eve) \in Nat
  BY <1>1
<1>3. ASSUME NEW n \in 1 .. Len(Eve)
      PROVE  /\ TagsOf(n) \subseteq Tags
             /\ Matches(n) \subseteq Flows
             /\ \A w \in Ways : Eve[n].match[w] \subseteq Matches(n)
             /\ HasAlert(n) => SignatureOf(n) \in Signatures
  <2>1. Eve[n] \in EveLine
    BY <1>1, <1>2
  <2>2. Eve[n].metadata \subseteq Tags /\ Eve[n].bits \subseteq Tags
    BY <2>1 DEF EveLine
  <2>3. TagsOf(n) \subseteq Tags
    BY <1>1, <2>2 DEF TagsOf
  <2>4. Eve[n].match \in [Ways -> SUBSET Flows]
    BY <2>1 DEF EveLine
  <2>5. Matches(n) \subseteq Flows /\ \A w \in Ways : Eve[n].match[w] \subseteq Matches(n)
    BY <2>4 DEF Matches, Ways
  <2>6. Eve[n].rule \in Rules /\ Eve[n].action \in {"", "allowed", "blocked"}
    BY <2>1 DEF EveLine
  <2>7. HasAlert(n) => SignatureOf(n) \in Signatures
    BY <2>6 DEF HasAlert, SignatureOf, Signatures
  <2> QED
    BY <2>3, <2>5, <2>7
<1> QED
  BY <1>2, <1>3

LEMMA JobKinds ==
  /\ \A j \in UpdateJobs : /\ j.kind \in {"tags", "signatures"}
                           /\ j.line \in 1 .. Len(Eve) /\ j.flow \in Flows
  /\ \A j \in KnownJobs : j.kind = "known" /\ j.tag \in Tags
  BY Lines DEF UpdateJobs, KnownJobs

LEMMA JobsForLine ==
  ASSUME NEW n \in 1 .. Len(Eve), NEW f \in Flows
  PROVE  /\ UpdatesFor(n, f) \subseteq UpdateJobs
         /\ KnownFor(n) \subseteq KnownJobs
         /\ \A j \in UpdatesFor(n, f) :
               /\ j.line = n /\ j.flow = f
               /\ j.kind = "signatures" => HasAlert(n)
<1>1. TagsOf(n) \subseteq Tags /\ n \in DOMAIN Eve
  BY Lines
<1> QED
  BY <1>1 DEF UpdatesFor, KnownFor, UpdateJobs, KnownJobs

--------------------------------------------------------------------------------
(* The inductive invariant. *)

\* An update that was submitted is about a stored flow and a complete line that asks for it.
JobsEarned ==
    \A j \in jobs \cap UpdateJobs :
        /\ j.flow \in stored \cap Matches(j.line)
        /\ j.line \in 1 .. complete
        /\ Acts(j.line)
        /\ j.kind = "signatures" => HasAlert(j.line)

\* Where an update is submitted, so are the names of its line's tags.
JobsNamed == \A j \in jobs \cap UpdateJobs : \A t \in TagsOf(j.line) : NameKept(t)

\* Between the two lookups: no flow with a mark whose name is not kept has the line's ends in
\* their order, unless a call has failed.
StraightMissed ==
    pc = "swapped" /\ errors = 0 =>
        \A f \in Flows : \A t \in BagToSet(tags[f]) \ {FlowTag} :
            NameKept(t) \/ f \notin Eve[ratchet + 1].match["straight"]

\* A flow without a row has no marks.
UnstoredBare ==
    \A f \in Flows \ stored : BagToSet(tags[f]) = {} /\ BagToSet(signatures[f]) = {}

Columns == /\ tags \in [Flows -> UniqueBags(Tags)]
           /\ signatures \in [Flows -> UniqueBags(Signatures)]

IndInv == /\ TypeOK
          /\ Columns
          /\ JobsEarned
          /\ UnstoredBare
          /\ NoForeignMarks
          /\ UpdatesAccounted
          /\ JobsNamed
          /\ StraightMissed
          /\ NamesAccounted

LEMMA Column ==
  ASSUME NEW S, NEW column \in [Flows -> UniqueBags(S)]
  PROVE  /\ DOMAIN column = Flows
         /\ \A f \in Flows : IsABag(column[f]) /\ BagToSet(column[f]) \subseteq S
  BY UniqueBag

LEMMA ColumnsListOnce == Columns => ListedOnce
  BY UniqueBag DEF Columns, ListedOnce

LEMMA Initially == Init => IndInv
<1> SUFFICES ASSUME Init PROVE IndInv
  OBVIOUS
<1>1. EmptyBag \in UniqueBags(Tags) /\ EmptyBag \in UniqueBags(Signatures)
      /\ BagToSet(EmptyBag) = {}
  BY SetBag DEF EmptyBag, UniqueBags
<1>2. Columns
  BY <1>1 DEF Init, Columns
<1>3. UnstoredBare /\ JobsEarned /\ NoForeignMarks
  BY <1>1 DEF Init, UnstoredBare, JobsEarned, NoForeignMarks
<1>4. UpdatesAccounted /\ JobsNamed /\ StraightMissed /\ NamesAccounted
  BY <1>1 DEF Init, UpdatesAccounted, JobsNamed, StraightMissed, NamesAccounted
<1>5. TypeOK
  <2>1. Size = 0
    BY DEF Init, Size
  <2>2. /\ complete \in 0 .. Len(Eve) /\ ratchet \in 0 .. complete /\ prevSize \in 0 .. Size
        /\ crashes \in 0 .. MaxCrashes /\ errors \in 0 .. MaxErrors
    BY <2>1, Lines, EnricherAssumption DEF Init
  <2> QED
    BY <1>2, <2>2, Column, EnricherAssumption DEF Init, TypeOK, Ways, Columns
<1> QED
  BY <1>2, <1>3, <1>4, <1>5 DEF IndInv

--------------------------------------------------------------------------------
(* Type correctness. *)

\* The part of the type invariant that concerns the columns follows from Columns.
LEMMA ColumnsStep ==
  ASSUME IndInv, [Next]_vars
  PROVE  Columns'
<1>1. CASE UNCHANGED rows
  BY <1>1 DEF IndInv, Columns, rows
<1>2. ASSUME NEW f \in Flows, StoreFlow(f) PROVE Columns'
  <2>1. SetToBag({FlowTag}) \in UniqueBags(Tags)
    BY EnricherAssumption DEF UniqueBags
  <2> QED
    BY <1>2, <2>1 DEF StoreFlow, IndInv, Columns
<1>3. ASSUME NEW j \in jobs, UpdateSignatures(j) PROVE Columns'
  <2>1. j \in UpdateJobs
    BY <1>3, JobKinds DEF UpdateSignatures, IndInv, TypeOK
  <2>2. SignatureOf(j.line) \in Signatures /\ j.flow \in Flows
    BY <1>3, <2>1, JobKinds, Lines DEF UpdateSignatures, IndInv, JobsEarned
  <2>3. BagToSet(signatures[j.flow]) \subseteq Signatures
    BY <2>2, Column DEF IndInv, Columns
  <2>4. Merge(signatures[j.flow], {SignatureOf(j.line)}) \in UniqueBags(Signatures)
    BY <2>2, <2>3, MergeUnites DEF UniqueBags
  <2> QED
    BY <1>3, <2>2, <2>4 DEF UpdateSignatures, IndInv, Columns
<1>4. ASSUME NEW j \in jobs, UpdateTags(j) PROVE Columns'
  <2>1. j \in UpdateJobs
    BY <1>4, JobKinds DEF UpdateTags, IndInv, TypeOK
  <2>2. TagsOf(j.line) \subseteq Tags /\ j.flow \in Flows
    BY <2>1, JobKinds, Lines
  <2>3. BagToSet(tags[j.flow]) \subseteq Tags
    BY <2>2, Column DEF IndInv, Columns
  <2>4. Merge(tags[j.flow], TagsOf(j.line)) \in UniqueBags(Tags)
    BY <2>2, <2>3, MergeUnites DEF UniqueBags
  <2> QED
    BY <1>4, <2>2, <2>4 DEF UpdateTags, IndInv, Columns
<1> QED
  BY <1>1, <1>2, <1>3, <1>4
     DEF Next, vars, rows, Read, Work, WritePart, WriteLine, Start, InitialStat, Poll, OpenEve,
         ReadEnd, SkipLine, ReadLine, FlowFound, NotFoundStraight, NotFoundSwapped, Crash,
         UpdateFails, KnownTagsUpsert, KnownTagsUpdate

\* A call can fail as long as the bound is not reached.
LEMMA FaultType == TypeOK /\ (Fault \/ UNCHANGED errors) => errors' \in 0 .. MaxErrors
  BY EnricherAssumption DEF TypeOK, Fault

\* The steps of the reader that leave file and rows alone.
LEMMA ReadType ==
  ASSUME IndInv, Read, Columns'
  PROVE  TypeOK'
<1>1. /\ complete' = complete /\ partial' = partial /\ Size' = Size
      /\ stored' = stored /\ tagTable' = tagTable /\ crashes' = crashes
      /\ failed' = failed
  BY DEF Read, file, reader, rows, names, history, bounds, Size, Start, InitialStat, Poll,
         OpenEve, ReadEnd, SkipLine, ReadLine, FlowFound, NotFoundStraight, NotFoundSwapped
<1>2. errors' \in 0 .. MaxErrors
  BY FaultType
     DEF IndInv, Read, bounds, Start, InitialStat, Poll, OpenEve, ReadEnd, SkipLine, ReadLine,
         FlowFound, NotFound, NotFoundStraight, NotFoundSwapped
<1>3. complete \in Nat /\ ratchet \in Nat /\ Size \in Nat /\ prevSize \in Nat
      /\ complete <= Len(Eve)
  BY Lines DEF IndInv, TypeOK, Size
<1>4. /\ pc' \in {"start", "open", "read", "straight", "swapped", "stat", "sleep"}
      /\ initial' \in BOOLEAN
  BY DEF IndInv, TypeOK, Read, Start, InitialStat, Poll, OpenEve, ReadEnd, SkipLine, ReadLine,
         FlowFound, NotFoundStraight, NotFoundSwapped, Return, Ways
<1>5. ratchet' \in 0 .. complete' /\ prevSize' \in 0 .. Size'
  BY <1>1, <1>3
     DEF IndInv, TypeOK, Read, Start, InitialStat, Poll, OpenEve, ReadEnd, SkipLine, ReadLine,
         FlowFound, NotFoundStraight, NotFoundSwapped, Ways
<1>6. pc' \in Ways => ratchet' < complete' /\ Acts(ratchet' + 1)
  BY <1>1
     DEF IndInv, TypeOK, Read, Start, InitialStat, Poll, OpenEve, ReadEnd, SkipLine, ReadLine,
         FlowFound, NotFoundStraight, NotFoundSwapped, Return, Ways
<1>7. jobs' \subseteq UpdateJobs \cup KnownJobs
  <2>1. ASSUME NEW w \in Ways, FlowFound(w) PROVE jobs' \subseteq UpdateJobs \cup KnownJobs
    <3>1. ratchet + 1 \in 1 .. Len(Eve)
      BY <1>3, <2>1 DEF FlowFound, IndInv, TypeOK
    <3>2. Eve[ratchet + 1].match[w] \subseteq Flows
      BY <3>1, Lines
    <3> QED
      BY <2>1, <3>1, <3>2, JobsForLine DEF FlowFound, IndInv, TypeOK
  <2> QED
    BY <2>1 DEF IndInv, TypeOK, Read, Start, InitialStat, Poll, OpenEve, ReadEnd, SkipLine,
                ReadLine, NotFoundStraight, NotFoundSwapped
<1>8. knownTags' \subseteq Tags
  BY DEF IndInv, TypeOK, Read, names, Start, InitialStat, Poll, OpenEve, ReadEnd, SkipLine,
         ReadLine, FlowFound, NotFoundStraight, NotFoundSwapped
<1>9. missed' \subseteq DOMAIN Eve
  <2>1. ASSUME NotFoundSwapped PROVE ratchet + 1 \in DOMAIN Eve
    BY <1>3, <2>1, Lines DEF NotFoundSwapped, IndInv, TypeOK, Ways
  <2> QED
    BY <2>1 DEF IndInv, TypeOK, Read, history, Start, InitialStat, Poll, OpenEve, ReadEnd,
                SkipLine, ReadLine, FlowFound, NotFoundStraight, NotFoundSwapped
<1> QED
  BY <1>1, <1>2, <1>4, <1>5, <1>6, <1>7, <1>8, <1>9, Column DEF IndInv, TypeOK, Columns

LEMMA TypeStep ==
  ASSUME IndInv, [Next]_vars
  PROVE  TypeOK'
<1>c. Columns'
  BY ColumnsStep
<1>n. complete \in Nat /\ complete <= Len(Eve) /\ ratchet \in 0 .. complete
      /\ Size \in Nat /\ prevSize \in 0 .. Size
      /\ Size = 2 * complete + (IF partial THEN 1 ELSE 0)
  BY Lines DEF IndInv, TypeOK, Size
<1>1. CASE UNCHANGED vars
  BY <1>1 DEF vars, IndInv, TypeOK, Size, UpdateJobs, KnownJobs, Acts, HasAlert
<1>2. CASE WritePart \/ WriteLine
  <2>1. /\ complete' \in 0 .. Len(Eve) /\ partial' \in BOOLEAN /\ complete <= complete'
        /\ Size <= Size' /\ Size' \in Nat
    <3>1. CASE WritePart
      <4>1. complete' = complete /\ partial' = TRUE /\ ~partial
        BY <3>1 DEF WritePart
      <4>2. (IF partial THEN 1 ELSE 0) = 0 /\ (IF partial' THEN 1 ELSE 0) = 1
        BY <4>1, Zenon
      <4>3. Size = 2 * complete + 0 /\ Size' = 2 * complete + 1
        BY <4>1, <4>2 DEF Size
      <4> QED
        BY <4>1, <4>3, <1>n, Lines
    <3>2. CASE WriteLine
      <4>1. complete < Len(Eve) /\ complete' = complete + 1 /\ partial' = FALSE
        BY <3>2 DEF WriteLine
      <4>2. (IF partial' THEN 1 ELSE 0) = 0 /\ (IF partial THEN 1 ELSE 0) \in {0, 1}
        BY <4>1, Zenon
      <4>3. Size' = 2 * (complete + 1) + 0
        BY <4>1, <4>2 DEF Size
      <4>4. ASSUME NEW b \in {0, 1} PROVE 2 * complete + b <= 2 * (complete + 1)
        BY <1>n
      <4>5. Size <= 2 * (complete + 1)
        BY <4>2, <4>4, <1>n
      <4>6. Size <= Size' /\ Size' \in Nat
        BY <4>3, <4>5, <1>n
      <4>7. partial' \in BOOLEAN
        BY <4>1
      <4>8. complete' \in 0 .. Len(Eve) /\ complete <= complete'
        BY <4>1, <1>n, Lines
      <4> QED
        BY <4>6, <4>7, <4>8
    <3> QED
      BY <1>2, <3>1, <3>2
  <2>2. UNCHANGED <<reader, jobs, rows, names, history, bounds>>
    BY <1>2 DEF WritePart, WriteLine
  <2>3. ratchet' \in 0 .. complete' /\ prevSize' \in 0 .. Size'
        /\ (pc' \in Ways => ratchet' < complete' /\ Acts(ratchet' + 1))
    BY <2>1, <2>2, <1>n DEF IndInv, TypeOK, reader
  <2> QED
    BY <2>1, <2>2, <2>3 DEF IndInv, TypeOK, reader, rows, names, history, bounds
<1>3. ASSUME NEW f \in Flows, StoreFlow(f) PROVE TypeOK'
  <2>1. /\ UNCHANGED <<complete, partial, pc, initial, ratchet, prevSize, jobs, knownTags,
                       tagTable, missed, failed, crashes, errors>>
        /\ stored' \subseteq Flows
        /\ Size' = Size
    BY <1>3 DEF StoreFlow, IndInv, TypeOK, file, reader, names, history, bounds, Size
  <2> QED
    BY <2>1, <1>c, Column DEF IndInv, TypeOK, Columns
<1>4. CASE Read
  BY <1>4, <1>c, ReadType
<1>5. CASE Crash
  <2>1. Size' = Size
    BY <1>5 DEF Crash, file, Size
  <2>2. crashes' \in 0 .. MaxCrashes
    BY <1>5, EnricherAssumption DEF Crash, IndInv, TypeOK
  <2> QED
    BY <1>5, <1>n, <2>1, <2>2 DEF Crash, IndInv, TypeOK, file, rows, history, Ways
<1>6. ASSUME NEW j \in jobs, Work(j) PROVE TypeOK'
  <2>1. /\ UNCHANGED <<complete, partial, pc, initial, ratchet, prevSize, stored, tagTable,
                       missed, crashes>>
        /\ jobs' \subseteq jobs
        /\ Size' = Size
    BY <1>6 DEF Work, UpdateSignatures, UpdateTags, UpdateFails, KnownTagsUpsert, file, reader,
                rows, names, history, bounds, Size
  <2>2. errors' \in 0 .. MaxErrors
    BY <1>6, FaultType DEF IndInv, Work, UpdateSignatures, UpdateTags, UpdateFails,
                           KnownTagsUpsert, bounds
  <2>3. failed' \subseteq UpdateJobs
    BY <1>6, JobKinds DEF IndInv, TypeOK, Work, UpdateSignatures, UpdateTags, UpdateFails,
                          KnownTagsUpsert, history
  <2>4. knownTags' \subseteq Tags
    BY <1>6, JobKinds DEF IndInv, TypeOK, Work, UpdateSignatures, UpdateTags, UpdateFails,
                          KnownTagsUpsert, names
  <2> QED
    BY <2>1, <2>2, <2>3, <2>4, <1>c, Column DEF IndInv, TypeOK, Columns
<1>7. CASE KnownTagsUpdate
  <2>1. /\ UNCHANGED <<complete, partial, pc, initial, ratchet, prevSize, jobs, stored, tags,
                       signatures, missed, failed, crashes, errors>>
        /\ Size' = Size
        /\ knownTags' \subseteq Tags /\ tagTable' \subseteq Tags
    BY <1>7 DEF KnownTagsUpdate, IndInv, TypeOK, file, reader, rows, history, bounds, Size
  <2> QED
    BY <2>1 DEF IndInv, TypeOK
<1> QED
  BY <1>1, <1>2, <1>3, <1>4, <1>5, <1>6, <1>7 DEF Next

--------------------------------------------------------------------------------
(* What a step does to the marks of a flow. *)

\* The element sets of the columns only grow; they grow by what a line asks for that a
\* job was submitted for, or by the tag a flow is stored with.
LEMMA MarksStep ==
  ASSUME IndInv, [Next]_vars, NEW f \in Flows
  PROVE  /\ BagToSet(tags[f]) \subseteq BagToSet(tags'[f])
         /\ BagToSet(signatures[f]) \subseteq BagToSet(signatures'[f])
         /\ \A t \in BagToSet(tags'[f]) \ BagToSet(tags[f]) :
               \/ t = FlowTag /\ f \in stored'
               \/ \E j \in jobs \cap UpdateJobs : j.flow = f /\ t \in TagsOf(j.line)
         /\ \A s \in BagToSet(signatures'[f]) \ BagToSet(signatures[f]) :
               \E j \in jobs \cap UpdateJobs : j.flow = f /\ s = SignatureOf(j.line)
<1>1. CASE UNCHANGED rows
  BY <1>1 DEF rows
<1>2. ASSUME NEW g \in Flows, StoreFlow(g)
      PROVE  /\ signatures' = signatures
             /\ tags'[f] = IF g = f THEN SetToBag({FlowTag}) ELSE tags[f]
             /\ g = f => BagToSet(tags[f]) = {} /\ f \in stored'
  BY <1>2 DEF StoreFlow, IndInv, Columns, UnstoredBare
<1>3. ASSUME NEW j \in jobs, UpdateSignatures(j)
      PROVE  /\ tags' = tags
             /\ j \in UpdateJobs
             /\ signatures'[f] = IF j.flow = f THEN Merge(signatures[f], {SignatureOf(j.line)})
                                 ELSE signatures[f]
  BY <1>3, JobKinds DEF UpdateSignatures, IndInv, TypeOK, Columns
<1>4. ASSUME NEW j \in jobs, UpdateTags(j)
      PROVE  /\ signatures' = signatures
             /\ j \in UpdateJobs
             /\ tags'[f] = IF j.flow = f THEN Merge(tags[f], TagsOf(j.line)) ELSE tags[f]
  BY <1>4, JobKinds DEF UpdateTags, IndInv, TypeOK, Columns
<1>5. \/ UNCHANGED rows
      \/ \E g \in Flows : StoreFlow(g)
      \/ \E j \in jobs : UpdateSignatures(j) \/ UpdateTags(j)
  BY DEF Next, vars, rows, Read, Work, WritePart, WriteLine, Start, InitialStat, Poll, OpenEve,
         ReadEnd, SkipLine, ReadLine, FlowFound, NotFoundStraight, NotFoundSwapped, Crash,
         UpdateFails, KnownTagsUpsert, KnownTagsUpdate
<1>6. CASE \E g \in Flows : StoreFlow(g)
  <2>1. PICK g \in Flows : StoreFlow(g)
    BY <1>6
  <2>2. BagToSet(SetToBag({FlowTag})) = {FlowTag}
    BY SetBag
  <2> QED
    BY <1>2, <2>1, <2>2
<1>7. ASSUME NEW j \in jobs, UpdateSignatures(j)
      PROVE  /\ tags' = tags
             /\ BagToSet(signatures[f]) \subseteq BagToSet(signatures'[f])
             /\ \A s \in BagToSet(signatures'[f]) \ BagToSet(signatures[f]) :
                   j \in UpdateJobs /\ j.flow = f /\ s = SignatureOf(j.line)
  <2>1. /\ tags' = tags /\ j \in UpdateJobs
        /\ signatures'[f] = IF j.flow = f THEN Merge(signatures[f], {SignatureOf(j.line)})
                            ELSE signatures[f]
    BY <1>3, <1>7
  <2>2. BagToSet(Merge(signatures[f], {SignatureOf(j.line)}))
           = BagToSet(signatures[f]) \cup {SignatureOf(j.line)}
    BY MergeUnites
  <2> QED
    BY <2>1, <2>2
<1>8. ASSUME NEW j \in jobs, UpdateTags(j)
      PROVE  /\ signatures' = signatures
             /\ BagToSet(tags[f]) \subseteq BagToSet(tags'[f])
             /\ \A t \in BagToSet(tags'[f]) \ BagToSet(tags[f]) :
                   j \in UpdateJobs /\ j.flow = f /\ t \in TagsOf(j.line)
  <2>1. /\ signatures' = signatures /\ j \in UpdateJobs
        /\ tags'[f] = IF j.flow = f THEN Merge(tags[f], TagsOf(j.line)) ELSE tags[f]
    BY <1>4, <1>8
  <2>2. BagToSet(Merge(tags[f], TagsOf(j.line))) = BagToSet(tags[f]) \cup TagsOf(j.line)
    BY MergeUnites
  <2> QED
    BY <2>1, <2>2
<1> QED
  BY <1>1, <1>5, <1>6, <1>7, <1>8

--------------------------------------------------------------------------------
(* The other conjuncts. *)

LEMMA StoredGrows ==
  ASSUME IndInv, [Next]_vars
  PROVE  stored \subseteq stored' /\ complete <= complete'
<1>1. complete \in Nat
  BY Lines DEF IndInv, TypeOK
<1>2. stored \subseteq stored'
  BY DEF Next, vars, rows, Read, Work, WritePart, WriteLine, Start, InitialStat, Poll, OpenEve,
         ReadEnd, SkipLine, ReadLine, FlowFound, NotFoundStraight, NotFoundSwapped, Crash,
         UpdateSignatures, UpdateTags, UpdateFails, KnownTagsUpsert, KnownTagsUpdate, StoreFlow
<1>3. complete' = complete \/ complete' = complete + 1
  BY DEF Next, vars, file, Read, Work, WritePart, WriteLine, Start, InitialStat, Poll, OpenEve,
         ReadEnd, SkipLine, ReadLine, FlowFound, NotFoundStraight, NotFoundSwapped, Crash,
         UpdateSignatures, UpdateTags, UpdateFails, KnownTagsUpsert, KnownTagsUpdate, StoreFlow
<1> QED
  BY <1>1, <1>2, <1>3

\* What FlowFound submits, and for which line.
LEMMA FoundFacts ==
  ASSUME IndInv, NEW w \in Ways, FlowFound(w)
  PROVE  LET n == ratchet + 1 IN
         /\ n \in 1 .. complete /\ n \in 1 .. Len(Eve)
         /\ Acts(n)
         /\ \E f \in stored \cap Matches(n) :
               /\ f \in Flows
               /\ jobs' = jobs \cup UpdatesFor(n, f) \cup KnownFor(n)
<1>1. ratchet + 1 \in 1 .. complete /\ ratchet + 1 \in 1 .. Len(Eve) /\ Acts(ratchet + 1)
  BY Lines DEF IndInv, TypeOK, FlowFound
<1>2. PICK f \in stored \cap Eve[ratchet + 1].match[w] :
         jobs' = jobs \cup UpdatesFor(ratchet + 1, f) \cup KnownFor(ratchet + 1)
  BY DEF FlowFound
<1>3. f \in Matches(ratchet + 1) /\ f \in Flows
  BY <1>1, <1>2, Lines
<1> QED
  BY <1>1, <1>2, <1>3

LEMMA JobsStep ==
  ASSUME IndInv, [Next]_vars
  PROVE  JobsEarned'
<1> SUFFICES ASSUME NEW j \in jobs' \cap UpdateJobs
             PROVE  /\ j.flow \in stored' \cap Matches(j.line)
                    /\ j.line \in 1 .. complete'
                    /\ Acts(j.line)
                    /\ j.kind = "signatures" => HasAlert(j.line)
  BY DEF JobsEarned, UpdateJobs, Matches, Acts, HasAlert
<1>1. complete \in Nat /\ complete' \in Nat /\ stored \subseteq stored' /\ complete <= complete'
  BY TypeStep, StoredGrows, Lines DEF IndInv, TypeOK
<1>2. CASE j \in jobs
  BY <1>1, <1>2 DEF IndInv, JobsEarned
<1>3. CASE j \notin jobs
  <2>1. PICK w \in Ways : FlowFound(w)
    BY <1>3 DEF Next, vars, Read, Work, WritePart, WriteLine, Start, InitialStat, Poll, OpenEve,
                ReadEnd, SkipLine, ReadLine, NotFoundStraight, NotFoundSwapped, Crash,
                UpdateSignatures, UpdateTags, UpdateFails, KnownTagsUpsert, KnownTagsUpdate,
                StoreFlow
  <2>2. PICK f \in stored \cap Matches(ratchet + 1) :
           /\ f \in Flows
           /\ jobs' = jobs \cup UpdatesFor(ratchet + 1, f) \cup KnownFor(ratchet + 1)
    BY <2>1, FoundFacts
  <2>3. ratchet + 1 \in 1 .. complete /\ ratchet + 1 \in 1 .. Len(Eve) /\ Acts(ratchet + 1)
    BY <2>1, FoundFacts
  <2>4. j \in UpdatesFor(ratchet + 1, f)
    BY <1>3, <2>2, <2>3, JobKinds, JobsForLine
  <2>5. j.line = ratchet + 1 /\ j.flow = f /\ (j.kind = "signatures" => HasAlert(ratchet + 1))
    BY <2>2, <2>3, <2>4, JobsForLine
  <2> QED
    BY <1>1, <2>2, <2>3, <2>5
<1> QED
  BY <1>2, <1>3

LEMMA MarksStayEarned ==
  ASSUME IndInv, [Next]_vars
  PROVE  UnstoredBare' /\ NoForeignMarks'
<1>1. complete \in Nat /\ complete' \in Nat /\ stored \subseteq stored' /\ complete <= complete'
  BY TypeStep, StoredGrows, Lines DEF IndInv, TypeOK
<1>2. \A j \in jobs \cap UpdateJobs : /\ j.flow \in stored \cap Matches(j.line)
                                     /\ j.line \in 1 .. complete /\ Acts(j.line)
  BY DEF IndInv, JobsEarned
<1>3. UnstoredBare'
  <2> SUFFICES ASSUME NEW f \in Flows \ stored'
               PROVE  BagToSet(tags'[f]) = {} /\ BagToSet(signatures'[f]) = {}
    BY DEF UnstoredBare, BagToSet
  <2>1. f \in Flows \ stored
    BY <1>1
  <2>2. BagToSet(tags[f]) = {} /\ BagToSet(signatures[f]) = {}
    BY <2>1 DEF IndInv, UnstoredBare
  <2> QED
    BY <1>2, <2>1, <2>2, MarksStep
<1>4. NoForeignMarks'
  <2> DEFINE About(f, m) == {n \in 1 .. m : Acts(n) /\ f \in Matches(n)}
  <2> SUFFICES ASSUME NEW f \in Flows
               PROVE  /\ BagToSet(tags'[f]) \subseteq (UNION {TagsOf(n) : n \in About(f, complete')})
                            \cup (IF f \in stored' THEN {FlowTag} ELSE {})
                      /\ BagToSet(signatures'[f]) \subseteq
                            {SignatureOf(n) : n \in About(f, complete')}
    BY DEF NoForeignMarks, BagToSet, TagsOf, SignatureOf, Matches, Acts, HasAlert
  <2>1. About(f, complete) \subseteq About(f, complete')
    BY <1>1
  <2>2. /\ BagToSet(tags[f]) \subseteq (UNION {TagsOf(n) : n \in About(f, complete)})
              \cup (IF f \in stored THEN {FlowTag} ELSE {})
        /\ BagToSet(signatures[f]) \subseteq {SignatureOf(n) : n \in About(f, complete)}
    BY DEF IndInv, NoForeignMarks
  <2>3. \A j \in jobs \cap UpdateJobs : j.flow = f => j.line \in About(f, complete)
    BY <1>2
  <2> HIDE DEF About
  <2>4. ASSUME NEW t \in BagToSet(tags'[f])
        PROVE  \/ t = FlowTag /\ f \in stored'
               \/ \E n \in About(f, complete') : t \in TagsOf(n)
    <3>1. CASE t \in BagToSet(tags[f])
      BY <1>1, <2>1, <2>2, <3>1
    <3>2. CASE t \notin BagToSet(tags[f])
      <4>1. \/ t = FlowTag /\ f \in stored'
            \/ \E j \in jobs \cap UpdateJobs : j.flow = f /\ t \in TagsOf(j.line)
        BY <2>4, <3>2, MarksStep
      <4> QED
        BY <2>1, <2>3, <4>1
    <3> QED
      BY <3>1, <3>2
  <2>5. ASSUME NEW s \in BagToSet(signatures'[f])
        PROVE  \E n \in About(f, complete') : s = SignatureOf(n)
    <3>1. CASE s \in BagToSet(signatures[f])
      BY <2>1, <2>2, <3>1
    <3>2. CASE s \notin BagToSet(signatures[f])
      <4>1. \E j \in jobs \cap UpdateJobs : j.flow = f /\ s = SignatureOf(j.line)
        BY <2>5, <3>2, MarksStep
      <4> QED
        BY <2>1, <2>3, <4>1
    <3> QED
      BY <3>1, <3>2
  <2>6. BagToSet(tags'[f]) \subseteq (UNION {TagsOf(n) : n \in About(f, complete')})
              \cup (IF f \in stored' THEN {FlowTag} ELSE {})
    <3>1. f \in stored' => FlowTag \in (IF f \in stored' THEN {FlowTag} ELSE {})
      OBVIOUS
    <3> QED
      BY <2>4, <3>1
  <2>7. BagToSet(signatures'[f]) \subseteq {SignatureOf(n) : n \in About(f, complete')}
    BY <2>5
  <2> QED
    BY <2>6, <2>7
<1> QED
  BY <1>3, <1>4

--------------------------------------------------------------------------------
(* Nothing is forgotten. *)

Accounted(j) == j \in jobs \/ j \in failed \/ Done(j)

\* Short of a restart, an update that is accounted for stays so: it leaves the pool done
\* or failed, leaves the failed ones done, and what is done stays.
LEMMA AccountedStays ==
  ASSUME IndInv, [Next]_vars, ~Crash, NEW j \in UpdateJobs, Accounted(j)
  PROVE  Accounted(j)'
<1>1. j.flow \in Flows /\ j.kind \in {"tags", "signatures"}
  BY JobKinds
<1>2. CASE Done(j)
  <2>1. /\ BagToSet(tags[j.flow]) \subseteq BagToSet(tags'[j.flow])
        /\ BagToSet(signatures[j.flow]) \subseteq BagToSet(signatures'[j.flow])
    BY <1>1, MarksStep
  <2> QED
    BY <1>2, <2>1 DEF Accounted, Done, BagToSet, BagIn, TagsOf, SignatureOf, HasAlert
<1>3. CASE UpdateTags(j)
  <2>1. BagToSet(tags'[j.flow]) = BagToSet(tags[j.flow]) \cup TagsOf(j.line)
    BY <1>1, <1>3, MergeUnites DEF UpdateTags, IndInv, Columns
  <2>2. j.kind = "tags"
    BY <1>3 DEF UpdateTags
  <2> QED
    BY <2>1, <2>2 DEF Accounted, Done, BagToSet, TagsOf, HasAlert
<1>4. CASE UpdateSignatures(j)
  <2>1. BagToSet(signatures'[j.flow]) = BagToSet(signatures[j.flow]) \cup {SignatureOf(j.line)}
    BY <1>1, <1>4, MergeUnites DEF UpdateSignatures, IndInv, Columns
  <2>2. j.kind = "signatures"
    BY <1>4 DEF UpdateSignatures
  <2> QED
    BY <2>1, <2>2 DEF Accounted, Done, BagToSet, BagIn, SignatureOf
<1>5. CASE UpdateFails(j)
  BY <1>5 DEF UpdateFails, Accounted
<1>6. CASE ~UpdateTags(j) /\ ~UpdateSignatures(j) /\ ~UpdateFails(j)
  <2>1. (j \in jobs => j \in jobs') /\ (j \in failed => j \in failed')
    <3>1. CASE UNCHANGED vars
      BY <3>1 DEF vars
    <3>2. CASE WritePart \/ WriteLine \/ (\E f \in Flows : StoreFlow(f)) \/ KnownTagsUpdate
      BY <3>2 DEF WritePart, WriteLine, StoreFlow, KnownTagsUpdate, history
    <3>3. CASE Read
      BY <3>3 DEF Read, Start, InitialStat, Poll, OpenEve, ReadEnd, SkipLine, ReadLine,
                  FlowFound, NotFoundStraight, NotFoundSwapped, history
    <3>4. CASE \E k \in jobs : Work(k)
      <4>1. PICK k \in jobs : Work(k)
        BY <3>4
      <4>2. CASE UpdateSignatures(k) \/ UpdateTags(k) \/ UpdateFails(k)
        BY <4>2, <1>6 DEF UpdateSignatures, UpdateTags, UpdateFails
      <4>3. CASE KnownTagsUpsert(k)
        BY <4>3, <1>1 DEF KnownTagsUpsert, history
      <4> QED
        BY <4>1, <4>2, <4>3 DEF Work
    <3> QED
      BY <3>1, <3>2, <3>3, <3>4 DEF Next
  <2> QED
    BY <1>2, <2>1 DEF Accounted
<1> QED
  BY <1>3, <1>4, <1>5, <1>6

\* The ratchet moves over one line at a time, and accounts for it.
LEMMA RatchetStep ==
  ASSUME IndInv, [Next]_vars, ~Crash
  PROVE  \/ ratchet' = ratchet /\ missed \subseteq missed'
         \/ /\ ratchet' = ratchet + 1
            /\ missed \subseteq missed' \cup {ratchet + 1}
            /\ \/ ~Acts(ratchet + 1)
               \/ ratchet + 1 \in missed'
               \/ \E w \in Ways : FlowFound(w)
  BY DEF Next, vars, reader, history, Read, Work, WritePart, WriteLine, Start, InitialStat, Poll,
         OpenEve, ReadEnd, SkipLine, ReadLine, FlowFound, NotFoundStraight, NotFoundSwapped,
         UpdateSignatures, UpdateTags, UpdateFails, KnownTagsUpsert, KnownTagsUpdate, StoreFlow

LEMMA ForgettingStep ==
  ASSUME IndInv, [Next]_vars
  PROVE  UpdatesAccounted'
<1>1. ratchet \in Nat /\ complete \in Nat /\ complete <= Len(Eve) /\ ratchet <= complete
  BY Lines DEF IndInv, TypeOK
<1>2. CASE Crash
  BY <1>2 DEF Crash, UpdatesAccounted
<1>3. CASE ~Crash
  <2> SUFFICES ASSUME NEW n \in 1 .. ratchet', Acts(n), n \notin missed'
               PROVE  \E f \in Matches(n) \cap stored' :
                         \A j \in UpdatesFor(n, f) : Accounted(j)'
    BY DEF UpdatesAccounted, Accounted, Acts, Matches, UpdatesFor, HasAlert
  <2>1. CASE n \in 1 .. ratchet /\ n \notin missed
    <3>1. PICK f \in Matches(n) \cap stored : \A j \in UpdatesFor(n, f) : Accounted(j)
      BY <2>1 DEF IndInv, UpdatesAccounted, Accounted
    <3>2. n \in 1 .. Len(Eve) /\ f \in Flows
      BY <1>1, <2>1, <3>1, Lines
    <3>3. \A j \in UpdatesFor(n, f) : Accounted(j)'
      BY <1>3, <3>1, <3>2, JobsForLine, AccountedStays
    <3> QED
      BY <3>1, <3>3, StoredGrows
  <2>2. CASE ~(n \in 1 .. ratchet /\ n \notin missed)
    <3>1. ratchet' = ratchet + 1 /\ n = ratchet + 1
      BY <1>1, <1>3, <2>2, RatchetStep
    <3>2. PICK w \in Ways : FlowFound(w)
      BY <1>1, <1>3, <3>1, RatchetStep
    <3>3. PICK f \in stored \cap Matches(n) :
             jobs' = jobs \cup UpdatesFor(n, f) \cup KnownFor(n)
      BY <3>1, <3>2, FoundFacts
    <3>4. \A j \in UpdatesFor(n, f) : Accounted(j)'
      BY <3>3 DEF Accounted
    <3> QED
      BY <3>3, <3>4, StoredGrows
  <2> QED
    BY <2>1, <2>2
<1> QED
  BY <1>2, <1>3

--------------------------------------------------------------------------------
(* No name is forgotten. *)

\* Only a restart forgets a name that is on its way.
LEMMA NameStays ==
  ASSUME IndInv, [Next]_vars, ~Crash, NEW t, NameKept(t)
  PROVE  NameKept(t)'
<1>1. CASE \E j \in jobs : Work(j)
  <2>1. PICK j \in jobs : Work(j)
    BY <1>1
  <2>2. CASE UpdateSignatures(j) \/ UpdateTags(j) \/ UpdateFails(j)
    BY <2>2 DEF UpdateSignatures, UpdateTags, UpdateFails, NameKept, names
  <2>3. CASE KnownTagsUpsert(j)
    BY <2>3 DEF KnownTagsUpsert, NameKept
  <2> QED
    BY <2>1, <2>2, <2>3 DEF Work
<1>2. CASE KnownTagsUpdate
  BY <1>2 DEF KnownTagsUpdate, NameKept
<1>3. CASE Read
  BY <1>3 DEF Read, Start, InitialStat, Poll, OpenEve, ReadEnd, SkipLine, ReadLine, FlowFound,
              NotFoundStraight, NotFoundSwapped, NameKept, names
<1>4. CASE WritePart \/ WriteLine \/ (\E f \in Flows : StoreFlow(f)) \/ UNCHANGED vars
  BY <1>4 DEF WritePart, WriteLine, StoreFlow, vars, NameKept, names
<1> QED
  BY <1>1, <1>2, <1>3, <1>4 DEF Next

\* What FlowFound submits includes the names of the line's tags.
LEMMA FoundNames ==
  ASSUME IndInv, NEW w \in Ways, FlowFound(w), NEW t \in TagsOf(ratchet + 1)
  PROVE  NameKept(t)'
  BY FoundFacts DEF KnownFor, NameKept

LEMMA JobsNamedStep ==
  ASSUME IndInv, [Next]_vars
  PROVE  JobsNamed'
<1> SUFFICES ASSUME NEW j \in jobs' \cap UpdateJobs, NEW t \in TagsOf(j.line)
             PROVE  NameKept(t)'
  BY DEF JobsNamed, UpdateJobs, TagsOf, HasAlert
<1>1. ~Crash
  BY DEF Crash
<1>2. CASE j \in jobs
  BY <1>1, <1>2, NameStays DEF IndInv, JobsNamed
<1>3. CASE j \notin jobs
  <2>1. PICK w \in Ways : FlowFound(w)
    BY <1>1, <1>3 DEF Next, vars, Read, Work, WritePart, WriteLine, Start, InitialStat, Poll,
                OpenEve, ReadEnd, SkipLine, ReadLine, NotFoundStraight, NotFoundSwapped,
                UpdateSignatures, UpdateTags, UpdateFails, KnownTagsUpsert, KnownTagsUpdate,
                StoreFlow
  <2>2. PICK f \in stored \cap Matches(ratchet + 1) :
           /\ f \in Flows
           /\ jobs' = jobs \cup UpdatesFor(ratchet + 1, f) \cup KnownFor(ratchet + 1)
    BY <2>1, FoundFacts
  <2>3. ratchet + 1 \in 1 .. Len(Eve)
    BY <2>1, FoundFacts
  <2>4. j \in UpdatesFor(ratchet + 1, f)
    BY <1>3, <2>2, <2>3, JobKinds, JobsForLine
  <2>5. j.line = ratchet + 1
    BY <2>2, <2>3, <2>4, JobsForLine
  <2> QED
    BY <2>1, <2>5, FoundNames
<1> QED
  BY <1>2, <1>3

\* A mark a flow did not have before this step has its name kept.
LEMMA NewMarkNamed ==
  ASSUME IndInv, [Next]_vars, ~Crash, NEW f \in Flows,
         NEW t \in BagToSet(tags'[f]) \ {FlowTag}, t \notin BagToSet(tags[f])
  PROVE  NameKept(t)'
<1>1. PICK j \in jobs \cap UpdateJobs : t \in TagsOf(j.line)
  BY MarksStep
<1>2. NameKept(t)
  BY <1>1 DEF IndInv, JobsNamed
<1> QED
  BY <1>2, NameStays

LEMMA ErrorsGrow ==
  ASSUME IndInv, [Next]_vars, errors' = 0
  PROVE  errors = 0 /\ ~Fault
<1>1. errors \in Nat
  BY EnricherAssumption DEF IndInv, TypeOK
<1>2. errors' = errors \/ Fault
  BY DEF Next, vars, bounds, Read, Work, WritePart, WriteLine, Start, InitialStat, Poll,
         OpenEve, ReadEnd, SkipLine, ReadLine, FlowFound, NotFound, NotFoundStraight,
         NotFoundSwapped, Crash, UpdateSignatures, UpdateTags, UpdateFails, KnownTagsUpsert,
         KnownTagsUpdate, StoreFlow
<1> QED
  BY <1>1, <1>2 DEF Fault

LEMMA StraightMissedStep ==
  ASSUME IndInv, [Next]_vars
  PROVE  StraightMissed'
<1> SUFFICES ASSUME pc' = "swapped", errors' = 0,
                    NEW f \in Flows, NEW t \in BagToSet(tags'[f]) \ {FlowTag}
             PROVE  NameKept(t)' \/ f \notin Eve[ratchet' + 1].match["straight"]
  BY DEF StraightMissed, BagToSet
<1>1. errors = 0 /\ ~Fault
  BY ErrorsGrow
<1>2. ~Crash
  BY DEF Crash
<1>3. CASE t \notin BagToSet(tags[f])
  BY <1>2, <1>3, NewMarkNamed
<1>4. CASE t \in BagToSet(tags[f])
  <2>1. CASE NotFoundStraight
    <3>1. stored \cap Eve[ratchet + 1].match["straight"] = {} /\ ratchet' = ratchet
      BY <1>1, <2>1 DEF NotFoundStraight, NotFound
    <3>2. f \in stored
      BY <1>4 DEF IndInv, UnstoredBare
    <3> QED
      BY <3>1, <3>2
  <2>2. CASE ~NotFoundStraight
    <3>1. pc = "swapped" /\ ratchet' = ratchet
      BY <1>2, <2>2 DEF Next, vars, reader, Read, Work, WritePart, WriteLine, Start, InitialStat,
             Poll, OpenEve, ReadEnd, SkipLine, ReadLine, FlowFound, NotFoundSwapped, Return,
             UpdateSignatures, UpdateTags, UpdateFails, KnownTagsUpsert, KnownTagsUpdate,
             StoreFlow
    <3>2. NameKept(t) \/ f \notin Eve[ratchet + 1].match["straight"]
      BY <1>1, <1>4, <3>1 DEF IndInv, StraightMissed
    <3> QED
      BY <1>2, <3>1, <3>2, NameStays
  <2> QED
    BY <2>1, <2>2
<1> QED
  BY <1>3, <1>4

\* How the ratchet moves over a line.
LEMMA RatchetMoves ==
  ASSUME [Next]_vars, ~Crash
  PROVE  \/ ratchet' = ratchet
         \/ ratchet' = ratchet + 1 /\ (SkipLine \/ (\E w \in Ways : FlowFound(w)) \/ NotFoundSwapped)
  BY DEF Next, vars, reader, Read, Work, WritePart, WriteLine, Start, InitialStat, Poll,
         OpenEve, ReadEnd, SkipLine, ReadLine, FlowFound, NotFoundStraight, NotFoundSwapped,
         UpdateSignatures, UpdateTags, UpdateFails, KnownTagsUpsert, KnownTagsUpdate, StoreFlow

LEMMA NamesStep ==
  ASSUME IndInv, [Next]_vars
  PROVE  NamesAccounted'
<1> SUFFICES ASSUME errors' = 0, NEW f \in Flows, NEW t \in BagToSet(tags'[f]) \ {FlowTag},
                    ~NameKept(t)'
             PROVE  \E n \in ratchet' + 1 .. complete' :
                       Acts(n) /\ t \in TagsOf(n) /\ f \in Matches(n)
  BY DEF NamesAccounted, BagToSet, Acts, TagsOf, Matches, HasAlert
<1>1. errors = 0 /\ ~Fault
  BY ErrorsGrow
<1>2. complete \in Nat /\ complete' \in Nat /\ complete <= complete' /\ ratchet \in Nat
  BY TypeStep, StoredGrows, Lines DEF IndInv, TypeOK
<1>3. CASE Crash
  <2>1. ratchet' = 0 /\ complete' = complete /\ tags' = tags
    BY <1>3 DEF Crash, file, rows
  <2>2. \E n \in 1 .. complete : Acts(n) /\ f \in Matches(n) /\ t \in TagsOf(n)
    BY <2>1 DEF IndInv, NoForeignMarks
  <2> QED
    BY <2>1, <2>2
<1>4. CASE ~Crash
  <2>1. t \in BagToSet(tags[f]) /\ ~NameKept(t)
    BY <1>4, NewMarkNamed, NameStays
  <2>2. PICK n \in ratchet + 1 .. complete : Acts(n) /\ t \in TagsOf(n) /\ f \in Matches(n)
    BY <1>1, <2>1 DEF IndInv, NamesAccounted
  <2>3. ratchet' = ratchet \/ n # ratchet + 1
    <3> SUFFICES ASSUME ratchet' # ratchet, n = ratchet + 1 PROVE FALSE
      OBVIOUS
    <3>1. CASE SkipLine
      BY <2>2, <3>1 DEF SkipLine
    <3>2. ASSUME NEW w \in Ways, FlowFound(w) PROVE FALSE
      BY <2>2, <3>2, FoundNames
    <3>3. CASE NotFoundSwapped
      <4>1. pc = "swapped" /\ stored \cap Eve[n].match["swapped"] = {}
        BY <1>1, <3>3 DEF NotFoundSwapped, NotFound
      <4>2. f \in stored
        BY <2>1 DEF IndInv, UnstoredBare
      <4>3. f \in Eve[n].match["straight"]
        BY <2>2, <4>1, <4>2 DEF Matches
      <4> QED
        BY <1>1, <2>1, <4>1, <4>3 DEF IndInv, StraightMissed
    <3> QED
      BY <1>4, <3>1, <3>2, <3>3, RatchetMoves
  <2>4. ratchet' = ratchet \/ ratchet' = ratchet + 1
    BY <1>4, RatchetMoves
  <2>5. n \in ratchet' + 1 .. complete'
    BY <1>2, <2>3, <2>4
  <2> QED
    BY <2>2, <2>5
<1> QED
  BY <1>3, <1>4

LEMMA Inductive == IndInv /\ [Next]_vars => IndInv'
  BY TypeStep, ColumnsStep, JobsStep, MarksStayEarned, ForgettingStep, JobsNamedStep,
     StraightMissedStep, NamesStep DEF IndInv

LEMMA Invariance == Spec => []IndInv
  BY Initially, Inductive, PTL DEF Spec

--------------------------------------------------------------------------------

\* Every reachable state of the file, the reader, the jobs and the columns has its type.
THEOREM TypeCorrectness == Spec => []TypeOK
<1>1. IndInv => TypeOK
  BY DEF IndInv
<1> QED
  BY <1>1, Invariance, PTL

\* For every line behind the offset each update is submitted, done or failed, unless no
\* flow was found, and the name of a tag that a flow was given is not lost on its way to the
\* tag table, whenever the process dies (main.go:104-109, db.go:184-225).
THEOREM NoUpdateIsForgotten == Spec => []NothingForgotten
<1>1. IndInv => NothingForgotten
  BY DEF IndInv, NothingForgotten
<1> QED
  BY <1>1, Invariance, PTL

\* A flow lists each mark once, however often eve.json is read (schema/functions.sql:139).
THEOREM MarksAreListedOnce == Spec => []ListedOnce
<1>1. IndInv => ListedOnce
  BY ColumnsListOnce DEF IndInv
<1> QED
  BY <1>1, Invariance, PTL

\* Marks come from lines about the flow that carries them (db.go:467-493).
THEOREM MarksAreEarned == Spec => []NoForeignMarks
<1>1. IndInv => NoForeignMarks
  BY DEF IndInv
<1> QED
  BY <1>1, Invariance, PTL

\* A flow has each of its marks once, and because of a line about it.
THEOREM MarksAreRight == Spec => []MarksEarnedOnce
  BY MarksAreListedOnce, MarksAreEarned, PTL DEF MarksEarnedOnce

\* No step takes a mark away from a flow (db.go:416, 445).
THEOREM MarksStay == Spec => MarksNeverLost
<1>1. IndInv /\ [Next]_vars =>
        \A f \in Flows : /\ BagToSet(tags[f]) \subseteq BagToSet(tags'[f])
                         /\ BagToSet(signatures[f]) \subseteq BagToSet(signatures'[f])
  BY MarksStep
<1> QED
  BY <1>1, Invariance, PTL DEF Spec, MarksNeverLost

--------------------------------------------------------------------------------
(* The enricher implements FlowMarks. *)

\* A step that leaves the lines and the rows alone cannot be seen.
LEMMA Unseen ==
  ASSUME UNCHANGED complete, UNCHANGED rows
  PROVE  UNCHANGED Marks!marksVars
  BY DEF rows, Marks!marksVars, tagSets, signatureSets

LEMMA InitMarks == Init => Marks!MarksInit
  BY SetBag DEF Init, Marks!MarksInit, tagSets, signatureSets, EmptyBag

\* Suricata completes a line.
LEMMA WriteLineStep ==
  ASSUME IndInv, WriteLine
  PROVE  Marks!Write
<1>1. complete' = complete + 1 /\ UNCHANGED rows /\ complete + 1 \in DOMAIN Eve
  BY Lines DEF WriteLine, IndInv, TypeOK
<1>2. tagSets' = tagSets /\ signatureSets' = signatureSets
  BY <1>1 DEF rows, tagSets, signatureSets
<1> QED
  BY <1>1, <1>2 DEF Marks!Write, aboutLines, rows

LEMMA StoreFlowStep ==
  ASSUME IndInv, NEW f \in Flows, StoreFlow(f)
  PROVE  Marks!Store(f)
<1>1. /\ f \notin stored /\ stored' = stored \cup {f} /\ complete' = complete
      /\ signatures' = signatures /\ tags' = [tags EXCEPT ![f] = SetToBag({FlowTag})]
  BY DEF StoreFlow, file
<1>2. tagSets' = [tagSets EXCEPT ![f] = {FlowTag}]
  <2>1. BagToSet(SetToBag({FlowTag})) = {FlowTag}
    BY SetBag
  <2>2. \A g \in Flows : tags'[g] = IF g = f THEN SetToBag({FlowTag}) ELSE tags[g]
    BY <1>1 DEF IndInv, TypeOK
  <2> QED
    BY <2>1, <2>2 DEF tagSets
<1>3. signatureSets' = signatureSets
  BY <1>1 DEF signatureSets
<1> QED
  BY <1>1, <1>2, <1>3 DEF Marks!Store

\* A job that runs does what its line asks for, to a flow the line is about.
LEMMA JobOfLine ==
  ASSUME IndInv, NEW j \in jobs, j.kind # "known"
  PROVE  /\ j \in UpdateJobs /\ j.flow \in Flows /\ j.line \in 1 .. complete
         /\ j.line \in DOMAIN Eve
         /\ j.flow \in stored \cap aboutLines[j.line]
         /\ j.kind = "signatures" => signaturesOfLines[j.line] = {SignatureOf(j.line)}
         /\ tagsOfLines[j.line] = TagsOf(j.line)
<1>1. j \in UpdateJobs
  BY JobKinds DEF IndInv, TypeOK
<1>2. j.line \in DOMAIN Eve /\ j.flow \in Flows
  BY <1>1, JobKinds, Lines
<1> QED
  BY <1>1, <1>2 DEF IndInv, JobsEarned, aboutLines, signaturesOfLines, tagsOfLines

LEMMA UpdateTagsStep ==
  ASSUME IndInv, NEW j \in jobs, UpdateTags(j)
  PROVE  Marks!AddTags(j.flow, j.line)
<1>1. /\ j.kind = "tags" /\ tags' = [tags EXCEPT ![j.flow] = Merge(@, TagsOf(j.line))]
      /\ UNCHANGED <<complete, stored, signatures>>
  BY DEF UpdateTags, file
<1>2. /\ j.flow \in Flows /\ j.flow \in stored \cap aboutLines[j.line]
      /\ tagsOfLines[j.line] = TagsOf(j.line)
  BY <1>1, JobOfLine
<1>3. \A g \in Flows : BagToSet(tags'[g]) = IF g = j.flow THEN BagToSet(tags[g]) \cup TagsOf(j.line)
                                            ELSE BagToSet(tags[g])
  BY <1>1, <1>2, MergeUnites DEF IndInv, TypeOK
<1>4. tagSets' = [tagSets EXCEPT ![j.flow] = @ \cup tagsOfLines[j.line]]
  BY <1>2, <1>3 DEF tagSets
<1>5. signatureSets' = signatureSets
  BY <1>1 DEF signatureSets
<1> QED
  BY <1>1, <1>2, <1>4, <1>5 DEF Marks!AddTags

LEMMA UpdateSignaturesStep ==
  ASSUME IndInv, NEW j \in jobs, UpdateSignatures(j)
  PROVE  Marks!AddSignature(j.flow, j.line)
<1>1. /\ j.kind = "signatures"
      /\ signatures' = [signatures EXCEPT ![j.flow] = Merge(@, {SignatureOf(j.line)})]
      /\ UNCHANGED <<complete, stored, tags>>
  BY DEF UpdateSignatures, file
<1>2. /\ j.flow \in Flows /\ j.flow \in stored \cap aboutLines[j.line]
      /\ signaturesOfLines[j.line] = {SignatureOf(j.line)}
  BY <1>1, JobOfLine
<1>3. \A g \in Flows : BagToSet(signatures'[g]) =
                          IF g = j.flow THEN BagToSet(signatures[g]) \cup {SignatureOf(j.line)}
                          ELSE BagToSet(signatures[g])
  BY <1>1, <1>2, MergeUnites DEF IndInv, TypeOK
<1>4. signatureSets' = [signatureSets EXCEPT ![j.flow] = @ \cup signaturesOfLines[j.line]]
  BY <1>2, <1>3 DEF signatureSets
<1>5. tagSets' = tagSets
  BY <1>1 DEF tagSets
<1> QED
  BY <1>1, <1>2, <1>4, <1>5 DEF Marks!AddSignature

LEMMA StepOfMarks ==
  ASSUME IndInv, [Next]_vars
  PROVE  [Marks!MarksNext]_(Marks!marksVars)
<1>1. CASE WriteLine
  BY <1>1, WriteLineStep DEF Marks!MarksNext
<1>2. ASSUME NEW f \in Flows, StoreFlow(f) PROVE Marks!MarksNext
  BY <1>2, StoreFlowStep DEF Marks!MarksNext
<1>3. ASSUME NEW j \in jobs, UpdateTags(j) PROVE Marks!MarksNext
  BY <1>3, UpdateTagsStep, JobOfLine DEF UpdateTags, Marks!MarksNext
<1>4. ASSUME NEW j \in jobs, UpdateSignatures(j) PROVE Marks!MarksNext
  BY <1>4, UpdateSignaturesStep, JobOfLine DEF UpdateSignatures, Marks!MarksNext
<1>5. \/ WriteLine
      \/ \E f \in Flows : StoreFlow(f)
      \/ \E j \in jobs : UpdateTags(j) \/ UpdateSignatures(j)
      \/ UNCHANGED complete /\ UNCHANGED rows
  BY DEF Next, vars, file, rows, Read, Work, WritePart, Start, InitialStat, Poll, OpenEve,
         ReadEnd, SkipLine, ReadLine, FlowFound, NotFoundStraight, NotFoundSwapped, Crash,
         UpdateFails, KnownTagsUpsert, KnownTagsUpdate
<1> QED
  BY <1>1, <1>2, <1>3, <1>4, <1>5, Unseen

\* To a reader of the flow table, offsets, workers, failed calls, repeated scans and restarts
\* (main.go:46-117) come down to this: a stored flow gets the tags or the signature of one
\* complete line about it, all at once, and nothing is ever taken away.
THEOREM EnricherImplementsFlowMarks == Spec => ImplementsFlowMarks
  BY InitMarks, StepOfMarks, Invariance, PTL DEF Spec, ImplementsFlowMarks, Marks!MarksSpec
================================================================================
