------------------------- MODULE UnitArtifacts_proofs -------------------------
(***************************************************************************)
(* Proofs about the files of a unit.  In the workspace, for any number of  *)
(* documents and of regions: the types, that no document is given the      *)
(* output of another one when no two of them share the names of their      *)
(* files, and that a cancellation is near.  In the resume store, for any   *)
(* images and artifact types: what is reloaded is what an execution would  *)
(* give, but for the entries that were disturbed and not saved again       *)
(* since.                                                                  *)
(***************************************************************************)
EXTENDS UnitArtifacts, FiniteSetTheorems, TLAPS

-----------------------------------------------------------------------------
(* The workspace.                                                          *)

\* The files a unit has written, and still finds, are of its own page.
Own(d) == [doc |-> d, regions |-> recognized[d]]

FilesAreOwn ==
  \A d \in Docs :
    /\ filled[d] = recognized[d]
    /\ pc[d] \in {"written", "extracted", "done"} => layoutFile[FileName(d)] = Own(d)
    /\ pc[d] \in {"extracted", "done"} => textFile[FileName(d)] = Own(d)
    /\ pc[d] = "done" => altoFile[FileName(d)] = Own(d)
    /\ read[d].text # None \/ read[d].alto # None => pc[d] = "done"

FanoutInv == FilesAreOwn /\ OutputsAreOwn

LEMMA NamesOfDocs == \A d \in Docs : FileName(d) \in Names
BY DEF Names

LEMMA TypeOK_init == Init => TypeOK
<1> SUFFICES ASSUME Init PROVE TypeOK
  OBVIOUS
<1>1. 1 \in 1..(NRegions + 1)
  BY FanoutAssumption
<1>2. next \in [Docs -> 1..(NRegions + 1)] /\ pc \in [Docs -> PcSet]
  BY <1>1 DEF Init, PcSet
<1>3. QED
  BY <1>2 DEF Init, TypeOK

\* The fields of TypeOK about the thread of a document.
ThreadsOK ==
  /\ pc \in [Docs -> PcSet]
  /\ next \in [Docs -> 1..(NRegions + 1)]
  /\ recognized \in [Docs -> SUBSET Regions]
  /\ filled \in [Docs -> SUBSET Regions]

LEMMA NextRegion ==
  ASSUME ThreadsOK, NEW d \in Docs, next[d] \in Regions
  PROVE  [next EXCEPT ![d] = @ + 1] \in [Docs -> 1..(NRegions + 1)]
<1>1. next[d] + 1 \in 1..(NRegions + 1)
  BY FanoutAssumption DEF Regions
<1>2. QED
  BY <1>1 DEF ThreadsOK

\* A region is cropped and recognized while it is one of the page.
AtRegion == \A d \in Docs : pc[d] \in {"crop", "recognize"} => next[d] \in Regions

LEMMA ThreadsOK_step ==
  ASSUME TypeOK, AtRegion, NEW d \in Docs, UnitStep(d)
  PROVE  ThreadsOK' /\ AtRegion'
<1> USE DEF TypeOK, AtRegion
<1>0. ThreadsOK /\ \A s \in PcSet : [pc EXCEPT ![d] = s] \in [Docs -> PcSet]
  BY DEF ThreadsOK
<1>1. CASE LoadLayout(d) \/ PollRegion(d)
  BY <1>0, <1>1 DEF LoadLayout, PollRegion, ThreadsOK, Goto, PcSet, Ended
<1>2. ASSUME pc[d] \in {"crop", "recognize"}, SkipRegion(d) PROVE ThreadsOK' /\ AtRegion'
  <2>1. next' \in [Docs -> 1..(NRegions + 1)] /\ \A e \in Docs \ {d} : next'[e] = next[e]
    BY <1>0, <1>2, NextRegion DEF SkipRegion
  <2>2. pc' \in [Docs -> PcSet] /\ pc'[d] = "region" /\ \A e \in Docs \ {d} : pc'[e] = pc[e]
    BY <1>0, <1>2 DEF SkipRegion, Goto, PcSet
  <2>3. QED
    BY <1>2, <2>1, <2>2 DEF SkipRegion, ThreadsOK
<1>3. CASE CropRegion(d)
  <2>1. ASSUME NEW end \in {"recognize", "failed", "crashed"}, Goto(d, end),
               UNCHANGED <<next, recognized, filled>>
        PROVE  ThreadsOK' /\ AtRegion'
    BY <1>0, <1>3, <2>1 DEF CropRegion, ThreadsOK, Goto, PcSet, Ended
  <2>2. QED
    BY <1>2, <1>3, <2>1 DEF CropRegion
<1>4. CASE RecognizeRegion(d)
  <2>1. ASSUME Goto(d, "region"), next' = [next EXCEPT ![d] = @ + 1],
               recognized' = [recognized EXCEPT ![d] = @ \union {next[d]}], Fill(d)
        PROVE  ThreadsOK' /\ AtRegion'
    <3>1. next[d] \in Regions
      BY <1>4 DEF RecognizeRegion
    <3>2. next' \in [Docs -> 1..(NRegions + 1)] /\ \A e \in Docs \ {d} : next'[e] = next[e]
      BY <1>0, <2>1, <3>1, NextRegion
    <3>3. pc' \in [Docs -> PcSet] /\ pc'[d] = "region" /\ \A e \in Docs \ {d} : pc'[e] = pc[e]
      BY <1>0, <2>1 DEF Goto, PcSet
    <3>4. recognized' \in [Docs -> SUBSET Regions] /\ filled' \in [Docs -> SUBSET Regions]
      BY <2>1, <3>1 DEF Fill
    <3>5. QED
      BY <3>2, <3>3, <3>4 DEF ThreadsOK
  <2>2. ASSUME NEW end \in {"cancelled", "crashed"}, Goto(d, end),
               UNCHANGED <<next, recognized, filled>>
        PROVE  ThreadsOK' /\ AtRegion'
    BY <1>0, <2>2 DEF ThreadsOK, Goto, PcSet, Ended
  <2>3. QED
    BY <1>2, <1>4, <2>1, <2>2 DEF RecognizeRegion
<1>5. CASE OpenFilled(d) \/ WriteFilled(d)
  BY <1>0, <1>5 DEF OpenFilled, WriteFilled, ThreadsOK, Goto, PcSet, Ended
<1>6. CASE ExtractText(d) \/ AssembleAlto(d)
  <2>1. UNCHANGED <<next, recognized, filled>>
        /\ \E s \in {"cancelled", "extracted", "done", "crashed", "failed"} : Goto(d, s)
    BY <1>6 DEF ExtractText, AssembleAlto, Derive
  <2>2. QED
    BY <1>0, <2>1 DEF ThreadsOK, Goto, PcSet, Ended
<1>7. QED
  BY <1>1, <1>3, <1>4, <1>5, <1>6 DEF UnitStep, OwnStep

LEMMA TypeOK_step == TypeOK /\ AtRegion /\ [Next]_vars => TypeOK' /\ AtRegion'
<1> SUFFICES ASSUME TypeOK, AtRegion, [Next]_vars PROVE TypeOK' /\ AtRegion'
  OBVIOUS
<1>1. ASSUME NEW d \in Docs, UnitStep(d) PROVE TypeOK' /\ AtRegion'
  <2>1. ThreadsOK' /\ AtRegion'
    BY <1>1, ThreadsOK_step
  <2>2. UNCHANGED <<cancelEvent, read>>
    BY <1>1 DEF UnitStep, OwnStep, LoadLayout, PollRegion, CropRegion, RecognizeRegion, OpenFilled,
                WriteFilled, ExtractText, AssembleAlto, Derive
  <2>3. layoutFile' \in [Names -> Content \union {None, Torn}]
        /\ textFile' \in [Names -> Content \union {None}]
        /\ altoFile' \in [Names -> Content \union {None}]
    <3> USE DEF TypeOK
    <3>1. CASE UNCHANGED files
      BY <3>1 DEF files
    <3>2. CASE OpenFilled(d)
      BY <3>2, NamesOfDocs DEF OpenFilled
    <3>3. CASE WriteFilled(d)
      BY <3>3, NamesOfDocs DEF WriteFilled, Page, Content
    <3>4. ASSUME NEW from, NEW to, Derive(d, from, to, textFile), UNCHANGED altoFile
          PROVE  /\ UNCHANGED <<layoutFile, altoFile>>
                 /\ textFile' \in [Names -> Content \union {None}]
      BY <3>4, NamesOfDocs DEF Derive, IsPage
    <3>5. ASSUME NEW from, NEW to, Derive(d, from, to, altoFile), UNCHANGED textFile
          PROVE  /\ UNCHANGED <<layoutFile, textFile>>
                 /\ altoFile' \in [Names -> Content \union {None}]
      BY <3>5, NamesOfDocs DEF Derive, IsPage
    <3>6. CASE ExtractText(d) \/ AssembleAlto(d)
      BY <3>4, <3>5, <3>6 DEF ExtractText, AssembleAlto
    <3>7. QED
      BY <1>1, <3>1, <3>2, <3>3, <3>6
         DEF UnitStep, OwnStep, LoadLayout, PollRegion, CropRegion, RecognizeRegion
  <2>4. QED
    BY <2>1, <2>2, <2>3 DEF TypeOK, ThreadsOK
<1>2. CASE TriggerCancel
  BY <1>2 DEF TriggerCancel, TypeOK, AtRegion, files
<1>3. CASE ReadOutputs
  <2>1. \A d \in Docs : textFile[FileName(d)] \in Content \union {None}
                        /\ altoFile[FileName(d)] \in Content \union {None}
    BY NamesOfDocs DEF TypeOK
  <2>2. read' \in [Docs -> [text : Content \union {None}, alto : Content \union {None}]]
    BY <1>3, <2>1 DEF ReadOutputs
  <2>3. QED
    BY <1>3, <2>2 DEF ReadOutputs, TypeOK, AtRegion, files
<1>4. CASE UNCHANGED vars
  BY <1>4 DEF vars, files, TypeOK, AtRegion
<1>5. QED
  BY <1>1, <1>2, <1>3, <1>4 DEF Next, Over

\* The threads and the files of a hybrid pipeline (pipeline/fanout.py) keep
\* their types, whatever the ids of the documents.
THEOREM FanoutTyped == Spec => []TypeOK
<1>1. Init => AtRegion
  BY DEF Init, AtRegion
<1>2. QED
  BY <1>1, TypeOK_init, TypeOK_step, PTL DEF Spec

-----------------------------------------------------------------------------
(* Documents whose names differ.                                           *)

LEMMA OwnNames == Aliased = {} => \A d, e \in Docs : FileName(d) = FileName(e) => d = e
BY DEF FileName

LEMMA FanoutInv_init == Init => FanoutInv
BY DEF Init, FanoutInv, FilesAreOwn, OutputsAreOwn

\* What a step of its thread keeps of the files of a document.
LEMMA FilesAreOwn_thread ==
  ASSUME TypeOK, FilesAreOwn, NEW d \in Docs, UnitStep(d)
  PROVE  /\ filled'[d] = recognized'[d]
         /\ pc'[d] \in {"written", "extracted", "done"} => layoutFile'[FileName(d)] = Own(d)'
         /\ pc'[d] \in {"extracted", "done"} => textFile'[FileName(d)] = Own(d)'
         /\ pc'[d] = "done" => altoFile'[FileName(d)] = Own(d)'
         /\ pc[d] # "done"
<1> USE DEF TypeOK, FilesAreOwn, Own
<1>1. CASE LoadLayout(d) \/ PollRegion(d)
  BY <1>1 DEF LoadLayout, PollRegion, Goto
<1>2. CASE CropRegion(d)
  BY <1>2 DEF CropRegion, SkipRegion, Goto
<1>3. CASE RecognizeRegion(d)
  <2>1. pc[d] = "recognize" /\ pc'[d] \in {"region", "cancelled", "crashed"}
    BY <1>3 DEF RecognizeRegion, SkipRegion, Goto
  <2>2. filled'[d] = recognized'[d]
    <3>1. CASE UNCHANGED <<recognized, filled>>
      BY <3>1
    <3>2. CASE recognized' = [recognized EXCEPT ![d] = @ \union {next[d]}] /\ Fill(d)
      BY <3>2 DEF Fill
    <3>3. QED
      BY <1>3, <3>1, <3>2 DEF RecognizeRegion, SkipRegion
  <2>3. QED
    BY <2>1, <2>2
<1>4. CASE OpenFilled(d)
  BY <1>4 DEF OpenFilled, Goto
<1>5. CASE WriteFilled(d)
  BY <1>5, NamesOfDocs DEF WriteFilled, Goto, Page
<1>6. CASE ExtractText(d)
  BY <1>6, NamesOfDocs DEF ExtractText, Derive, Goto
<1>7. CASE AssembleAlto(d)
  BY <1>7, NamesOfDocs DEF AssembleAlto, Derive, Goto
<1>8. QED
  BY <1>1, <1>2, <1>3, <1>4, <1>5, <1>6, <1>7 DEF UnitStep, OwnStep

\* What the thread of another document leaves alone.
LEMMA UnitStep_frame ==
  ASSUME TypeOK, Aliased = {}, NEW d \in Docs, UnitStep(d), NEW e \in Docs \ {d}
  PROVE  /\ pc'[e] = pc[e] /\ recognized'[e] = recognized[e] /\ filled'[e] = filled[e]
         /\ layoutFile'[FileName(e)] = layoutFile[FileName(e)]
         /\ textFile'[FileName(e)] = textFile[FileName(e)]
         /\ altoFile'[FileName(e)] = altoFile[FileName(e)]
<1>1. FileName(e) # FileName(d) /\ FileName(e) \in Names
  BY OwnNames, NamesOfDocs
<1>2. CASE UNCHANGED files
  BY <1>2 DEF files, UnitStep, OwnStep, LoadLayout, PollRegion, CropRegion, RecognizeRegion, SkipRegion,
              Fill, OpenFilled, WriteFilled, ExtractText, AssembleAlto, Derive, Goto, TypeOK
<1>3. CASE OpenFilled(d) \/ WriteFilled(d)
  BY <1>1, <1>3 DEF OpenFilled, WriteFilled, Goto, TypeOK
<1>4. CASE ExtractText(d) \/ AssembleAlto(d)
  BY <1>1, <1>4 DEF ExtractText, AssembleAlto, Derive, Goto, TypeOK
<1>5. QED
  BY <1>2, <1>3, <1>4 DEF UnitStep, OwnStep, LoadLayout, PollRegion, CropRegion, RecognizeRegion

LEMMA FanoutInv_step ==
  Aliased = {} /\ TypeOK /\ FanoutInv /\ [Next]_vars => FanoutInv'
<1> SUFFICES ASSUME Aliased = {}, TypeOK, FanoutInv, [Next]_vars PROVE FanoutInv'
  OBVIOUS
<1> USE DEF FanoutInv
<1>1. ASSUME NEW d \in Docs, UnitStep(d) PROVE FanoutInv'
  <2>1. /\ filled'[d] = recognized'[d]
        /\ pc'[d] \in {"written", "extracted", "done"} => layoutFile'[FileName(d)] = Own(d)'
        /\ pc'[d] \in {"extracted", "done"} => textFile'[FileName(d)] = Own(d)'
        /\ pc'[d] = "done" => altoFile'[FileName(d)] = Own(d)'
        /\ pc[d] # "done"
    BY <1>1, FilesAreOwn_thread
  <2>2. \A e \in Docs \ {d} :
          /\ pc'[e] = pc[e] /\ recognized'[e] = recognized[e] /\ filled'[e] = filled[e]
          /\ layoutFile'[FileName(e)] = layoutFile[FileName(e)]
          /\ textFile'[FileName(e)] = textFile[FileName(e)]
          /\ altoFile'[FileName(e)] = altoFile[FileName(e)]
    BY <1>1, UnitStep_frame
  <2>3. UNCHANGED read
    BY <1>1 DEF UnitStep, OwnStep, LoadLayout, PollRegion, CropRegion, RecognizeRegion, OpenFilled,
                WriteFilled, ExtractText, AssembleAlto, Derive
  <2>4. read[d].text = None /\ read[d].alto = None
    BY <2>1 DEF FilesAreOwn
  <2>5. FilesAreOwn'
    BY <2>1, <2>2, <2>3, <2>4 DEF FilesAreOwn, Own
  <2>6. OutputsAreOwn'
    BY <2>2, <2>3, <2>4 DEF OutputsAreOwn
  <2>7. QED
    BY <2>5, <2>6
<1>2. CASE ReadOutputs
  <2>1. UNCHANGED <<pc, recognized, filled, files>>
        /\ \A d \in Docs : read'[d] =
             IF pc[d] = "done"
             THEN [text |-> textFile[FileName(d)], alto |-> altoFile[FileName(d)]]
             ELSE [text |-> None, alto |-> None]
    BY <1>2 DEF ReadOutputs
  <2>2. ASSUME NEW d \in Docs
        PROVE  /\ read'[d].text # None \/ read'[d].alto # None => pc[d] = "done"
               /\ \A c \in {read'[d].text, read'[d].alto} : c # None => c = Own(d)
    <3>1. CASE pc[d] = "done"
      <4>1. read'[d] = [text |-> textFile[FileName(d)], alto |-> altoFile[FileName(d)]]
        BY <2>1, <3>1, Zenon
      <4>2. read'[d].text = textFile[FileName(d)] /\ read'[d].alto = altoFile[FileName(d)]
        BY <4>1
      <4>3. QED
        BY <3>1, <4>2 DEF FilesAreOwn
    <3>2. CASE pc[d] # "done"
      <4>1. read'[d] = [text |-> None, alto |-> None]
        BY <2>1, <3>2, Zenon
      <4>2. read'[d].text = None /\ read'[d].alto = None
        BY <4>1
      <4>3. QED
        BY <4>2
    <3>3. QED
      BY <3>1, <3>2
  <2>3. FilesAreOwn' /\ OutputsAreOwn'
    BY <2>1, <2>2 DEF FilesAreOwn, OutputsAreOwn, Own, files
  <2>4. QED
    BY <2>3
<1>3. CASE UNCHANGED <<pc, recognized, filled, files, read>>
  BY <1>3 DEF FilesAreOwn, OutputsAreOwn, Own, files
<1>4. QED
  BY <1>1, <1>2, <1>3 DEF Next, TriggerCancel, Over, vars

\* When no two document ids differ by / and _ only, the texts and the ALTO
\* files the run reads (pipeline/fanout.py, layout_to_text, alto_assembler) are
\* those of each document, however many threads share the workspace.
THEOREM DistinctNamesSuffice == ASSUME Aliased = {} PROVE Spec => []OutputsAreOwn
<1>1. Init => AtRegion
  BY DEF Init, AtRegion
<1>2. FanoutInv => OutputsAreOwn
  BY DEF FanoutInv
<1>3. TypeOK /\ FanoutInv /\ [Next]_vars => FanoutInv'
  BY FanoutInv_step
<1>4. QED
  BY <1>1, <1>2, <1>3, TypeOK_init, TypeOK_step, FanoutInv_init, PTL DEF Spec

-----------------------------------------------------------------------------
(* Cancellation.                                                           *)

\* After the cancellation a page has at most the region it is at left to
\* recognize; once it has it too, it must poll before the next one.
OneRegionLeft(d, n) ==
  /\ cancelEvent
  /\ \/ Cardinality(recognized[d]) <= n
     \/ Cardinality(recognized[d]) <= n + 1 /\ pc[d] \notin {"crop", "recognize"}

LEMMA CountRecognized ==
  ASSUME NEW S \in SUBSET Regions, NEW x
  PROVE  /\ Cardinality(S) \in Nat
         /\ Cardinality(S \union {x}) \in Nat
         /\ Cardinality(S \union {x}) <= Cardinality(S) + 1
<1>1. IsFiniteSet(Regions)
  BY FanoutAssumption, FS_Interval DEF Regions
<1>2. IsFiniteSet(S)
  BY <1>1, FS_Subset
<1>3. Cardinality(S) \in Nat
  BY <1>2, FS_CardinalityType
<1>4. Cardinality(S \union {x}) = IF x \in S THEN Cardinality(S) ELSE Cardinality(S) + 1
  BY <1>2, FS_AddElement
<1>5. QED
  BY <1>3, <1>4

LEMMA OneRegionLeft_step ==
  ASSUME NEW d \in Docs, NEW n \in Nat, TypeOK, OneRegionLeft(d, n), [Next]_vars
  PROVE  OneRegionLeft(d, n)'
<1> USE DEF OneRegionLeft
<1>1. recognized[d] \in SUBSET Regions /\ Cardinality(recognized[d]) \in Nat
  BY CountRecognized DEF TypeOK
<1>2. ASSUME UnitStep(d) PROVE OneRegionLeft(d, n)'
  <2>1. cancelEvent'
    BY <1>2 DEF UnitStep, OwnStep, LoadLayout, PollRegion, CropRegion, RecognizeRegion, OpenFilled,
                WriteFilled, ExtractText, AssembleAlto, Derive
  <2>2. CASE RecognizeRegion(d)
    <3>1. Cardinality(recognized[d]) <= n /\ pc'[d] \notin {"crop", "recognize"}
      BY <2>2 DEF RecognizeRegion, SkipRegion, Goto, TypeOK
    <3>2. Cardinality(recognized'[d]) \in Nat
          /\ Cardinality(recognized'[d]) <= Cardinality(recognized[d]) + 1
      <4>1. recognized'[d] = recognized[d] \/ recognized'[d] = recognized[d] \union {next[d]}
        BY <2>2 DEF RecognizeRegion, SkipRegion, TypeOK
      <4>2. Cardinality(recognized[d] \union {next[d]}) \in Nat
            /\ Cardinality(recognized[d] \union {next[d]}) <= Cardinality(recognized[d]) + 1
        BY <1>1, CountRecognized
      <4>3. QED
        BY <1>1, <4>1, <4>2
    <3>3. QED
      BY <1>1, <2>1, <3>1, <3>2
  <2>3. CASE CropRegion(d)
    BY <1>1, <2>1, <2>3 DEF CropRegion, SkipRegion
  <2>4. CASE LoadLayout(d) \/ PollRegion(d) \/ OpenFilled(d) \/ WriteFilled(d)
             \/ ExtractText(d) \/ AssembleAlto(d)
    <3>1. recognized' = recognized /\ pc'[d] \notin {"crop", "recognize"}
      BY <2>4 DEF LoadLayout, PollRegion, StopsAtRegion, OpenFilled, WriteFilled, ExtractText,
                  AssembleAlto, Derive, Goto, TypeOK
    <3>2. QED
      BY <1>1, <2>1, <3>1
  <2>5. QED
    BY <1>2, <2>2, <2>3, <2>4 DEF UnitStep, OwnStep
<1>3. ASSUME NEW e \in Docs \ {d}, UnitStep(e) PROVE OneRegionLeft(d, n)'
  <2>1. cancelEvent' /\ pc'[d] = pc[d] /\ recognized'[d] = recognized[d]
    BY <1>3 DEF UnitStep, OwnStep, LoadLayout, PollRegion, CropRegion, RecognizeRegion, SkipRegion, OpenFilled,
                WriteFilled, ExtractText, AssembleAlto, Derive, Goto, TypeOK
  <2>2. QED
    BY <2>1
<1>4. ASSUME UNCHANGED <<pc, recognized>>, cancelEvent' PROVE OneRegionLeft(d, n)'
  BY <1>4
<1>5. QED
  BY <1>2, <1>3, <1>4 DEF Next, TriggerCancel, ReadOutputs, Over, vars

\* A cancellation takes effect within one region of every page, as the poll in
\* front of each region (pipeline/fanout.py) is meant to, however many there are.
THEOREM CancellationIsNear == Spec => CancelWithinOneRegion
<1> SUFFICES ASSUME NEW d \in Docs, NEW n \in 0 .. NRegions
             PROVE  Spec => [](cancelEvent /\ Cardinality(recognized[d]) = n
                                 => [](Cardinality(recognized[d]) <= n + 1))
  BY DEF CancelWithinOneRegion
<1>0. n \in Nat
  BY FanoutAssumption
<1>1. cancelEvent /\ Cardinality(recognized[d]) = n => OneRegionLeft(d, n)
  BY <1>0 DEF OneRegionLeft
<1>2. TypeOK /\ OneRegionLeft(d, n) /\ [Next]_vars => OneRegionLeft(d, n)'
  BY <1>0, OneRegionLeft_step
<1>3. TypeOK /\ OneRegionLeft(d, n) => Cardinality(recognized[d]) <= n + 1
  <2>1. TypeOK => recognized[d] \in SUBSET Regions
    BY DEF TypeOK
  <2>2. TypeOK => Cardinality(recognized[d]) \in Nat
    BY <2>1, CountRecognized
  <2>3. QED
    BY <1>0, <2>2 DEF OneRegionLeft
<1>4. QED
  BY <1>1, <1>2, <1>3, FanoutTyped, PTL DEF Spec

-----------------------------------------------------------------------------
(* The resume store.                                                       *)

\* A whole index stands over whole files, of the image of the entry.
WholeEntries ==
  \A k \in Images \ moved :
    index[k] = "whole" => \A t \in Types : file[k][t] = k

\* A run that executes or saves does so for the image of its key, under no
\* whole index, unless its entry was disturbed; what it need no longer copy is
\* copied.
SavingInv ==
  /\ savePc = "pending" /\ key \notin moved => key = image /\ index[key] # "whole"
  /\ savePc \in {"saving", "copying", "indexing"} =>
       /\ key \notin moved => out = key /\ index[key] # "whole"
       /\ \A t \in Types \ todo : file[key][t] = out
  /\ savePc = "indexing" => todo = {}

ReloadInv ==
  /\ savePc = "reloaded" => /\ index[key] = "whole"
                        /\ \A t \in Types : file[key][t] # Nothing
  /\ ReloadsAreIdentical
  /\ ReloadsAreComplete

ResumeInv == StoreTypeOK /\ WholeEntries /\ SavingInv /\ ReloadInv

LEMMA ResumeInv_init == StoreInit => ResumeInv
BY ResumeAssumption DEF StoreInit, ResumeInv, StoreTypeOK, WholeEntries, SavingInv, ReloadInv,
   ReloadsAreIdentical, ReloadsAreComplete, Nothing, Half

LEMMA StoreTypeOK_step == ASSUME StoreTypeOK, [StoreNext]_storeVars PROVE StoreTypeOK'
<1> USE ResumeAssumption DEF StoreTypeOK
<1>1. CASE Plan
  BY <1>1 DEF Plan, store, world
<1>2. CASE Evaluate
  BY <1>2 DEF Evaluate, store, world
<1>3. CASE Execute
  BY <1>3 DEF Execute, store, world
<1>4. CASE CopyOpens
  BY <1>4 DEF CopyOpens, world
<1>5. CASE CopyWrites
  BY <1>5 DEF CopyWrites, world
<1>6. CASE IndexOpens
  BY <1>6 DEF IndexOpens, local, world
<1>7. CASE IndexWrites
  BY <1>7 DEF IndexWrites, local, world
<1>8. CASE SaveFails
  BY <1>8 DEF SaveFails, store, local, world
<1>9. CASE RunEnds \/ Crash
  BY <1>9 DEF RunEnds, Crash, Forget, store, world
<1>10. CASE EditImage
  BY <1>10 DEF EditImage, store, local, world
<1>11. CASE LoseFile
  BY <1>11 DEF LoseFile, local, world
<1>12. CASE UNCHANGED storeVars
  BY <1>12 DEF storeVars
<1> QED BY <1>1, <1>2, <1>3, <1>4, <1>5, <1>6, <1>7, <1>8, <1>9, <1>10, <1>11, <1>12
        DEF StoreNext

LEMMA ResumeInv_step ==
  ASSUME ResumeInv, [StoreNext]_storeVars
  PROVE  ResumeInv'
<1>t. StoreTypeOK'
  BY StoreTypeOK_step DEF ResumeInv
<1> SUFFICES WholeEntries' /\ SavingInv' /\ ReloadInv'
  BY <1>t DEF ResumeInv
<1> USE ResumeAssumption
    DEF ResumeInv, WholeEntries, SavingInv, ReloadInv, ReloadsAreIdentical, ReloadsAreComplete
<1>1. CASE Plan
  <2>1. image \notin moved /\ index[image] = "whole" => Loads(image)
    BY DEF StoreTypeOK, Loads, Nothing
  <2>2. Loads(image) => /\ index[image] = "whole"
                        /\ \A t \in Types : file[image][t] # Nothing
    BY DEF Loads
  <2>3. /\ key' = image
        /\ savePc' = IF Loads(image) THEN "reloaded" ELSE "pending"
        /\ UNCHANGED <<image, moved, index, file, got>>
    BY <1>1 DEF Plan, store, world
  <2> QED BY <2>1, <2>2, <2>3 DEF StoreTypeOK
<1>2. CASE Evaluate
  BY <1>2 DEF Evaluate, store, StoreTypeOK, world
<1>3. CASE Execute
  BY <1>3 DEF Execute, store, StoreTypeOK, world
<1>4. CASE CopyOpens
  <2>1. PICK t \in todo : file' = [file EXCEPT ![key][t] = Half]
    BY <1>4 DEF CopyOpens, world
  <2>2. savePc = "saving" /\ savePc' = "copying"
        /\ UNCHANGED <<image, moved, index, key, out, todo, got>>
    BY <1>4 DEF CopyOpens, world
  <2>3. \A k \in Images, u \in Types : k # key \/ u # t => file'[k][u] = file[k][u]
    BY <2>1 DEF StoreTypeOK
  <2>4. WholeEntries'
    BY <2>2, <2>3 DEF StoreTypeOK
  <2>5. SavingInv'
    BY <2>1, <2>2, <2>3 DEF StoreTypeOK
  <2> QED BY <2>2, <2>4, <2>5
<1>5. CASE CopyWrites
  <2>1. savePc = "copying" /\ savePc' = "saving" /\ todo' = todo \ {cur}
        /\ UNCHANGED <<image, moved, index, key, out, cur, got>>
    BY <1>5 DEF CopyWrites, world
  <2>2. \A k \in Images, u \in Types : k # key \/ u # cur => file'[k][u] = file[k][u]
    BY <1>5 DEF CopyWrites, StoreTypeOK, world
  <2>3. file'[key][cur] = out
    BY <1>5, <2>1 DEF CopyWrites, StoreTypeOK
  <2>4. WholeEntries'
    BY <2>1, <2>2 DEF StoreTypeOK
  <2>5. SavingInv'
    BY <2>1, <2>2, <2>3 DEF StoreTypeOK
  <2> QED BY <2>1, <2>4, <2>5
<1>6. CASE IndexOpens
  BY <1>6 DEF IndexOpens, MayIndex, local, StoreTypeOK, Half, world
<1>7. CASE IndexWrites
  BY <1>7 DEF IndexWrites, local, StoreTypeOK, world
<1>8. CASE SaveFails
  BY <1>8 DEF SaveFails, store, local, world
<1>9. CASE RunEnds \/ Crash
  BY <1>9 DEF RunEnds, Crash, Forget, store, world
<1>10. CASE EditImage
  BY <1>10 DEF EditImage, store, local, world
<1>11. CASE LoseFile
  BY <1>11 DEF LoseFile, world
<1>12. CASE UNCHANGED storeVars
  BY <1>12 DEF storeVars
<1> QED BY <1>1, <1>2, <1>3, <1>4, <1>5, <1>6, <1>7, <1>8, <1>9, <1>10, <1>11, <1>12
        DEF StoreNext

\* The types of the store and of the run, whatever the user and the disk do.
THEOREM ResumeTyped == StoreSpec => []StoreTypeOK
<1>1. StoreInit => StoreTypeOK
  BY ResumeInv_init DEF ResumeInv
<1> QED BY <1>1, StoreTypeOK_step, PTL DEF StoreSpec

\* What the evaluation reads in a reloaded entry is what the execution of the
\* unit on the planned image gives (load and save of resume.py).
THEOREM ReloadsIdentical ==
  StoreSpec => []ReloadsAreIdentical
<1>1. ResumeInv => ReloadsAreIdentical
  BY DEF ResumeInv, ReloadInv
<1>2. ResumeInv /\ [StoreNext]_storeVars => ResumeInv'
  BY ResumeInv_step
<1> QED BY <1>1, <1>2, ResumeInv_init, PTL DEF StoreSpec

\* What is reloaded has all its files (load checks each of them), whatever
\* was lost before the run.
THEOREM ReloadsComplete ==
  StoreSpec => []ReloadsAreComplete
<1>1. ResumeInv => ReloadsAreComplete
  BY DEF ResumeInv, ReloadInv
<1>2. ResumeInv /\ [StoreNext]_storeVars => ResumeInv'
  BY ResumeInv_step
<1> QED BY <1>1, <1>2, ResumeInv_init, PTL DEF StoreSpec

\* No later run makes a saved entry unloadable (save is reached only when load
\* found nothing).
THEOREM SavedForAll ==
  StoreSpec => SavedOnceForAll
<1> DEFINE Keeps == \A k \in Images \ moved' : Loads(k) => Loads(k)'
<1>1. ResumeInv /\ [StoreNext]_storeVars => ResumeInv'
  BY ResumeInv_step
<1>2. ASSUME ResumeInv, StoreNext PROVE Keeps
  <2> SUFFICES ASSUME NEW k \in Images \ moved', Loads(k) PROVE Loads(k)'
    OBVIOUS
  <2> USE ResumeAssumption DEF Loads
  <2>1. index[k] = "whole" /\ \A t \in Types : file[k][t] # Nothing
    OBVIOUS
  <2>2. k = key /\ k \notin moved => savePc \notin {"saving", "copying", "indexing"}
    BY <1>2, <2>1 DEF ResumeInv, SavingInv
  <2>3. CASE CopyOpens
    BY <2>1, <2>2, <2>3 DEF CopyOpens, world, ResumeInv, StoreTypeOK
  <2>4. CASE CopyWrites
    BY <2>1, <2>2, <2>4 DEF CopyWrites, world, ResumeInv, StoreTypeOK
  <2>5. CASE IndexOpens
    BY <2>1, <2>2, <2>5 DEF IndexOpens, world, ResumeInv, StoreTypeOK
  <2>6. CASE IndexWrites
    BY <2>1, <2>6 DEF IndexWrites, ResumeInv, StoreTypeOK
  <2>7. CASE LoseFile
    BY <2>1, <2>7 DEF LoseFile, ResumeInv, StoreTypeOK
  <2>8. CASE Plan \/ Evaluate \/ Execute \/ SaveFails \/ RunEnds \/ Crash \/ EditImage
    BY <2>1, <2>8 DEF Plan, Evaluate, Execute, SaveFails, RunEnds, Crash, Forget,
       EditImage, store
  <2> QED BY <1>2, <2>3, <2>4, <2>5, <2>6, <2>7, <2>8 DEF StoreNext
<1>3. ResumeInv /\ [StoreNext]_storeVars => [Keeps]_storeVars
  BY <1>2
<1> QED BY <1>1, <1>3, ResumeInv_init, PTL DEF StoreSpec, SavedOnceForAll

-----------------------------------------------------------------------------
(* Both.                                                                   *)

\* A unit that writes in its workspace never meets the store of an earlier
\* process: a behaviour of both is one of each, so what is proved of either
\* holds of the two.
THEOREM WorkspaceAndStoreStandAlone == UnitSpec => Spec /\ StoreSpec
<1>1. UnitInit => Init /\ StoreInit
  BY DEF UnitInit
<1>2. [UnitNext]_unitVars => [Next]_vars /\ [StoreNext]_storeVars
  BY DEF UnitNext, InWorkspace, unitVars
<1>. QED
  BY <1>1, <1>2, PTL DEF UnitSpec, Spec, StoreSpec
=============================================================================
