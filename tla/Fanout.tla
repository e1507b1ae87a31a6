-------------------------------- MODULE Fanout -------------------------------
(***************************************************************************)
(* A hybrid pipeline: the regions of each page are cropped and recognized  *)
(* one by one (cinoc.pipeline.fanout), the filled layout is written, its   *)
(* text is extracted (layout_to_text) and it is assembled into ALTO        *)
(* (alto_assembler).  The documents of the pipeline are processed by       *)
(* concurrent threads that share one workspace; the run reads the texts    *)
(* and the ALTO files once all of them ended.                              *)
(*                                                                         *)
(* The three files are named after document_id.replace('/', '_'), so that  *)
(* the documents of Aliased, whose ids differ by / and _ only ("a/b",      *)
(* "a_b"), share them.  A layout or text is reduced to the document it     *)
(* belongs to and the set of its regions that carry text.                  *)
(***************************************************************************)
EXTENDS Naturals, FiniteSets

CONSTANTS
  Docs,        \* documents of the pipeline, each with its thread
  Aliased,     \* those among them that share their file names
  NRegions,    \* regions found on each page
  None, Torn   \* content of an absent file, and of one being written

ASSUME FanoutAssumption ==
  /\ Aliased \subseteq Docs
  /\ NRegions \in Nat
  /\ None # Torn

VARIABLES
  cancelEvent,  \* the event of the run's control
  pc,           \* where the thread of each document is
  next,         \* the next region of each page
  recognized,   \* regions whose recognizer call returned a text
  filled,       \* regions of the page that were given a line
  layoutFile,   \* <name>.filled.layout.json
  textFile,     \* <name>.layout.txt
  altoFile,     \* <name>.alto.xml
  read          \* what the run read, of each document, once all ended

files == <<layoutFile, textFile, altoFile>>
vars  == <<cancelEvent, pc, next, recognized, filled, files, read>>

Regions == 1..NRegions

\* Mutation: the name forgets the document.
FileNameOfPipeline(d) == Docs

\* The name of a document's files: document_id.replace('/', '_').  A name is
\* identified with the set of the documents that bear it.
FileName(d) == IF d \in Aliased THEN Aliased ELSE {d}
Names == {FileName(d) : d \in Docs}

Content  == [doc : Docs, regions : SUBSET Regions]
IsPage(c) == c \notin {None, Torn}
Page(d)  == [doc |-> d, regions |-> filled[d]]

Ended == {"done", "failed", "cancelled", "crashed"}
PcSet == {"start", "region", "crop", "recognize", "writing", "written",
          "extracted"} \union Ended

TypeOK ==
  /\ cancelEvent \in BOOLEAN
  /\ pc \in [Docs -> PcSet]
  /\ next \in [Docs -> 1..(NRegions + 1)]
  /\ recognized \in [Docs -> SUBSET Regions]
  /\ filled \in [Docs -> SUBSET Regions]
  /\ layoutFile \in [Names -> Content \union {None, Torn}]
  /\ textFile \in [Names -> Content \union {None}]
  /\ altoFile \in [Names -> Content \union {None}]
  /\ read \in [Docs -> [text : Content \union {None},
                        alto : Content \union {None}]]

Init ==
  /\ cancelEvent = FALSE
  /\ pc = [d \in Docs |-> "start"]
  /\ next = [d \in Docs |-> 1]
  /\ recognized = [d \in Docs |-> {}]
  /\ filled = [d \in Docs |-> {}]
  /\ layoutFile = [n \in Names |-> None]
  /\ textFile = [n \in Names |-> None]
  /\ altoFile = [n \in Names |-> None]
  /\ read = [d \in Docs |-> [text |-> None, alto |-> None]]

Goto(d, s) == pc' = [pc EXCEPT ![d] = s]

-----------------------------------------------------------------------------
(* The step "recognize".                                                   *)

\* The executor polls, then the layout of the step "segment" is read.
LoadLayout(d) ==
  /\ pc[d] = "start"
  /\ \/ cancelEvent /\ Goto(d, "cancelled")
     \/ ~cancelEvent /\ \E end \in {"region", "failed"} : Goto(d, end)
  /\ UNCHANGED <<cancelEvent, next, recognized, filled, files, read>>

\* Mutation: the cancellation is polled once per page.
StopsAtFirstRegion(d) == cancelEvent /\ next[d] = 1

StopsAtRegion(d) == cancelEvent

\* The poll in front of each region.
PollRegion(d) ==
  /\ pc[d] = "region" /\ next[d] \in Regions
  /\ Goto(d, IF StopsAtRegion(d) THEN "cancelled" ELSE "crop")
  /\ UNCHANGED <<cancelEvent, next, recognized, filled, files, read>>


\* The region is left as it is; the next one follows.
SkipRegion(d) ==
  /\ Goto(d, "region")
  /\ next' = [next EXCEPT ![d] = @ + 1]
  /\ UNCHANGED <<recognized, filled>>

\* _region_image: a region without geometry is skipped; a crop that fails
\* (empty box, unreadable image) raises AdapterStepError, outside of the try
\* that isolates the region.
CropRegion(d) ==
  /\ pc[d] = "crop"
  /\ \/ SkipRegion(d)
     \/ /\ \E end \in {"recognize", "failed", "crashed"} : Goto(d, end)
        /\ UNCHANGED <<next, recognized, filled>>
  /\ UNCHANGED <<cancelEvent, files, read>>

\* The region is given its line.
Fill(d) == filled' = [filled EXCEPT ![d] = @ \union {next[d]}]

\* The recognizer returns a text, raises AdapterStepError (as does a text
\* that cannot be read), stops on the cancellation, or raises otherwise.
RecognizeRegion(d) ==
  /\ pc[d] = "recognize"
  /\ \/ /\ Goto(d, "region")
        /\ next' = [next EXCEPT ![d] = @ + 1]
        /\ recognized' = [recognized EXCEPT ![d] = @ \union {next[d]}]
        /\ Fill(d)
     \/ SkipRegion(d)
     \/ /\ \/ cancelEvent /\ Goto(d, "cancelled")
           \/ Goto(d, "crashed")
        /\ UNCHANGED <<next, recognized, filled>>
  /\ UNCHANGED <<cancelEvent, files, read>>

\* write_bytes empties the file, then fills it; an OSError is not translated.
OpenFilled(d) ==
  /\ pc[d] = "region" /\ next[d] \notin Regions
  /\ \/ /\ Goto(d, "writing")
        /\ layoutFile' = [layoutFile EXCEPT ![FileName(d)] = Torn]
     \/ Goto(d, "crashed") /\ UNCHANGED layoutFile
  /\ UNCHANGED <<cancelEvent, next, recognized, filled,
                 textFile, altoFile, read>>

WriteFilled(d) ==
  /\ pc[d] = "writing"
  /\ \/ /\ Goto(d, "written")
        /\ layoutFile' = [layoutFile EXCEPT ![FileName(d)] = Page(d)]
     \/ Goto(d, "crashed") /\ UNCHANGED layoutFile
  /\ UNCHANGED <<cancelEvent, next, recognized, filled,
                 textFile, altoFile, read>>

-----------------------------------------------------------------------------
(* The steps "text" and "assemble": each polls, reads the filled layout     *)
(* and writes its own file.                                                *)

Derive(d, from, to, file) ==
  /\ pc[d] = from
  /\ \/ cancelEvent /\ Goto(d, "cancelled") /\ UNCHANGED file
     \/ /\ ~cancelEvent
        /\ LET page == layoutFile[FileName(d)] IN
           \/ /\ IsPage(page)
              /\ Goto(d, to)
              /\ file' = [file EXCEPT ![FileName(d)] = page]
           \/ /\ Goto(d, IF IsPage(page) THEN "crashed" ELSE "failed")
              /\ UNCHANGED file
  /\ UNCHANGED <<cancelEvent, next, recognized, filled,
                 layoutFile, read>>

ExtractText(d) ==
  Derive(d, "written", "extracted", textFile) /\ UNCHANGED altoFile
AssembleAlto(d) ==
  Derive(d, "extracted", "done", altoFile) /\ UNCHANGED textFile

-----------------------------------------------------------------------------
(* The run.                                                                *)

TriggerCancel ==
  /\ ~cancelEvent
  /\ cancelEvent' = TRUE
  /\ UNCHANGED <<pc, next, recognized, filled, files, read>>

\* Once every unit ended, unless one of them ended the run: the sink takes
\* the ALTO files and the evaluation reads the texts.  A failed unit has no
\* artifact.
ReadOutputs ==
  /\ \A d \in Docs : pc[d] \in {"done", "failed"}
  /\ read' = [d \in Docs |->
       IF pc[d] = "done"
       THEN [text |-> textFile[FileName(d)], alto |-> altoFile[FileName(d)]]
       ELSE [text |-> None, alto |-> None]]
  /\ UNCHANGED <<cancelEvent, pc, next, recognized, filled, files>>

\* What the thread of a unit does by itself; RecognizeRegion happens when the
\* recognizer returns.
OwnStep(d) ==
  \/ LoadLayout(d) \/ PollRegion(d) \/ CropRegion(d)
  \/ OpenFilled(d) \/ WriteFilled(d) \/ ExtractText(d) \/ AssembleAlto(d)

UnitStep(d) == OwnStep(d) \/ RecognizeRegion(d)

Over == (\A d \in Docs : pc[d] \in Ended) /\ UNCHANGED vars

Next ==
  \/ \E d \in Docs : UnitStep(d)
  \/ TriggerCancel \/ ReadOutputs \/ Over

Spec == Init /\ [][Next]_vars

\* The threads run.  The call of a recognizer need not return: the deadline of
\* a run is infinite, and some remote recognizers then have no timeout.
FairSpec == Spec /\ \A d \in Docs : WF_vars(OwnStep(d))

-----------------------------------------------------------------------------
(* Properties.                                                             *)

\* What the run reads of a document is this document's page, with a line for
\* the very regions its recognizer read, however the threads interleave.
OutputsAreOwn ==
  \A d \in Docs : \A c \in {read[d].text, read[d].alto} :
    c # None => c = [doc |-> d, regions |-> recognized[d]]

\* A cancellation takes effect within one region: afterwards each unit
\* recognizes at most the region it is at.
CancelWithinOneRegion ==
  \A d \in Docs : \A n \in 0..NRegions :
    [](cancelEvent /\ Cardinality(recognized[d]) = n =>
         [](Cardinality(recognized[d]) <= n + 1))

\* Every unit ends, but for one whose recognizer never returns; such a unit
\* holds no other.
UnitsEnd ==
  \A d \in Docs : <>(pc[d] \in Ended) \/ <>[](pc[d] = "recognize")
=============================================================================
