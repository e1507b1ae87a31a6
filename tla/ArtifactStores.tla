--------------------------- MODULE ArtifactStores ---------------------------
(***************************************************************************)
(* What a run leaves on the disk for the web pages: the layouts of the     *)
(* segmentation store (cinoc.app.segmentation), whose latest one the       *)
(* launcher previews, and the ALTO files of the export store               *)
(* (cinoc.app.alto_store), which the page of a report serves as one        *)
(* archive.  The sink of the job runner saves both, document after         *)
(* document, once the pipelines have run and before the report is written. *)
(*                                                                         *)
(* Each store has a lock, which its writers take and its readers do not.   *)
(* The latest layout is the one whose directory changed last, and the      *)
(* directory changes when layout.json is created in it, not when the file  *)
(* is filled.  The clock of the file system never goes back, but it may    *)
(* not tick between two directories.                                       *)
(***************************************************************************)
EXTENDS Naturals, FiniteSets

CONSTANTS
  Jobs,       \* jobs whose sinks may run at the same time
  NDocs,      \* documents of a job, each with a layout and an ALTO file
  Previewers, Downloaders,  \* pages that ask for the preview, for an archive
  Nobody

ASSUME StoresAssumption == NDocs \in Nat \ {0} /\ Nobody \notin Jobs

VARIABLES
  layouts,    \* the layouts, by job and document: the state of the file, the
              \* mtime of its directory
  altos,      \* the ALTO files, by job and document: "torn" or "whole"
  segLock, altoLock,  \* who holds the lock of each store
  reports,    \* jobs whose report exists
  sink,       \* sink[j]: [pc, doc]
  clock,      \* the clock of the file system
  saved,      \* the mtime of the last layout saved without failure
  preview,    \* preview[p]: [pc, since, listed, shows]
  archive     \* archive[d]: [pc, of, left, holds]

storesVars == <<layouts, altos, segLock, altoLock, reports, sink, clock, saved,
                preview, archive>>
segVars  == <<layouts, segLock, clock, saved>>
altoVars == <<altos, altoLock>>

Docs   == 1..NDocs
Demo   == <<"demo", 0>>
NoShow == [of |-> Demo, mtime |-> 0]

\* The demonstration is saved before the first request.
StoresInit ==
  /\ layouts = [i \in {Demo} |-> [state |-> "whole", mtime |-> 1]]
  /\ altos = [i \in {} |-> "whole"]
  /\ segLock = Nobody /\ altoLock = Nobody
  /\ reports = {}
  /\ sink = [j \in Jobs |-> [pc |-> "layout", doc |-> 1]]
  /\ clock = 1 /\ saved = 1
  /\ preview = [p \in Previewers |->
                  [pc |-> "idle", since |-> 0, listed |-> {}, shows |-> NoShow]]
  /\ archive = [d \in Downloaders |->
                  [pc |-> "idle", of |-> Nobody, left |-> {}, holds |-> {}]]

Doc(j) == <<j, sink[j].doc>>
SinkAt(j, pc) == sink[j].pc = pc /\ sink[j].doc <= NDocs
SinkTo(j, pc) == sink' = [sink EXCEPT ![j].pc = pc]

Put(f, i, v) == [k \in DOMAIN f \union {i} |-> IF k = i THEN v ELSE f[k]]

-----------------------------------------------------------------------------
(* The sink of a job: _persist_layout, then _persist_alto.                 *)

\* SegmentationStore.save: a new directory, and the file in it, still empty.
LayoutOpens(j) ==
  /\ SinkAt(j, "layout") /\ segLock = Nobody
  /\ segLock' = j
  /\ clock' \in {clock, clock + 1}
  /\ layouts' = Put(layouts, Doc(j), [state |-> "torn", mtime |-> clock'])
  /\ SinkTo(j, "layout opened")
  /\ UNCHANGED <<altoVars, reports, saved, preview, archive>>

\* The file is filled; its directory does not change.
LayoutWrites(j) ==
  /\ SinkAt(j, "layout opened")
  /\ layouts' = [layouts EXCEPT ![Doc(j)].state = "whole"]
  /\ saved' = layouts[Doc(j)].mtime
  /\ segLock' = Nobody
  /\ SinkTo(j, "alto")
  /\ UNCHANGED <<clock, altoVars, reports, preview, archive>>

\* No layout to save, or an error of the disk, which is logged: the run goes
\* on, and a file that was opened stays torn.
LayoutFails(j) ==
  /\ \/ SinkAt(j, "layout opened") /\ segLock' = Nobody
     \/ SinkAt(j, "layout") /\ UNCHANGED segLock
  /\ SinkTo(j, "alto")
  /\ UNCHANGED <<layouts, clock, saved, altoVars, reports, preview, archive>>

AltoOpens(j) ==
  /\ SinkAt(j, "alto") /\ altoLock = Nobody
  /\ altoLock' = j
  /\ altos' = Put(altos, Doc(j), "torn")
  /\ SinkTo(j, "alto opened")
  /\ UNCHANGED <<segVars, reports, preview, archive>>

NextDoc(j) == sink' = [sink EXCEPT ![j] = [pc |-> "layout", doc |-> @.doc + 1]]

AltoWrites(j) ==
  /\ SinkAt(j, "alto opened")
  /\ altos' = Put(altos, Doc(j), "whole")
  /\ altoLock' = Nobody
  /\ NextDoc(j)
  /\ UNCHANGED <<segVars, reports, preview, archive>>

AltoFails(j) ==
  /\ \/ SinkAt(j, "alto opened") /\ altoLock' = Nobody
     \/ SinkAt(j, "alto") /\ UNCHANGED altoLock
  /\ NextDoc(j)
  /\ UNCHANGED <<segVars, altos, reports, preview, archive>>

\* Mutation: the report is written before the sink.
ReportsEarly(j) == j \notin reports

Reports(j) == j \notin reports /\ sink[j].doc > NDocs

\* JobRunner._execute: the report, once the engine returned.
ReportWritten(j) ==
  /\ Reports(j)
  /\ reports' = reports \union {j}
  /\ UNCHANGED <<segVars, altoVars, sink, preview, archive>>

-----------------------------------------------------------------------------
(* segmentation_preview: latest, then get_layout, without the lock.        *)

PreviewLists(p) ==
  /\ preview[p].pc = "idle"
  /\ preview' = [preview EXCEPT ![p].pc = "listed", ![p].since = saved,
                                ![p].listed = DOMAIN layouts]
  /\ UNCHANGED <<segVars, altoVars, reports, sink, archive>>

\* Mutation: the first directory in place of the latest one.
AnyOf(listed) == listed

\* max over the directories, by mtime: any of those that changed last.
LatestOf(listed) ==
  {i \in listed : \A k \in listed : layouts[k].mtime <= layouts[i].mtime}

PreviewPicks(p) ==
  /\ preview[p].pc = "listed"
  /\ \E i \in LatestOf(preview[p].listed) :
       preview' = [preview EXCEPT ![p].pc = "picked", ![p].listed = {i}]
  /\ UNCHANGED <<segVars, altoVars, reports, sink, archive>>

\* A file that is not whole does not validate: the page gets an error 500.
PreviewReads(p) ==
  /\ preview[p].pc = "picked"
  /\ \E i \in preview[p].listed :
       preview' = IF layouts[i].state = "whole"
                  THEN [preview EXCEPT ![p].pc = "shown",
                          ![p].shows = [of |-> i, mtime |-> layouts[i].mtime]]
                  ELSE [preview EXCEPT ![p].pc = "failed"]
  /\ UNCHANGED <<segVars, altoVars, reports, sink, archive>>

-----------------------------------------------------------------------------
(* get_alto_archive: the report must exist, then AltoStore.archive, without *)
(* the lock.                                                                *)

ArchiveLists(d, j) ==
  /\ archive[d].pc = "idle" /\ j \in reports
  /\ archive' = [archive EXCEPT ![d] =
       [pc |-> "zipping", of |-> j, holds |-> {},
        left |-> {i \in DOMAIN altos : i[1] = j}]]
  /\ UNCHANGED <<segVars, altoVars, reports, sink, preview>>

ArchiveReads(d) ==
  /\ archive[d].pc = "zipping"
  /\ \E i \in archive[d].left :
       archive' = [archive EXCEPT ![d].left = @ \ {i},
                                  ![d].holds = @ \union {<<i, altos[i]>>}]
  /\ UNCHANGED <<segVars, altoVars, reports, sink, preview>>

ArchiveServed(d) ==
  /\ archive[d].pc = "zipping" /\ archive[d].left = {}
  /\ archive' = [archive EXCEPT ![d].pc = "served"]
  /\ UNCHANGED <<segVars, altoVars, reports, sink, preview>>

-----------------------------------------------------------------------------
StoresNext ==
  \/ \E j \in Jobs :
       \/ LayoutOpens(j) \/ LayoutWrites(j) \/ LayoutFails(j)
       \/ AltoOpens(j) \/ AltoWrites(j) \/ AltoFails(j) \/ ReportWritten(j)
  \/ \E p \in Previewers : PreviewLists(p) \/ PreviewPicks(p) \/ PreviewReads(p)
  \/ \E d \in Downloaders, j \in Jobs : ArchiveLists(d, j)
  \/ \E d \in Downloaders : ArchiveReads(d) \/ ArchiveServed(d)

StoresSpec == StoresInit /\ [][StoresNext]_storesVars

-----------------------------------------------------------------------------
\* The preview shows a layout whose directory is no older than the one of the
\* last layout saved when the page asked for it, although it reads without the
\* lock files that are being written.  By the clock of the file system: of the
\* layouts saved within one of its ticks, any may be shown.
PreviewIsRecent ==
  \A p \in Previewers :
    preview[p].pc = "shown" => preview[p].shows.mtime >= preview[p].since

\* The archive of a report holds what the store will ever have of its run: no
\* file is missing from it, and one is torn only where the disk failed the sink.
ArchiveHoldsTheRun ==
  \A d \in Downloaders : archive[d].pc = "served" =>
    archive[d].holds =
      {<<i, altos[i]>> : i \in {k \in DOMAIN altos : k[1] = archive[d].of}}
=============================================================================
