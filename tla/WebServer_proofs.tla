-------------------------- MODULE WebServer_proofs ---------------------------
(***************************************************************************)
(* Proofs about the services of the web application, for any number of     *)
(* requests, corpora, files, jobs and pages, and any time to live: the     *)
(* cache serves recent values, the disk matches the registry of corpora,   *)
(* the archive of a report is complete, the preview is recent, the rate of *)
(* requests is bounded and an import gives each document its own image and *)
(* text; for any number of units, of cuts and of restarts, the browser     *)
(* sees the journal of its job in sequence.                                *)
(***************************************************************************)
EXTENDS WebServer, SseStream, FiniteSetTheorems, SequenceTheorems, TLAPS

\* In the application each service behaves as it does alone.
THEOREM ServicesStandAlone ==
  WebSpec => CorpusSpec /\ ImportSpec /\ StoresSpec /\ TtlSpec /\ RateSpec
<1>1. WebInit => CorpusInit /\ ImportInit /\ StoresInit /\ TtlInit /\ RateInit
  BY DEF WebInit
<1>2. [WebNext]_webVars => [CorpusNext]_corpusVars /\ [ImportNext]_importVars
                             /\ [StoresNext]_storesVars /\ [TtlNext]_ttlVars /\ [RateNext]_rateVars
  BY DEF WebNext, webVars
<1>3. QED
  BY <1>1, <1>2, PTL DEF WebSpec, CorpusSpec, ImportSpec, StoresSpec, TtlSpec, RateSpec

-----------------------------------------------------------------------------
(* The cache.                                                              *)

\* No thread is ahead of the clock; what was computed was read after the
\* thread looked at the clock, and what is kept expires within Ttl.
ValuesAreRecent ==
  /\ entry.expiry <= entry.value + Ttl
  /\ \A t \in Askers :
       /\ asker[t].now <= time
       /\ asker[t].pc = "computed" => asker[t].now <= asker[t].value

TtlInv == TtlTypeOK /\ ValuesAreRecent /\ ServedIsRecent

LEMMA TtlInv_init == TtlInit => TtlInv
BY TtlAssumption DEF TtlInit, TtlInv, TtlTypeOK, ValuesAreRecent, ServedIsRecent

LEMMA TtlInv_step == TtlInv /\ [TtlNext]_ttlVars => TtlInv'
<1> SUFFICES ASSUME TtlInv, [TtlNext]_ttlVars PROVE TtlInv'
  OBVIOUS
<1> USE TtlAssumption DEF TtlInv, TtlTypeOK, ValuesAreRecent, ServedIsRecent
<1>1. CASE TimePasses
  BY <1>1 DEF TimePasses
<1>2. ASSUME NEW t \in Askers, ReadsClock(t) PROVE TtlInv'
  <2> USE <1>2 DEF ReadsClock, AskerAt
  <2>1. TtlTypeOK'
    OBVIOUS
  <2>2. ValuesAreRecent'
    OBVIOUS
  <2>3. ServedIsRecent'
    OBVIOUS
  <2>4. QED
    BY <2>1, <2>2, <2>3
<1>3. ASSUME NEW t \in Askers, LooksUp(t) PROVE TtlInv'
  <2> USE <1>3 DEF LooksUp, AskerAt, Fresh
  <2>1. TtlTypeOK'
    OBVIOUS
  <2>2. ValuesAreRecent'
    OBVIOUS
  <2>3. ServedIsRecent'
    OBVIOUS
  <2>4. QED
    BY <2>1, <2>2, <2>3
<1>4. ASSUME NEW t \in Askers, ReadsSource(t) PROVE TtlInv'
  <2> USE <1>4 DEF ReadsSource, AskerAt
  <2>1. TtlTypeOK'
    OBVIOUS
  <2>2. ValuesAreRecent'
    OBVIOUS
  <2>3. ServedIsRecent'
    OBVIOUS
  <2>4. QED
    BY <2>1, <2>2, <2>3
<1>5. ASSUME NEW t \in Askers, ComputeFails(t) PROVE TtlInv'
  BY <1>5 DEF ComputeFails, AskerAt, AskerTo
<1>6. ASSUME NEW t \in Askers, Stores(t) PROVE TtlInv'
  <2> USE <1>6 DEF Stores, AskerAt, AskerTo, Expiry
  <2>1. TtlTypeOK'
    OBVIOUS
  <2>2. ValuesAreRecent'
    OBVIOUS
  <2>3. ServedIsRecent'
    OBVIOUS
  <2>4. QED
    BY <2>1, <2>2, <2>3
<1>7. CASE UNCHANGED ttlVars
  BY <1>7 DEF ttlVars
<1>8. QED
  BY <1>1, <1>2, <1>3, <1>4, <1>5, <1>6, <1>7 DEF TtlNext

\* However many threads compute at once and whichever stores last, no page is
\* served a catalogue that was read Ttl or more before its request.
THEOREM CataloguesAreRecent == TtlSpec => []ServedIsRecent
<1>1. TtlInv => ServedIsRecent
  BY DEF TtlInv
<1>2. QED
  BY <1>1, TtlInv_init, TtlInv_step, PTL DEF TtlSpec

-----------------------------------------------------------------------------
(* The corpora.                                                            *)

\* What the disk holds of a corpus, at each point of the request that makes
\* it: nothing before it begins nor after an import was cleaned up, all the
\* files once it is built, and the files up to the one being made meanwhile.
WholeUpTo(c, n) == \A f \in Files : f < n => files[c][f] = "whole"

OwnsItsFiles(c) ==
  /\ maker[c].pc = "idle" => c \notin dir /\ maker[c].next = 1
  /\ maker[c].pc = "rejected" /\ maker[c].kind = "import" => c \notin dir
  /\ maker[c].pc \in Making => c \in dir /\ WholeUpTo(c, maker[c].next)
  /\ maker[c].pc = "built" => maker[c].next > NFiles
  /\ maker[c].pc \in {"writing", "downloading"} => maker[c].next <= NFiles
  /\ part[c] # 0 => maker[c].pc = "downloading"
  /\ c \notin dir => files[c] = NoFiles

MakersOwnTheirFiles == \A c \in Makers : OwnsItsFiles(c)

\* Only a registered corpus is found; one request at most removes it, and
\* then it is not found any more.
FoundAreWhole ==
  \A c \in registry : /\ c \in dir /\ maker[c].pc = "registered"
                     /\ \A f \in Files : files[c][f] = "whole"
FoundOrRemoved ==
  \A c \in dir : maker[c].pc = "registered" => c \in registry \/ Removed(c)
OneRemover ==
  \A k \in Deleters : deleter[k].pc = "removing" =>
    /\ deleter[k].of \in dir \ registry
    /\ maker[deleter[k].of].pc = "registered"
    /\ \A j \in Deleters :
         deleter[j].pc = "removing" /\ deleter[j].of = deleter[k].of => j = k
ReadersFoundTheirs ==
  \A r \in Readers : reader[r].pc \in {"reading", "missing"} =>
    reader[r].of \in Makers /\ maker[reader[r].of].pc = "registered"
MissingWereDeleted ==
  \A r \in Readers : reader[r].pc = "missing" => reader[r].of \notin registry

RegistryIsSafe ==
  /\ FoundAreWhole /\ FoundOrRemoved /\ OneRemover
  /\ ReadersFoundTheirs /\ MissingWereDeleted

CorpusInv == CorpusTypeOK /\ MakersOwnTheirFiles /\ RegistryIsSafe

LEMMA CorpusInv_init == CorpusInit => CorpusInv
<1> SUFFICES ASSUME CorpusInit PROVE CorpusInv
  OBVIOUS
<1> USE CorpusAssumption DEF CorpusInit
<1>1. CorpusTypeOK
  BY DEF CorpusTypeOK, NoFiles, FileState, MakerType, MakerPc, DeleterType, ReaderType
<1>2. MakersOwnTheirFiles
  BY DEF MakersOwnTheirFiles, OwnsItsFiles, Making
<1>3. RegistryIsSafe
  BY DEF RegistryIsSafe, FoundAreWhole, FoundOrRemoved, OneRemover, ReadersFoundTheirs,
         MissingWereDeleted
<1>4. QED
  BY <1>1, <1>2, <1>3 DEF CorpusInv

\* A request that makes a corpus moves on.
LEMMA MakerMoves ==
  ASSUME maker \in [Makers -> MakerType], NEW c \in Makers, NEW label \in MakerPc,
         Goto(c, label)
  PROVE  maker' \in [Makers -> MakerType]
  BY DEF MakerType, MakerPc, Goto

LEMMA MakerBegins ==
  ASSUME maker \in [Makers -> MakerType], NEW c \in Makers, NEW kind \in {"upload", "import"},
         maker' = [maker EXCEPT ![c].pc = "building", ![c].kind = kind]
  PROVE  maker' \in [Makers -> MakerType]
  BY DEF MakerType, MakerPc, Making

LEMMA MakerAdvances ==
  ASSUME maker \in [Makers -> MakerType], NEW c \in Makers, maker[c].next <= NFiles,
         maker' = [maker EXCEPT ![c].pc = "building", ![c].next = @ + 1]
  PROVE  maker' \in [Makers -> MakerType]
<1>1. maker[c].next + 1 \in 1 .. (NFiles + 1)
  BY CorpusAssumption DEF MakerType
<1>2. QED
  BY <1>1 DEF MakerType, MakerPc, Making

LEMMA NextIsAFile ==
  ASSUME maker \in [Makers -> MakerType], NEW c \in Makers, maker[c].next <= NFiles
  PROVE  maker[c].next \in Files
  BY CorpusAssumption DEF MakerType, Files

\* A file of a corpus changes.
LEMMA FilesChange ==
  ASSUME files \in [Makers -> [Files -> FileState]], NEW c \in Makers, NEW f \in Files,
         NEW state \in FileState, files' = [files EXCEPT ![c][f] = state]
  PROVE  files' \in [Makers -> [Files -> FileState]]
  OBVIOUS

LEMMA CorpusTypeOK_step ==
  CorpusTypeOK /\ MakersOwnTheirFiles /\ RegistryIsSafe /\ [CorpusNext]_corpusVars
    => CorpusTypeOK'
<1> SUFFICES ASSUME CorpusTypeOK, MakersOwnTheirFiles, RegistryIsSafe, [CorpusNext]_corpusVars
             PROVE  CorpusTypeOK'
  OBVIOUS
<1> USE DEF CorpusTypeOK
<1>1. ASSUME NEW c \in Makers, NEW kind \in {"upload", "import"}, BeginCorpus(c, kind)
      PROVE  CorpusTypeOK'
  <2>1. maker' \in [Makers -> MakerType]
    BY <1>1, MakerMoves, MakerBegins DEF BeginCorpus, MakerPc
  <2>2. QED
    BY <1>1, <2>1 DEF BeginCorpus
<1>2. ASSUME NEW c \in Makers, OpenFile(c) PROVE CorpusTypeOK'
  <2>1. maker' \in [Makers -> MakerType]
    BY <1>2, MakerMoves DEF OpenFile, MakerPc, Making
  <2>2. files' \in [Makers -> [Files -> FileState]]
    BY <1>2, NextIsAFile, FilesChange DEF OpenFile, FileState
  <2>3. QED
    BY <1>2, <2>1, <2>2 DEF OpenFile
<1>3. ASSUME NEW c \in Makers, WriteFile(c) PROVE CorpusTypeOK'
  <2>1. maker[c].next <= NFiles
    BY <1>3 DEF WriteFile, MakersOwnTheirFiles, OwnsItsFiles
  <2>2. maker' \in [Makers -> MakerType]
    BY <1>3, <2>1, MakerAdvances DEF WriteFile
  <2>3. files' \in [Makers -> [Files -> FileState]]
    BY <1>3, <2>1, NextIsAFile, FilesChange DEF WriteFile, FileState
  <2>4. QED
    BY <1>3, <2>2, <2>3 DEF WriteFile
<1>4. ASSUME NEW c \in Makers, OpenPart(c) PROVE CorpusTypeOK'
  <2>1. maker' \in [Makers -> MakerType]
    BY <1>4, MakerMoves DEF OpenPart, MakerPc, Making
  <2>2. part' \in [Makers -> 0 .. NFiles]
    BY <1>4, NextIsAFile, CorpusAssumption DEF OpenPart, Files
  <2>3. QED
    BY <1>4, <2>1, <2>2 DEF OpenPart
<1>5. ASSUME NEW c \in Makers, ReplaceByPart(c) PROVE CorpusTypeOK'
  <2>1. maker[c].next <= NFiles
    BY <1>5 DEF ReplaceByPart, MakersOwnTheirFiles, OwnsItsFiles
  <2>2. maker' \in [Makers -> MakerType]
    BY <1>5, <2>1, MakerAdvances DEF ReplaceByPart
  <2>3. files' \in [Makers -> [Files -> FileState]]
    BY <1>5, <2>1, NextIsAFile, FilesChange DEF ReplaceByPart, FileState
  <2>4. part' \in [Makers -> 0 .. NFiles]
    BY <1>5, CorpusAssumption DEF ReplaceByPart
  <2>5. QED
    BY <1>5, <2>2, <2>3, <2>4 DEF ReplaceByPart
<1>6. ASSUME NEW c \in Makers, BuildFails(c) PROVE CorpusTypeOK'
  <2>1. maker' \in [Makers -> MakerType]
    BY <1>6, MakerMoves DEF BuildFails, MakerPc, Making
  <2>2. part' \in [Makers -> 0 .. NFiles]
    BY <1>6, CorpusAssumption DEF BuildFails
  <2>3. QED
    BY <1>6, <2>1, <2>2 DEF BuildFails
<1>7. ASSUME NEW c \in Makers, CleanUp(c) PROVE CorpusTypeOK'
  <2>1. maker' \in [Makers -> MakerType]
    BY <1>7, MakerMoves DEF CleanUp, MakerPc
  <2>2. files' \in [Makers -> [Files -> FileState]]
    BY <1>7 DEF CleanUp, NoFiles, FileState
  <2>3. QED
    BY <1>7, <2>1, <2>2 DEF CleanUp
<1>8. ASSUME NEW c \in Makers, BuildReturns(c) \/ Register(c) PROVE CorpusTypeOK'
  <2>1. maker' \in [Makers -> MakerType]
    BY <1>8, MakerMoves DEF BuildReturns, Register, MakerPc, Making
  <2>2. QED
    BY <1>8, <2>1 DEF BuildReturns, Register
<1>9. ASSUME NEW k \in Deleters, NEW c \in Makers, Delete(k, c) PROVE CorpusTypeOK'
  <2>1. deleter' \in [Deleters -> DeleterType]
    BY <1>9 DEF Delete, DeleterType
  <2>2. QED
    BY <1>9, <2>1 DEF Delete
<1>10. ASSUME NEW k \in Deleters, NEW f \in Files, RemoveFile(k, f) PROVE CorpusTypeOK'
  <2>1. deleter[k].of \in Makers
    BY <1>10 DEF RemoveFile, RegistryIsSafe, OneRemover
  <2>2. files' \in [Makers -> [Files -> FileState]]
    BY <1>10, <2>1, FilesChange DEF RemoveFile, FileState
  <2>3. QED
    BY <1>10, <2>2 DEF RemoveFile
<1>11. ASSUME NEW k \in Deleters, RemoveDir(k) PROVE CorpusTypeOK'
  <2>1. deleter' \in [Deleters -> DeleterType]
    BY <1>11 DEF RemoveDir, DeleterType
  <2>2. QED
    BY <1>11, <2>1 DEF RemoveDir
<1>12. ASSUME NEW r \in Readers, NEW c \in Makers, Resolve(r, c) PROVE CorpusTypeOK'
  <2> DEFINE label == IF c \in registry THEN "reading" ELSE "not found"
  <2>1. reader[r] \in ReaderType
    OBVIOUS
  <2>2. label \in {"idle", "reading", "missing", "not found"}
    OBVIOUS
  <2>3. reader' = [reader EXCEPT ![r] = [reader[r] EXCEPT !.pc = label, !.of = c]]
    BY <1>12 DEF Resolve
  <2> HIDE DEF label
  <2>4. [reader[r] EXCEPT !.pc = label, !.of = c] \in ReaderType
    BY <2>1, <2>2 DEF ReaderType
  <2>5. reader' \in [Readers -> ReaderType]
    BY <2>3, <2>4
  <2>6. QED
    BY <1>12, <2>5 DEF Resolve
<1>13. ASSUME NEW r \in Readers, ReadFile(r) PROVE CorpusTypeOK'
  <2> DEFINE label == IF files[reader[r].of][reader[r].next] = "whole"
                      THEN "reading" ELSE "missing"
  <2>1. reader[r] \in ReaderType /\ reader[r].next <= NFiles
    BY <1>13 DEF ReadFile
  <2>2. reader[r].next + 1 \in 1 .. (NFiles + 1)
    <3>1. reader[r].next \in 1 .. (NFiles + 1)
      BY <2>1 DEF ReaderType
    <3>2. QED
      BY <2>1, <3>1, CorpusAssumption
  <2>3. label \in {"reading", "missing"}
    OBVIOUS
  <2>4. reader' = [reader EXCEPT ![r].pc = label, ![r].next = @ + 1]
    BY <1>13 DEF ReadFile
  <2> HIDE DEF label
  <2>5. reader' \in [Readers -> ReaderType]
    BY <2>2, <2>3, <2>4 DEF ReaderType
  <2>6. QED
    BY <1>13, <2>5 DEF ReadFile
<1>14. CASE UNCHANGED corpusVars
  BY <1>14 DEF corpusVars
<1>15. QED
  BY <1>1, <1>2, <1>3, <1>4, <1>5, <1>6, <1>7, <1>8, <1>9, <1>10, <1>11, <1>12, <1>13, <1>14
     DEF CorpusNext

\* A step that leaves a corpus, its directory and its request alone.
LEMMA OwnsItsFiles_untouched ==
  ASSUME NEW c \in Makers, OwnsItsFiles(c), maker'[c] = maker[c], files'[c] = files[c],
         part'[c] = part[c], c \in dir' <=> c \in dir
  PROVE  OwnsItsFiles(c)'
  BY DEF OwnsItsFiles, WholeUpTo

\* What the request that makes a corpus does to it.
LEMMA OwnsItsFiles_maker ==
  ASSUME CorpusTypeOK, NEW c \in Makers, OwnsItsFiles(c),
         \/ \E kind \in {"upload", "import"} : BeginCorpus(c, kind)
         \/ OpenFile(c) \/ WriteFile(c) \/ OpenPart(c) \/ ReplaceByPart(c)
         \/ BuildFails(c) \/ CleanUp(c) \/ BuildReturns(c) \/ Register(c)
  PROVE  OwnsItsFiles(c)'
<1> USE DEF CorpusTypeOK, OwnsItsFiles, WholeUpTo, Making, Goto
<1>0. maker[c] \in MakerType /\ maker[c].next \in Nat /\ files[c] \in [Files -> FileState]
  <2>1. maker[c] \in MakerType /\ files[c] \in [Files -> FileState]
    OBVIOUS
  <2>2. QED
    BY <2>1, CorpusAssumption DEF MakerType
<1>1. ASSUME NEW kind \in {"upload", "import"}, BeginCorpus(c, kind) PROVE OwnsItsFiles(c)'
  <2>1. maker[c].pc = "idle" /\ maker[c].next = 1 /\ UNCHANGED <<files, part>>
        /\ part[c] = 0 /\ files[c] = NoFiles
    BY <1>1, <1>0 DEF BeginCorpus
  <2>2. CASE kind = "upload" /\ Goto(c, "rejected") /\ UNCHANGED dir
    <3>1. maker'[c].pc = "rejected" /\ maker'[c].kind = maker[c].kind
      BY <2>2, <1>0 DEF MakerType
    <3>2. QED
      BY <2>1, <2>2, <3>1
  <2>3. CASE /\ dir' = dir \union {c}
             /\ maker' = [maker EXCEPT ![c].pc = "building", ![c].kind = kind]
    <3>1. maker'[c].pc = "building" /\ maker'[c].next = 1
      BY <2>1, <2>3, <1>0 DEF MakerType
    <3>2. \A f \in Files : ~(f < 1)
      BY CorpusAssumption DEF Files
    <3>3. QED
      BY <2>1, <2>3, <3>1, <3>2
  <2>4. QED
    BY <1>1, <2>2, <2>3 DEF BeginCorpus
<1>2. CASE OpenFile(c)
  BY <1>2, <1>0 DEF OpenFile, Files
<1>3. CASE WriteFile(c)
  BY <1>3, <1>0 DEF WriteFile, Files
<1>4. CASE OpenPart(c)
  BY <1>4, <1>0 DEF OpenPart
<1>5. CASE ReplaceByPart(c)
  BY <1>5, <1>0 DEF ReplaceByPart, Files
<1>6. CASE BuildFails(c)
  <2>1. maker'[c].pc = IF maker[c].kind = "import" THEN "raising" ELSE "rejected"
    BY <1>6, <1>0 DEF BuildFails
  <2>2. maker'[c].next = maker[c].next /\ maker'[c].kind = maker[c].kind
    BY <1>6, <1>0 DEF BuildFails, MakerType
  <2>3. part'[c] = 0 /\ c \in dir /\ UNCHANGED <<dir, files>> /\ WholeUpTo(c, maker[c].next)
    BY <1>6, <1>0 DEF BuildFails
  <2>4. QED
    BY <2>1, <2>2, <2>3
<1>7. CASE CleanUp(c)
  <2>1. maker'[c].pc = "rejected" /\ part'[c] = part[c]
    BY <1>7, <1>0 DEF CleanUp, MakerType
  <2>2. c \notin dir' /\ files'[c] = NoFiles /\ part[c] = 0
    BY <1>7, <1>0 DEF CleanUp
  <2>3. QED
    BY <2>1, <2>2
<1>8. CASE BuildReturns(c) \/ Register(c)
  <2>1. /\ maker'[c].next = maker[c].next /\ UNCHANGED <<dir, files, part>>
        /\ maker'[c].pc \in {"built", "registered"} /\ maker[c].pc \in Making /\ part[c] = 0
    BY <1>8, <1>0 DEF BuildReturns, Register, MakerType
  <2>2. maker'[c].pc = "built" => maker[c].next > NFiles
    BY <1>8, <1>0 DEF BuildReturns, Register
  <2>3. QED
    BY <2>1, <2>2
<1>9. QED
  BY <1>1, <1>2, <1>3, <1>4, <1>5, <1>6, <1>7, <1>8

LEMMA MakersOwnTheirFiles_step ==
  CorpusTypeOK /\ MakersOwnTheirFiles /\ RegistryIsSafe /\ [CorpusNext]_corpusVars
    => MakersOwnTheirFiles'
<1> SUFFICES ASSUME CorpusTypeOK, MakersOwnTheirFiles, RegistryIsSafe, [CorpusNext]_corpusVars,
                    NEW m \in Makers
             PROVE  OwnsItsFiles(m)'
  BY DEF MakersOwnTheirFiles
<1> USE DEF MakersOwnTheirFiles
<1>0. OwnsItsFiles(m)
  OBVIOUS
<1>1. ASSUME NEW c \in Makers,
             \/ \E kind \in {"upload", "import"} : BeginCorpus(c, kind)
             \/ OpenFile(c) \/ WriteFile(c) \/ OpenPart(c) \/ ReplaceByPart(c)
             \/ BuildFails(c) \/ CleanUp(c) \/ BuildReturns(c) \/ Register(c)
      PROVE  OwnsItsFiles(m)'
  <2>1. CASE m = c
    BY <1>1, <2>1, OwnsItsFiles_maker
  <2>2. CASE m # c
    <3>1. /\ maker'[m] = maker[m] /\ files'[m] = files[m] /\ part'[m] = part[m]
          /\ m \in dir' <=> m \in dir
      BY <1>1, <2>2 DEF CorpusTypeOK, BeginCorpus, OpenFile, WriteFile, OpenPart, ReplaceByPart,
                        BuildFails, CleanUp, BuildReturns, Register, Goto
    <3>2. QED
      BY <1>0, <3>1, OwnsItsFiles_untouched
  <2>3. QED
    BY <2>1, <2>2
<1>2. ASSUME NEW k \in Deleters, NEW f \in Files, RemoveFile(k, f) PROVE OwnsItsFiles(m)'
  <2>1. deleter[k].of \in dir /\ maker[deleter[k].of].pc = "registered"
    BY <1>2 DEF RemoveFile, RegistryIsSafe, OneRemover
  <2>2. CASE m = deleter[k].of
    BY <1>0, <1>2, <2>1, <2>2 DEF RemoveFile, OwnsItsFiles, Making
  <2>3. CASE m # deleter[k].of
    <3>1. files'[m] = files[m] /\ UNCHANGED <<maker, part, dir>>
      BY <1>2, <2>3 DEF RemoveFile, CorpusTypeOK
    <3>2. QED
      BY <1>0, <3>1, OwnsItsFiles_untouched
  <2>4. QED
    BY <2>2, <2>3
<1>3. ASSUME NEW k \in Deleters, RemoveDir(k) PROVE OwnsItsFiles(m)'
  <2>1. maker[deleter[k].of].pc = "registered" /\ files[deleter[k].of] = NoFiles
    BY <1>3 DEF RemoveDir, RegistryIsSafe, OneRemover
  <2>2. CASE m = deleter[k].of
    BY <1>0, <1>3, <2>1, <2>2 DEF RemoveDir, OwnsItsFiles, Making
  <2>3. CASE m # deleter[k].of
    <3>1. (m \in dir' <=> m \in dir) /\ UNCHANGED <<maker, part, files>>
      BY <1>3, <2>3 DEF RemoveDir
    <3>2. QED
      BY <1>0, <3>1, OwnsItsFiles_untouched
  <2>4. QED
    BY <2>2, <2>3
<1>4. CASE UNCHANGED <<maker, part, files, dir>>
  BY <1>0, <1>4, OwnsItsFiles_untouched
<1>5. QED
  BY <1>1, <1>2, <1>3, <1>4 DEF CorpusNext, corpusVars, Delete, Resolve, ReadFile

\* A step of a request on a corpus that is not registered yet, nor after it.
LEMMA RegistryIsSafe_making ==
  ASSUME RegistryIsSafe, CorpusTypeOK, NEW c \in Makers,
         maker[c].pc # "registered", maker'[c].pc # "registered",
         \A m \in Makers \ {c} :
           maker'[m] = maker[m] /\ files'[m] = files[m] /\ (m \in dir' <=> m \in dir),
         dir' \subseteq Makers, UNCHANGED <<registry, deleter, reader>>
  PROVE  RegistryIsSafe'
<1> USE DEF RegistryIsSafe, CorpusTypeOK
<1>1. \A m \in registry : m # c
  BY DEF FoundAreWhole
<1>2. \A k \in Deleters : deleter[k].pc = "removing" => deleter[k].of \in Makers \ {c}
  BY DEF OneRemover
<1>3. \A r \in Readers : reader[r].pc \in {"reading", "missing"} => reader[r].of \in Makers \ {c}
  BY DEF ReadersFoundTheirs
<1>4. \A m \in Makers : Removed(m)' <=> Removed(m)
  BY DEF Removed
<1>5. FoundAreWhole'
  BY <1>1 DEF FoundAreWhole
<1>6. FoundOrRemoved'
  <2> SUFFICES ASSUME NEW m \in dir', maker'[m].pc = "registered"
               PROVE  m \in registry \/ Removed(m)'
    BY DEF FoundOrRemoved
  <2>1. m \in Makers \ {c}
    OBVIOUS
  <2>2. m \in dir /\ maker[m].pc = "registered"
    BY <2>1
  <2>3. QED
    BY <2>1, <2>2, <1>4 DEF FoundOrRemoved
<1>7. OneRemover'
  BY <1>2 DEF OneRemover
<1>8. ReadersFoundTheirs' /\ MissingWereDeleted'
  <2>1. \A r \in Readers : reader[r].pc \in {"reading", "missing"} =>
          reader[r].of \in Makers /\ maker'[reader[r].of].pc = "registered"
    BY <1>3 DEF ReadersFoundTheirs
  <2>2. ReadersFoundTheirs'
    BY <2>1 DEF ReadersFoundTheirs
  <2>3. QED
    BY <2>2 DEF MissingWereDeleted
<1>9. QED
  BY <1>5, <1>6, <1>7, <1>8

LEMMA RegistryIsSafe_Register ==
  ASSUME CorpusInv, NEW c \in Makers, Register(c)
  PROVE  RegistryIsSafe'
<1> USE DEF CorpusInv, CorpusTypeOK, RegistryIsSafe
<1>1. c \in dir /\ \A f \in Files : files[c][f] = "whole"
  <2>1. WholeUpTo(c, maker[c].next) /\ maker[c].next > NFiles /\ c \in dir
    BY DEF Register, MakersOwnTheirFiles, OwnsItsFiles, Making
  <2>2. maker[c] \in MakerType
    OBVIOUS
  <2>3. maker[c].next \in Nat
    BY <2>2, CorpusAssumption DEF MakerType
  <2>4. QED
    BY <2>1, <2>3, CorpusAssumption DEF WholeUpTo, Files
<1>2. maker[c].pc = "built" /\ maker'[c].pc = "registered"
      /\ \A m \in Makers \ {c} : maker'[m] = maker[m]
  BY DEF Register, Goto
<1>3. registry' = registry \union {c} /\ UNCHANGED <<dir, files, deleter, reader>>
  BY DEF Register
<1>4. FoundAreWhole'
  BY <1>1, <1>2, <1>3 DEF FoundAreWhole
<1>5. FoundOrRemoved'
  BY <1>2, <1>3 DEF FoundOrRemoved, Removed
<1>6. OneRemover'
  <2>1. \A k \in Deleters : deleter[k].pc = "removing" => deleter[k].of \in Makers \ {c}
    BY <1>2 DEF OneRemover
  <2>2. QED
    BY <1>2, <1>3, <2>1 DEF OneRemover
<1>7. ReadersFoundTheirs' /\ MissingWereDeleted'
  <2>1. \A r \in Readers : reader[r].pc \in {"reading", "missing"} => reader[r].of \in Makers \ {c}
    BY <1>2 DEF ReadersFoundTheirs
  <2>2. QED
    BY <1>2, <1>3, <2>1 DEF ReadersFoundTheirs, MissingWereDeleted
<1>8. QED
  BY <1>4, <1>5, <1>6, <1>7

LEMMA RegistryIsSafe_Delete ==
  ASSUME CorpusTypeOK, RegistryIsSafe, NEW k \in Deleters, NEW c \in Makers, Delete(k, c)
  PROVE  RegistryIsSafe'
<1> USE DEF RegistryIsSafe, CorpusTypeOK
<1>1. /\ deleter'[k].of = c /\ deleter[k].pc = "idle"
      /\ deleter'[k].pc = IF c \in registry THEN "removing" ELSE "not found"
      /\ \A j \in Deleters \ {k} : deleter'[j] = deleter[j]
  BY DEF Delete
<1>2. registry' = registry \ {c} /\ UNCHANGED <<dir, files, maker, reader>>
  BY DEF Delete
<1>3. FoundAreWhole'
  BY <1>2 DEF FoundAreWhole
<1>4. FoundOrRemoved'
  <2> SUFFICES ASSUME NEW m \in dir, maker[m].pc = "registered", m \notin registry'
               PROVE  Removed(m)'
    BY <1>2 DEF FoundOrRemoved
  <2>1. CASE m \in registry
    BY <1>1, <1>2, <2>1 DEF Removed
  <2>2. CASE m \notin registry
    <3>1. PICK j \in Deleters : deleter[j].pc = "removing" /\ deleter[j].of = m
      BY <2>2 DEF FoundOrRemoved, Removed
    <3>2. QED
      BY <1>1, <3>1 DEF Removed
  <2>3. QED
    BY <2>1, <2>2
<1>5. OneRemover'
  <2>1. \A j \in Deleters : deleter[j].pc = "removing" =>
          j # k /\ deleter[j].of \in dir \ registry
    BY <1>1 DEF OneRemover
  <2>2. c \in registry => c \in dir /\ maker[c].pc = "registered"
    BY DEF FoundAreWhole
  <2> SUFFICES ASSUME NEW i \in Deleters, deleter'[i].pc = "removing"
               PROVE  /\ deleter'[i].of \in dir \ registry'
                      /\ maker[deleter'[i].of].pc = "registered"
                      /\ \A j \in Deleters :
                           deleter'[j].pc = "removing" /\ deleter'[j].of = deleter'[i].of
                             => j = i
    BY <1>2 DEF OneRemover
  <2>3. CASE i = k
    <3>1. c \in registry
      BY <1>1, <2>3
    <3>2. QED
      BY <1>1, <1>2, <2>1, <2>2, <2>3, <3>1
  <2>4. CASE i # k
    <3>1. deleter'[i] = deleter[i]
      BY <1>1, <2>4
    <3>2. deleter'[k].pc = "removing" => deleter'[k].of # deleter[i].of
      BY <1>1, <2>1, <3>1
    <3>3. deleter[i].pc = "removing" /\ deleter[i].of \in dir \ registry
      BY <2>1, <3>1
    <3>4. maker[deleter[i].of].pc = "registered"
      BY <3>3 DEF OneRemover
    <3>5. ASSUME NEW j \in Deleters, deleter'[j].pc = "removing", deleter'[j].of = deleter'[i].of
          PROVE  j = i
      <4>1. j # k
        BY <3>1, <3>2, <3>5
      <4>2. deleter[j].pc = "removing" /\ deleter[j].of = deleter[i].of
        BY <1>1, <3>1, <3>5, <4>1
      <4>3. QED
        BY <3>3, <4>2 DEF OneRemover
    <3>6. QED
      BY <1>2, <3>1, <3>3, <3>4, <3>5
  <2>5. QED
    BY <2>3, <2>4
<1>6. ReadersFoundTheirs' /\ MissingWereDeleted'
  BY <1>2 DEF ReadersFoundTheirs, MissingWereDeleted
<1>7. QED
  BY <1>3, <1>4, <1>5, <1>6

LEMMA RegistryIsSafe_RemoveFile ==
  ASSUME CorpusTypeOK, RegistryIsSafe, NEW k \in Deleters, NEW f \in Files, RemoveFile(k, f)
  PROVE  RegistryIsSafe'
<1> USE DEF RegistryIsSafe, CorpusTypeOK
<1>1. deleter[k].of \notin registry
  BY DEF RemoveFile, OneRemover
<1>2. \A m \in registry : files'[m] = files[m]
  BY <1>1 DEF RemoveFile
<1>3. UNCHANGED <<registry, dir, maker, deleter, reader>>
  BY DEF RemoveFile
<1>4. QED
  BY <1>2, <1>3 DEF FoundAreWhole, FoundOrRemoved, OneRemover, ReadersFoundTheirs,
                    MissingWereDeleted, Removed

LEMMA RegistryIsSafe_RemoveDir ==
  ASSUME CorpusTypeOK, RegistryIsSafe, NEW k \in Deleters, RemoveDir(k)
  PROVE  RegistryIsSafe'
<1> USE DEF RegistryIsSafe, CorpusTypeOK
<1> DEFINE c == deleter[k].of
<1>1. /\ deleter[k].pc = "removing" /\ deleter'[k].pc = "deleted"
      /\ \A j \in Deleters \ {k} : deleter'[j] = deleter[j]
  BY DEF RemoveDir
<1>2. dir' = dir \ {c} /\ UNCHANGED <<registry, files, maker, reader>>
  BY DEF RemoveDir
<1>3. c \notin registry /\ \A j \in Deleters \ {k} : deleter[j].pc = "removing" => deleter[j].of # c
  BY <1>1 DEF OneRemover
<1> HIDE DEF c
<1>4. FoundAreWhole'
  BY <1>2, <1>3 DEF FoundAreWhole
<1>5. FoundOrRemoved'
  <2> SUFFICES ASSUME NEW m \in dir \ {c}, maker[m].pc = "registered", m \notin registry
               PROVE  Removed(m)'
    BY <1>2 DEF FoundOrRemoved
  <2>1. PICK j \in Deleters : deleter[j].pc = "removing" /\ deleter[j].of = m
    BY DEF FoundOrRemoved, Removed
  <2>2. j # k
    BY <2>1 DEF c
  <2>3. QED
    BY <1>1, <2>1, <2>2 DEF Removed
<1>6. OneRemover'
  BY <1>1, <1>2, <1>3 DEF OneRemover
<1>7. ReadersFoundTheirs' /\ MissingWereDeleted'
  BY <1>2 DEF ReadersFoundTheirs, MissingWereDeleted
<1>8. QED
  BY <1>4, <1>5, <1>6, <1>7

LEMMA RegistryIsSafe_readers ==
  ASSUME CorpusTypeOK, RegistryIsSafe, NEW r \in Readers,
         ReadFile(r) \/ \E c \in Makers : Resolve(r, c)
  PROVE  RegistryIsSafe'
<1> USE DEF RegistryIsSafe, CorpusTypeOK
<1>1. UNCHANGED <<registry, dir, files, maker, deleter>>
      /\ \A s \in Readers \ {r} : reader'[s] = reader[s]
  BY DEF ReadFile, Resolve
<1>2. CASE ReadFile(r)
  <2>1. /\ reader'[r].of = reader[r].of /\ reader[r].pc = "reading"
        /\ reader'[r].pc = "missing" => files[reader[r].of][reader[r].next] # "whole"
    BY <1>2 DEF ReadFile, ReaderType
  <2>2. reader[r].next \in Files
    <3>1. reader[r] \in ReaderType /\ reader[r].next <= NFiles
      BY <1>2 DEF ReadFile
    <3>2. reader[r].next \in 1 .. (NFiles + 1)
      BY <3>1 DEF ReaderType
    <3>3. QED
      BY <3>1, <3>2, CorpusAssumption DEF Files
  <2>3. reader'[r].pc = "missing" => reader[r].of \notin registry
    BY <2>1, <2>2 DEF FoundAreWhole
  <2>4. ReadersFoundTheirs' /\ MissingWereDeleted'
    BY <1>1, <2>1, <2>3 DEF ReadersFoundTheirs, MissingWereDeleted
  <2>5. QED
    BY <1>1, <2>4 DEF FoundAreWhole, FoundOrRemoved, OneRemover, Removed
<1>3. ASSUME NEW c \in Makers, Resolve(r, c) PROVE RegistryIsSafe'
  <2>1. /\ reader'[r].of = c
        /\ reader'[r].pc = IF c \in registry THEN "reading" ELSE "not found"
    BY <1>3 DEF Resolve, ReaderType
  <2>2. c \in registry => maker[c].pc = "registered"
    BY DEF FoundAreWhole
  <2>3. ReadersFoundTheirs' /\ MissingWereDeleted'
    BY <1>1, <2>1, <2>2 DEF ReadersFoundTheirs, MissingWereDeleted
  <2>4. QED
    BY <1>1, <2>3 DEF FoundAreWhole, FoundOrRemoved, OneRemover, Removed
<1>4. QED
  BY <1>2, <1>3

LEMMA RegistryIsSafe_step == CorpusInv /\ [CorpusNext]_corpusVars => RegistryIsSafe'
<1> SUFFICES ASSUME CorpusInv, [CorpusNext]_corpusVars PROVE RegistryIsSafe'
  OBVIOUS
<1>0. CorpusTypeOK /\ RegistryIsSafe /\ CorpusTypeOK'
  BY CorpusTypeOK_step DEF CorpusInv
<1>1. ASSUME NEW c \in Makers,
             \/ \E kind \in {"upload", "import"} : BeginCorpus(c, kind)
             \/ OpenFile(c) \/ WriteFile(c) \/ OpenPart(c) \/ ReplaceByPart(c)
             \/ BuildFails(c) \/ CleanUp(c) \/ BuildReturns(c)
      PROVE  RegistryIsSafe'
  <2>1. \A m \in Makers \ {c} :
          maker'[m] = maker[m] /\ files'[m] = files[m] /\ (m \in dir' <=> m \in dir)
    BY <1>0, <1>1 DEF CorpusTypeOK, BeginCorpus, OpenFile, WriteFile, OpenPart, ReplaceByPart,
                      BuildFails, CleanUp, BuildReturns, Goto
  <2>2. maker[c].pc # "registered" /\ UNCHANGED <<registry, deleter, reader>>
    BY <1>1 DEF BeginCorpus, OpenFile, WriteFile, OpenPart, ReplaceByPart,
                BuildFails, CleanUp, BuildReturns
  <2>3. maker[c] \in MakerType /\ maker'[c].pc # "registered"
    BY <1>0, <1>1 DEF CorpusTypeOK, MakerType, BeginCorpus, OpenFile, WriteFile, OpenPart,
                      ReplaceByPart, BuildFails, CleanUp, BuildReturns, Goto
  <2>4. dir' \subseteq Makers
    BY <1>0 DEF CorpusTypeOK
  <2>5. QED
    BY <1>0, <2>1, <2>2, <2>3, <2>4, RegistryIsSafe_making
<1>2. ASSUME NEW c \in Makers, Register(c) PROVE RegistryIsSafe'
  BY <1>2, RegistryIsSafe_Register
<1>3. ASSUME NEW k \in Deleters, NEW c \in Makers, Delete(k, c) PROVE RegistryIsSafe'
  BY <1>0, <1>3, RegistryIsSafe_Delete
<1>4. ASSUME NEW k \in Deleters, NEW f \in Files, RemoveFile(k, f) PROVE RegistryIsSafe'
  BY <1>0, <1>4, RegistryIsSafe_RemoveFile
<1>5. ASSUME NEW k \in Deleters, RemoveDir(k) PROVE RegistryIsSafe'
  BY <1>0, <1>5, RegistryIsSafe_RemoveDir
<1>6. ASSUME NEW r \in Readers, ReadFile(r) \/ \E c \in Makers : Resolve(r, c)
      PROVE  RegistryIsSafe'
  BY <1>0, <1>6, RegistryIsSafe_readers
<1>7. CASE UNCHANGED corpusVars
  BY <1>0, <1>7 DEF corpusVars, RegistryIsSafe, FoundAreWhole, FoundOrRemoved, OneRemover,
                    ReadersFoundTheirs, MissingWereDeleted, Removed
<1>8. QED
  BY <1>1, <1>2, <1>3, <1>4, <1>5, <1>6, <1>7 DEF CorpusNext

LEMMA DiskMatchesRegistry_inv == CorpusInv => DiskMatchesRegistry
<1> SUFFICES ASSUME CorpusInv PROVE DiskMatchesRegistry
  OBVIOUS
<1> USE DEF CorpusInv, CorpusTypeOK, RegistryIsSafe
<1>1. \A c \in registry : c \in dir /\ \A f \in Files : files[c][f] = "whole"
  BY DEF FoundAreWhole
<1>2. \A r \in Readers : reader[r].pc = "missing" => reader[r].of \notin registry
  BY DEF MissingWereDeleted
<1>3. ASSUME NEW c \in dir
      PROVE  \/ c \in registry \/ maker[c].pc \in Making
             \/ Removed(c) \/ Rejected(c)
  <2>1. OwnsItsFiles(c) /\ maker[c] \in MakerType
    BY DEF MakersOwnTheirFiles
  <2>2. CASE maker[c].pc = "registered"
    BY <2>2 DEF FoundOrRemoved
  <2>3. CASE maker[c].pc # "registered"
    BY <2>1, <2>3 DEF OwnsItsFiles, MakerType, MakerPc, Rejected
  <2>4. QED
    BY <2>2, <2>3
<1>4. ASSUME NEW c \in Makers, c \notin dir PROVE files[c] = NoFiles /\ part[c] = 0
  BY <1>4 DEF MakersOwnTheirFiles, OwnsItsFiles, Making
<1>5. QED
  BY <1>1, <1>2, <1>3, <1>4 DEF DiskMatchesRegistry

\* The disk matches the registry of corpora (app/corpus_upload.py), for any
\* number of uploads, imports, deletions, runs and files: a corpus that is
\* found is whole, a run misses a file only of a corpus deleted meanwhile, and
\* nothing stays of failed imports and of deletions that the disk lets them
\* remove.
THEOREM CorporaMatchTheDisk == CorpusSpec => []DiskMatchesRegistry
<1>1. CorpusInv /\ [CorpusNext]_corpusVars => CorpusInv'
  BY CorpusTypeOK_step, MakersOwnTheirFiles_step, RegistryIsSafe_step DEF CorpusInv
<1>2. QED
  BY <1>1, CorpusInv_init, DiskMatchesRegistry_inv, PTL DEF CorpusSpec

-----------------------------------------------------------------------------
(* The segmentation store and the ALTO store.                              *)

SinkType    == [pc : {"layout", "layout opened", "alto", "alto opened"}, doc : Nat]
PreviewType == [pc : {"idle", "listed", "picked", "shown", "failed"}, since : Nat,
                listed : SUBSET DOMAIN layouts, shows : [of : DOMAIN layouts, mtime : Nat]]
ArchiveType == [pc : {"idle", "zipping", "served"}, of : Jobs \union {Nobody},
                left : SUBSET DOMAIN altos, holds : SUBSET ((DOMAIN altos) \X {"torn", "whole"})]

StoresTypeOK ==
  /\ layouts = [i \in DOMAIN layouts |-> layouts[i]]
  /\ \A i \in DOMAIN layouts : layouts[i] \in [state : {"torn", "whole"}, mtime : Nat]
  /\ Demo \in DOMAIN layouts
  /\ altos \in [DOMAIN altos -> {"torn", "whole"}]
  /\ reports \subseteq Jobs
  /\ sink \in [Jobs -> SinkType]
  /\ clock \in Nat /\ saved \in Nat
  /\ preview \in [Previewers -> PreviewType]
  /\ archive \in [Downloaders -> ArchiveType]

\* A job that has its report writes to the stores no more.
ReportsAreLast == \A j \in reports : sink[j].doc > NDocs

\* The files of a run an archive does not hold yet are those left to read.
OfRun(j) == {i \in DOMAIN altos : i[1] = j}
ArchivesKeepUp ==
  \A d \in Downloaders :
    /\ archive[d].pc \in {"zipping", "served"} =>
         /\ archive[d].of \in reports
         /\ archive[d].left \subseteq OfRun(archive[d].of)
         /\ archive[d].holds = {<<i, altos[i]>> : i \in OfRun(archive[d].of) \ archive[d].left}
    /\ archive[d].pc = "served" => archive[d].left = {}

\* A layout that is being written has its directory.
OpenedExist == \A j \in Jobs : sink[j].pc = "layout opened" => Doc(j) \in DOMAIN layouts

\* No directory is ahead of the clock, and what a page lists has a directory as
\* recent as the last one saved when it asked.
Recent(i, p) == layouts[i].mtime >= preview[p].since
PreviewsAreRecent ==
  /\ saved <= clock
  /\ \A i \in DOMAIN layouts : layouts[i].mtime <= clock
  /\ \E i \in DOMAIN layouts : layouts[i].mtime >= saved
  /\ \A p \in Previewers :
       /\ preview[p].since <= clock
       /\ preview[p].pc = "listed" => \E i \in preview[p].listed : Recent(i, p)
       /\ preview[p].pc = "picked" => \A i \in preview[p].listed : Recent(i, p)

StoresInv ==
  /\ StoresTypeOK /\ ReportsAreLast /\ ArchivesKeepUp
  /\ OpenedExist /\ PreviewsAreRecent /\ PreviewIsRecent

LEMMA StoresInv_init == StoresInit => StoresInv
<1> SUFFICES ASSUME StoresInit PROVE StoresInv
  OBVIOUS
<1> USE StoresAssumption DEF StoresInit
<1>1. StoresTypeOK
  BY DEF StoresTypeOK, SinkType, PreviewType, ArchiveType, NoShow
<1>2. ReportsAreLast /\ ArchivesKeepUp /\ PreviewIsRecent
  BY DEF ReportsAreLast, ArchivesKeepUp, PreviewIsRecent
<1>3. PreviewsAreRecent /\ OpenedExist
  <2>1. OpenedExist
    BY DEF OpenedExist
  <2>2. PreviewsAreRecent
    BY DEF PreviewsAreRecent
  <2>3. QED
    BY <2>1, <2>2
<1>4. QED
  BY <1>1, <1>2, <1>3 DEF StoresInv

\* What opening the file of a layout does: its directory is the newest one.
LEMMA LayoutPut ==
  ASSUME StoresTypeOK, NEW i,
         layouts' = Put(layouts, i, [state |-> "torn", mtime |-> clock'])
  PROVE  /\ DOMAIN layouts' = DOMAIN layouts \union {i}
         /\ layouts' = [k \in DOMAIN layouts' |-> layouts'[k]]
         /\ layouts'[i] = [state |-> "torn", mtime |-> clock']
         /\ \A k \in DOMAIN layouts : k # i => layouts'[k] = layouts[k]
  BY DEF Put

\* What writing to the ALTO file of a job does: the files of other jobs stay.
LEMMA AltoPut ==
  ASSUME StoresTypeOK, NEW j \in Jobs, NEW s \in {"torn", "whole"},
         altos' = Put(altos, Doc(j), s)
  PROVE  /\ DOMAIN altos' = DOMAIN altos \union {Doc(j)}
         /\ altos' \in [DOMAIN altos' -> {"torn", "whole"}]
         /\ \A m \in Jobs \ {j} : OfRun(m)' = OfRun(m) /\ \A i \in OfRun(m) : altos'[i] = altos[i]
<1>1. /\ DOMAIN altos' = DOMAIN altos \union {Doc(j)}
      /\ altos' \in [DOMAIN altos' -> {"torn", "whole"}]
      /\ \A i \in DOMAIN altos : i # Doc(j) => altos'[i] = altos[i]
  BY DEF Put, StoresTypeOK
<1>2. Doc(j)[1] = j
  BY DEF Doc
<1>3. QED
  BY <1>1, <1>2 DEF OfRun

\* The preview and the archives type check whatever files are added.
LEMMA TypesGrow ==
  ASSUME StoresTypeOK, DOMAIN layouts \subseteq DOMAIN layouts',
         DOMAIN altos \subseteq DOMAIN altos', UNCHANGED <<preview, archive>>
  PROVE  preview' \in [Previewers -> PreviewType'] /\ archive' \in [Downloaders -> ArchiveType']
<1>1. PreviewType \subseteq PreviewType'
  BY DEF PreviewType
<1>2. ArchiveType \subseteq ArchiveType'
  BY DEF ArchiveType
<1>3. QED
  BY <1>1, <1>2 DEF StoresTypeOK

LEMMA SinkMoves ==
  ASSUME sink \in [Jobs -> SinkType], NEW j \in Jobs,
         NEW pc \in {"layout", "layout opened", "alto", "alto opened"}, SinkTo(j, pc)
  PROVE  /\ sink' \in [Jobs -> SinkType]
         /\ \A m \in Jobs : sink'[m].doc = sink[m].doc
  BY DEF SinkType, SinkTo

LEMMA NextNat == \A n \in Nat : n + 1 \in Nat
OBVIOUS

LEMMA SinkAdvances ==
  ASSUME sink \in [Jobs -> SinkType], NEW j \in Jobs, NextDoc(j)
  PROVE  /\ sink' \in [Jobs -> SinkType]
         /\ \A m \in Jobs : sink'[m].doc \in {sink[m].doc, sink[m].doc + 1}
<1> DEFINE n == sink[j].doc + 1
<1>1. n \in Nat
  <2>1. sink[j].doc \in Nat
    BY DEF SinkType
  <2>2. QED
    BY <2>1, NextNat, Zenon
<1>2. sink' = [sink EXCEPT ![j] = [pc |-> "layout", doc |-> n]]
  BY DEF NextDoc
<1> HIDE DEF n
<1>3. sink' \in [Jobs -> SinkType]
  BY <1>1, <1>2 DEF SinkType
<1>4. sink'[j].doc = n /\ \A m \in Jobs \ {j} : sink'[m] = sink[m]
  BY <1>2
<1>5. QED
  BY <1>3, <1>4 DEF n

\* A step of a sink keeps the directories of the layouts being written, if the
\* layout it opens gets one.
LEMMA OpenedExist_step ==
  ASSUME StoresTypeOK, OpenedExist, NEW j \in Jobs,
         DOMAIN layouts \subseteq DOMAIN layouts',
         \/ SinkTo(j, "alto") \/ SinkTo(j, "alto opened") \/ NextDoc(j)
         \/ SinkTo(j, "layout opened") /\ Doc(j) \in DOMAIN layouts'
  PROVE  OpenedExist'
<1>1. sink \in [Jobs -> SinkType]
  BY DEF StoresTypeOK
<1>2. \A m \in Jobs \ {j} : sink'[m] = sink[m]
  BY <1>1 DEF SinkTo, NextDoc
<1>3. sink'[j].pc = "layout opened" => Doc(j)' \in DOMAIN layouts'
  <2>1. CASE NextDoc(j)
    BY <1>1, <2>1 DEF NextDoc
  <2>2. CASE SinkTo(j, "alto") \/ SinkTo(j, "alto opened")
    BY <1>1, <2>2 DEF SinkTo, SinkType
  <2>3. CASE SinkTo(j, "layout opened") /\ Doc(j) \in DOMAIN layouts'
    <3>1. sink'[j].doc = sink[j].doc
      BY <1>1, <2>3 DEF SinkTo, SinkType
    <3>2. QED
      BY <2>3, <3>1 DEF Doc
  <2>4. QED
    BY <2>1, <2>2, <2>3
<1>4. QED
  BY <1>2, <1>3 DEF OpenedExist, Doc

\* The sink of a job on its layouts.
LEMMA StoresInv_layouts ==
  ASSUME StoresInv, NEW j \in Jobs, LayoutOpens(j) \/ LayoutWrites(j) \/ LayoutFails(j)
  PROVE  StoresInv'
<1> USE DEF StoresInv
<1>1. UNCHANGED <<altos, reports, preview, archive>>
  BY DEF LayoutOpens, LayoutWrites, LayoutFails, altoVars
<1>2. /\ sink' \in [Jobs -> SinkType]
      /\ \A m \in Jobs : sink'[m].doc \in {sink[m].doc, sink[m].doc + 1}
  BY SinkMoves, SinkAdvances DEF LayoutOpens, LayoutWrites, LayoutFails, StoresTypeOK
<1>3. ReportsAreLast'
  <2> SUFFICES ASSUME NEW m \in reports PROVE sink'[m].doc > NDocs
    BY <1>1 DEF ReportsAreLast
  <2>1. m \in Jobs /\ sink[m].doc > NDocs /\ sink[m].doc \in Nat /\ sink'[m].doc \in Nat
    BY <1>2 DEF StoresTypeOK, ReportsAreLast, SinkType
  <2>2. QED
    BY <1>2, <2>1, StoresAssumption
<1>4. ArchivesKeepUp' /\ PreviewIsRecent'
  BY <1>1 DEF ArchivesKeepUp, OfRun, PreviewIsRecent
<1>5. CASE LayoutFails(j)
  <2>1. UNCHANGED <<layouts, clock, saved>>
    BY <1>5 DEF LayoutFails
  <2>2. StoresTypeOK'
    BY <1>1, <1>2, <2>1 DEF StoresTypeOK, PreviewType, ArchiveType
  <2>3. PreviewsAreRecent'
    BY <1>1, <2>1 DEF PreviewsAreRecent, Recent
  <2>4. OpenedExist'
    BY <1>5, <2>1, OpenedExist_step DEF LayoutFails
  <2>5. QED
    BY <1>3, <1>4, <2>2, <2>3, <2>4
<1>6. CASE LayoutOpens(j)
  <2>0. /\ clock' \in {clock, clock + 1} /\ saved' = saved /\ SinkTo(j, "layout opened")
        /\ layouts' = Put(layouts, Doc(j), [state |-> "torn", mtime |-> clock'])
    BY <1>6 DEF LayoutOpens
  <2>1. /\ DOMAIN layouts' = DOMAIN layouts \union {Doc(j)}
        /\ layouts' = [k \in DOMAIN layouts' |-> layouts'[k]]
        /\ layouts'[Doc(j)] = [state |-> "torn", mtime |-> clock']
        /\ \A k \in DOMAIN layouts : k # Doc(j) => layouts'[k] = layouts[k]
    BY <2>0, LayoutPut
  <2>2. clock \in Nat /\ saved \in Nat /\ \A k \in DOMAIN layouts : layouts[k].mtime \in Nat
    BY DEF StoresTypeOK
  <2>3. clock' \in Nat /\ clock' >= clock
    <3>1. \A n \in Nat : \A m \in {n, n + 1} : m \in Nat /\ m >= n
      OBVIOUS
    <3>2. QED
      BY <2>0, <2>2, <3>1
  <2>4. StoresTypeOK'
    <3>1. preview' \in [Previewers -> PreviewType'] /\ archive' \in [Downloaders -> ArchiveType']
      BY <1>1, <2>1, TypesGrow
    <3>2. \A k \in DOMAIN layouts' : layouts'[k] \in [state : {"torn", "whole"}, mtime : Nat]
      BY <2>1, <2>3 DEF StoresTypeOK
    <3>3. QED
      BY <1>1, <1>2, <2>0, <2>1, <2>2, <2>3, <3>1, <3>2 DEF StoresTypeOK
  <2>5. \A p \in Previewers : /\ preview[p].listed \subseteq DOMAIN layouts
                              /\ preview[p].since \in Nat /\ preview[p].since <= clock
    BY DEF StoresTypeOK, PreviewType, PreviewsAreRecent
  <2>6. ASSUME NEW p \in Previewers, NEW k \in DOMAIN layouts, Recent(k, p)
        PROVE  Recent(k, p)'
    BY <1>1, <2>1, <2>2, <2>3, <2>5, <2>6 DEF Recent
  <2>7. PreviewsAreRecent'
    <3>0. saved' <= clock'
      <4>1. \A a, b, c \in Nat : a <= b /\ c >= b => a <= c
        OBVIOUS
      <4>2. saved <= clock /\ saved' = saved
        BY <2>0 DEF PreviewsAreRecent
      <4>3. QED
        BY <2>2, <2>3, <4>1, <4>2, Zenon
    <3>1. \A k \in DOMAIN layouts' : layouts'[k].mtime <= clock'
      <4>1. ASSUME NEW k \in DOMAIN layouts, k # Doc(j)
            PROVE  layouts'[k].mtime <= clock'
        <5>1. layouts'[k].mtime = layouts[k].mtime /\ layouts[k].mtime \in Nat
          BY <2>1, <2>2, <4>1
        <5>2. layouts[k].mtime <= clock
          BY DEF PreviewsAreRecent
        <5>3. QED
          BY <2>2, <2>3, <5>1, <5>2
      <4>2. layouts'[Doc(j)].mtime <= clock'
        BY <2>1, <2>3
      <4>3. QED
        BY <2>1, <4>1, <4>2
    <3>2. layouts'[Doc(j)].mtime >= saved'
      <4>0. saved' \in Nat
        BY <2>0, <2>2
      <4>1. layouts'[Doc(j)].mtime = clock'
        BY <2>1
      <4>2. \A a, b \in Nat : a <= b => b >= a
        OBVIOUS
      <4>3. QED
        BY <2>3, <3>0, <4>0, <4>1, <4>2, Zenon
    <3>3. \A p \in Previewers : preview[p].since <= clock'
      BY <2>2, <2>3, <2>5
    <3>4. \A p \in Previewers :
            /\ preview[p].pc = "listed" => \E i \in preview[p].listed : Recent(i, p)'
            /\ preview[p].pc = "picked" => \A i \in preview[p].listed : Recent(i, p)'
      BY <2>5, <2>6 DEF PreviewsAreRecent
    <3>5. QED
      BY <1>1, <2>1, <3>0, <3>1, <3>2, <3>3, <3>4 DEF PreviewsAreRecent
  <2>8. OpenedExist'
    BY <2>0, <2>1, OpenedExist_step
  <2>9. QED
    BY <1>3, <1>4, <2>4, <2>7, <2>8
<1>7. CASE LayoutWrites(j)
  <2>0. /\ clock' = clock /\ saved' = layouts[Doc(j)].mtime /\ SinkTo(j, "alto")
        /\ layouts' = [layouts EXCEPT ![Doc(j)].state = "whole"] /\ Doc(j) \in DOMAIN layouts
    BY <1>7 DEF LayoutWrites, SinkAt, OpenedExist
  <2>1. /\ DOMAIN layouts' = DOMAIN layouts
        /\ layouts' = [k \in DOMAIN layouts' |-> layouts'[k]]
        /\ \A k \in DOMAIN layouts : /\ layouts'[k] \in [state : {"torn", "whole"}, mtime : Nat]
                                     /\ layouts'[k].mtime = layouts[k].mtime
    BY <2>0 DEF StoresTypeOK
  <2>2. saved' \in Nat /\ saved' <= clock'
    BY <2>0 DEF StoresTypeOK, PreviewsAreRecent
  <2>3. StoresTypeOK'
    <3>1. preview' \in [Previewers -> PreviewType'] /\ archive' \in [Downloaders -> ArchiveType']
      BY <1>1, <2>1, TypesGrow
    <3>2. QED
      BY <1>1, <1>2, <2>0, <2>1, <2>2, <3>1 DEF StoresTypeOK
  <2>4. \A p \in Previewers, k \in DOMAIN layouts : Recent(k, p) => Recent(k, p)'
    BY <1>1, <2>1 DEF Recent
  <2>5. PreviewsAreRecent'
    <3>1. layouts'[Doc(j)].mtime >= saved'
      BY <2>0, <2>1, <2>2
    <3>2. \A p \in Previewers : preview[p].listed \subseteq DOMAIN layouts
      BY DEF StoresTypeOK, PreviewType
    <3>3. \A p \in Previewers :
            /\ preview[p].pc = "listed" => \E i \in preview[p].listed : Recent(i, p)'
            /\ preview[p].pc = "picked" => \A i \in preview[p].listed : Recent(i, p)'
      BY <2>4, <3>2 DEF PreviewsAreRecent
    <3>4. QED
      BY <1>1, <2>0, <2>1, <2>2, <3>1, <3>3 DEF PreviewsAreRecent
  <2>6. OpenedExist'
    BY <2>0, <2>1, OpenedExist_step
  <2>7. QED
    BY <1>3, <1>4, <2>3, <2>5, <2>6
<1>8. QED
  BY <1>5, <1>6, <1>7

\* The sink of a job on its ALTO files.
LEMMA StoresInv_altos ==
  ASSUME StoresInv, NEW j \in Jobs, AltoOpens(j) \/ AltoWrites(j) \/ AltoFails(j)
  PROVE  StoresInv'
<1> USE DEF StoresInv
<1>1. UNCHANGED <<layouts, clock, saved, reports, preview, archive>>
  BY DEF AltoOpens, AltoWrites, AltoFails, segVars
<1>2. /\ sink' \in [Jobs -> SinkType]
      /\ \A m \in Jobs : sink'[m].doc \in {sink[m].doc, sink[m].doc + 1}
  BY SinkMoves, SinkAdvances DEF AltoOpens, AltoWrites, AltoFails, StoresTypeOK
<1>3. \A m \in reports : m \in Jobs /\ sink[m].doc > NDocs /\ sink[m].doc \in Nat
                         /\ sink'[m].doc \in Nat
  BY <1>2 DEF StoresTypeOK, ReportsAreLast, SinkType
<1>4. ReportsAreLast'
  BY <1>1, <1>2, <1>3, StoresAssumption DEF ReportsAreLast
<1>5. PreviewsAreRecent' /\ PreviewIsRecent' /\ OpenedExist'
  <2>1. PreviewsAreRecent' /\ PreviewIsRecent'
    BY <1>1 DEF PreviewsAreRecent, PreviewIsRecent, Recent
  <2>2. OpenedExist'
    BY <1>1, OpenedExist_step DEF AltoOpens, AltoWrites, AltoFails
  <2>3. QED
    BY <2>1, <2>2
<1>6. j \notin reports
  <2>1. sink[j].doc <= NDocs
    BY DEF AltoOpens, AltoWrites, AltoFails, SinkAt
  <2>2. QED
    BY <1>3, <2>1, StoresAssumption
<1>7. CASE AltoFails(j)
  <2>1. UNCHANGED altos
    BY <1>7 DEF AltoFails
  <2>2. StoresTypeOK'
    BY <1>1, <1>2, <2>1 DEF StoresTypeOK, PreviewType, ArchiveType
  <2>3. ArchivesKeepUp'
    BY <1>1, <2>1 DEF ArchivesKeepUp, OfRun
  <2>4. QED
    BY <1>4, <1>5, <2>2, <2>3
<1>8. ASSUME NEW s \in {"torn", "whole"}, altos' = Put(altos, Doc(j), s)
      PROVE  StoresInv'
  <2>1. /\ DOMAIN altos' = DOMAIN altos \union {Doc(j)}
        /\ altos' \in [DOMAIN altos' -> {"torn", "whole"}]
        /\ \A m \in Jobs \ {j} : OfRun(m)' = OfRun(m) /\ \A i \in OfRun(m) : altos'[i] = altos[i]
    BY <1>8, AltoPut
  <2>2. StoresTypeOK'
    <3>1. preview' \in [Previewers -> PreviewType'] /\ archive' \in [Downloaders -> ArchiveType']
      BY <1>1, <2>1, TypesGrow
    <3>2. QED
      BY <1>1, <1>2, <2>1, <3>1 DEF StoresTypeOK
  <2>3. ArchivesKeepUp'
    <3>1. ASSUME NEW d \in Downloaders, archive[d].pc \in {"zipping", "served"}
          PROVE  /\ archive[d].left \subseteq OfRun(archive[d].of)'
                 /\ archive[d].holds =
                      {<<i, altos'[i]>> : i \in OfRun(archive[d].of)' \ archive[d].left}
      <4>1. archive[d].of \in Jobs \ {j}
        BY <1>3, <1>6, <3>1 DEF ArchivesKeepUp
      <4>2. OfRun(archive[d].of)' = OfRun(archive[d].of)
            /\ \A i \in OfRun(archive[d].of) : altos'[i] = altos[i]
        BY <1>1, <2>1, <4>1 DEF OfRun
      <4>3. QED
        BY <3>1, <4>2 DEF ArchivesKeepUp
    <3>2. QED
      BY <1>1, <3>1 DEF ArchivesKeepUp
  <2>4. QED
    BY <1>4, <1>5, <2>2, <2>3
<1>9. QED
  BY <1>7, <1>8 DEF AltoOpens, AltoWrites

\* A page asks for the preview.
LEMMA StoresInv_preview ==
  ASSUME StoresInv, NEW p \in Previewers, PreviewLists(p) \/ PreviewPicks(p) \/ PreviewReads(p)
  PROVE  StoresInv'
<1> USE DEF StoresInv
<1>1. /\ UNCHANGED <<layouts, clock, saved, altos, reports, sink, archive>>
      /\ \A q \in Previewers \ {p} : preview'[q] = preview[q]
  BY DEF PreviewLists, PreviewPicks, PreviewReads, segVars, altoVars, StoresTypeOK
<1>2. ReportsAreLast' /\ ArchivesKeepUp' /\ OpenedExist'
  BY <1>1 DEF ReportsAreLast, ArchivesKeepUp, OfRun, OpenedExist, Doc
<1>3. preview[p] \in PreviewType /\ preview[p].since \in Nat
      /\ \A i \in DOMAIN layouts : layouts[i].mtime \in Nat
  BY DEF StoresTypeOK, PreviewType
<1>4. ASSUME preview' \in [Previewers -> PreviewType] PROVE StoresTypeOK'
  BY <1>1, <1>4 DEF StoresTypeOK, PreviewType, ArchiveType
<1>5. CASE PreviewLists(p)
  <2>1. /\ preview' \in [Previewers -> PreviewType]
        /\ preview'[p].pc = "listed" /\ preview'[p].since = saved
        /\ preview'[p].listed = DOMAIN layouts
    BY <1>3, <1>5 DEF PreviewLists, PreviewType, StoresTypeOK
  <2>2. PreviewsAreRecent'
    BY <1>1, <2>1 DEF PreviewsAreRecent, Recent
  <2>3. PreviewIsRecent'
    BY <1>1, <2>1 DEF PreviewIsRecent
  <2>4. QED
    BY <1>2, <1>4, <2>1, <2>2, <2>3
<1>6. CASE PreviewPicks(p)
  <2>1. PICK i \in LatestOf(preview[p].listed) :
          preview' = [preview EXCEPT ![p].pc = "picked", ![p].listed = {i}]
    BY <1>6 DEF PreviewPicks
  <2>2. i \in preview[p].listed /\ preview[p].listed \subseteq DOMAIN layouts
    BY <1>3, <2>1 DEF LatestOf, PreviewType
  <2>3. Recent(i, p)
    <3>1. PICK k \in preview[p].listed : Recent(k, p)
      BY <1>6 DEF PreviewPicks, PreviewsAreRecent
    <3>2. layouts[k].mtime <= layouts[i].mtime
      BY <2>1, <3>1 DEF LatestOf
    <3>3. QED
      BY <1>3, <2>2, <3>1, <3>2 DEF Recent
  <2>4. /\ preview' \in [Previewers -> PreviewType]
        /\ preview'[p].pc = "picked" /\ preview'[p].since = preview[p].since
        /\ preview'[p].listed = {i}
    <3>1. {i} \in SUBSET DOMAIN layouts
      BY <2>2
    <3>2. preview \in [Previewers -> PreviewType]
      BY DEF StoresTypeOK
    <3> DEFINE s == {i}
    <3>3. preview' = [preview EXCEPT ![p].pc = "picked", ![p].listed = s]
      BY <2>1
    <3> HIDE DEF s
    <3>4. s \in SUBSET DOMAIN layouts
      BY <3>1 DEF s
    <3>5. preview' \in [Previewers -> PreviewType]
          /\ preview'[p] = [preview[p] EXCEPT !.pc = "picked", !.listed = s]
      BY <3>2, <3>3, <3>4 DEF PreviewType
    <3>6. QED
      BY <1>3, <3>5 DEF s, PreviewType
  <2>5. PreviewsAreRecent'
    BY <1>1, <2>3, <2>4 DEF PreviewsAreRecent, Recent
  <2>6. PreviewIsRecent'
    BY <1>1, <2>4 DEF PreviewIsRecent
  <2>7. QED
    BY <1>2, <1>4, <2>4, <2>5, <2>6
<1>7. CASE PreviewReads(p)
  <2>1. PICK i \in preview[p].listed :
          preview' = IF layouts[i].state = "whole"
                     THEN [preview EXCEPT ![p].pc = "shown",
                             ![p].shows = [of |-> i, mtime |-> layouts[i].mtime]]
                     ELSE [preview EXCEPT ![p].pc = "failed"]
    BY <1>7 DEF PreviewReads
  <2>2. i \in DOMAIN layouts /\ layouts[i].mtime >= preview[p].since
    BY <1>3, <1>7, <2>1 DEF PreviewReads, PreviewsAreRecent, PreviewType, Recent
  <2>3. CASE layouts[i].state = "whole"
    <3>1. /\ preview' \in [Previewers -> PreviewType]
          /\ preview'[p].pc = "shown" /\ preview'[p].since = preview[p].since
          /\ preview'[p].shows.mtime = layouts[i].mtime
      BY <1>3, <2>1, <2>2, <2>3 DEF PreviewType, StoresTypeOK
    <3>2. PreviewsAreRecent' /\ PreviewIsRecent'
      BY <1>1, <2>2, <3>1 DEF PreviewsAreRecent, PreviewIsRecent, Recent
    <3>3. QED
      BY <1>2, <1>4, <3>1, <3>2
  <2>4. CASE layouts[i].state # "whole"
    <3>1. /\ preview' \in [Previewers -> PreviewType]
          /\ preview'[p].pc = "failed" /\ preview'[p].since = preview[p].since
      BY <1>3, <2>1, <2>4 DEF PreviewType, StoresTypeOK
    <3>2. PreviewsAreRecent' /\ PreviewIsRecent'
      BY <1>1, <3>1 DEF PreviewsAreRecent, PreviewIsRecent, Recent
    <3>3. QED
      BY <1>2, <1>4, <3>1, <3>2
  <2>5. QED
    BY <2>3, <2>4
<1>8. QED
  BY <1>5, <1>6, <1>7

\* A page asks for an archive.
LEMMA StoresInv_archive ==
  ASSUME StoresInv, NEW d \in Downloaders,
         ArchiveReads(d) \/ ArchiveServed(d) \/ \E j \in Jobs : ArchiveLists(d, j)
  PROVE  StoresInv'
<1> USE DEF StoresInv
<1>1. /\ UNCHANGED <<layouts, clock, saved, altos, reports, sink, preview>>
      /\ \A e \in Downloaders \ {d} : archive'[e] = archive[e]
  BY DEF ArchiveReads, ArchiveServed, ArchiveLists, segVars, altoVars, StoresTypeOK
<1>2. ReportsAreLast' /\ PreviewsAreRecent' /\ PreviewIsRecent' /\ OpenedExist'
  BY <1>1 DEF ReportsAreLast, PreviewsAreRecent, PreviewIsRecent, Recent, OpenedExist, Doc
<1>3. archive[d] \in ArchiveType /\ \A i \in DOMAIN altos : altos[i] \in {"torn", "whole"}
  BY DEF StoresTypeOK
<1>4. ASSUME archive' \in [Downloaders -> ArchiveType] PROVE StoresTypeOK'
  BY <1>1, <1>4 DEF StoresTypeOK, PreviewType, ArchiveType
<1>5. ASSUME /\ archive'[d].pc \in {"zipping", "served"} =>
                  /\ archive'[d].of \in reports
                  /\ archive'[d].left \subseteq OfRun(archive'[d].of)
                  /\ archive'[d].holds =
                       {<<i, altos[i]>> : i \in OfRun(archive'[d].of) \ archive'[d].left}
             /\ archive'[d].pc = "served" => archive'[d].left = {}
      PROVE  ArchivesKeepUp'
  BY <1>1, <1>5 DEF ArchivesKeepUp, OfRun
<1>6. ASSUME NEW j \in Jobs, ArchiveLists(d, j) PROVE StoresInv'
  <2>1. archive'[d] = [pc |-> "zipping", of |-> j, holds |-> {}, left |-> OfRun(j)]
        /\ j \in reports /\ archive' = [e \in Downloaders |-> archive'[e]]
    BY <1>6 DEF ArchiveLists, OfRun, StoresTypeOK
  <2>2. archive'[d] \in ArchiveType
    BY <2>1 DEF ArchiveType, OfRun
  <2>3. archive' \in [Downloaders -> ArchiveType]
    BY <1>1, <2>1, <2>2 DEF StoresTypeOK
  <2>4. ArchivesKeepUp'
    BY <1>5, <2>1
  <2>5. QED
    BY <1>2, <1>4, <2>3, <2>4
<1>7. CASE ArchiveReads(d)
  <2>1. PICK i \in archive[d].left :
          archive' = [archive EXCEPT ![d].left = @ \ {i},
                                     ![d].holds = @ \union {<<i, altos[i]>>}]
    BY <1>7 DEF ArchiveReads
  <2>2. /\ archive[d].pc = "zipping" /\ archive[d].of \in reports
        /\ archive[d].left \subseteq OfRun(archive[d].of)
        /\ archive[d].holds = {<<k, altos[k]>> : k \in OfRun(archive[d].of) \ archive[d].left}
    BY <1>7 DEF ArchiveReads, ArchivesKeepUp
  <2>3. /\ archive'[d].pc = archive[d].pc /\ archive'[d].of = archive[d].of
        /\ archive'[d].left = archive[d].left \ {i}
        /\ archive'[d].holds = archive[d].holds \union {<<i, altos[i]>>}
    BY <1>3, <2>1 DEF StoresTypeOK, ArchiveType
  <2>4. archive' \in [Downloaders -> ArchiveType]
    <3>1. i \in DOMAIN altos /\ altos[i] \in {"torn", "whole"}
      BY <1>3, <2>2 DEF OfRun
    <3> DEFINE rest == archive[d].left \ {i}
               held == archive[d].holds \union {<<i, altos[i]>>}
    <3>2. rest \in SUBSET DOMAIN altos /\ held \in SUBSET ((DOMAIN altos) \X {"torn", "whole"})
      BY <1>3, <3>1 DEF ArchiveType
    <3>3. archive' = [archive EXCEPT ![d].left = rest, ![d].holds = held]
      BY <2>1
    <3>4. archive \in [Downloaders -> ArchiveType]
      BY DEF StoresTypeOK
    <3> HIDE DEF rest, held
    <3>5. [archive[d] EXCEPT !.left = rest, !.holds = held] \in ArchiveType
      BY <3>2, <3>4 DEF ArchiveType
    <3>6. archive' = [archive EXCEPT ![d] = [archive[d] EXCEPT !.left = rest, !.holds = held]]
      BY <3>3, <3>4
    <3>7. QED
      BY <3>4, <3>5, <3>6
  <2>5. ArchivesKeepUp'
    <3>1. archive'[d].left \subseteq OfRun(archive[d].of)
      BY <2>2, <2>3
    <3>2. archive'[d].holds =
            {<<k, altos[k]>> : k \in OfRun(archive[d].of) \ archive'[d].left}
      BY <2>2, <2>3
    <3>3. QED
      BY <1>5, <2>2, <2>3, <3>1, <3>2
  <2>6. QED
    BY <1>2, <1>4, <2>4, <2>5
<1>8. CASE ArchiveServed(d)
  <2>1. /\ archive[d].pc = "zipping" /\ archive[d].left = {} /\ archive'[d].pc = "served"
        /\ archive'[d].of = archive[d].of /\ archive'[d].left = archive[d].left
        /\ archive'[d].holds = archive[d].holds
    BY <1>3, <1>8 DEF ArchiveServed, StoresTypeOK, ArchiveType
  <2>2. archive' \in [Downloaders -> ArchiveType]
    BY <1>3, <1>8 DEF ArchiveServed, StoresTypeOK, ArchiveType
  <2>3. ArchivesKeepUp'
    BY <1>5, <2>1 DEF ArchivesKeepUp
  <2>4. QED
    BY <1>2, <1>4, <2>2, <2>3
<1>9. QED
  BY <1>6, <1>7, <1>8

LEMMA StoresInv_step == StoresInv /\ [StoresNext]_storesVars => StoresInv'
<1> SUFFICES ASSUME StoresInv, [StoresNext]_storesVars PROVE StoresInv'
  OBVIOUS
<1>1. ASSUME NEW j \in Jobs, ReportWritten(j) PROVE StoresInv'
  <2>1. UNCHANGED <<layouts, clock, saved, altos, sink, preview, archive>>
        /\ reports' = reports \union {j} /\ sink[j].doc > NDocs
    BY <1>1 DEF ReportWritten, Reports, segVars, altoVars
  <2>2. StoresTypeOK' /\ ReportsAreLast' /\ ArchivesKeepUp'
    BY <2>1 DEF StoresInv, StoresTypeOK, PreviewType, ArchiveType, ReportsAreLast,
                ArchivesKeepUp, OfRun
  <2>3. PreviewsAreRecent' /\ PreviewIsRecent' /\ OpenedExist'
    BY <2>1 DEF StoresInv, PreviewsAreRecent, PreviewIsRecent, Recent, OpenedExist, Doc
  <2>4. QED
    BY <2>2, <2>3 DEF StoresInv
<1>2. CASE UNCHANGED storesVars
  <2>1. UNCHANGED <<layouts, clock, saved, altos, reports, sink, preview, archive>>
    BY <1>2 DEF storesVars
  <2>2. StoresTypeOK' /\ ReportsAreLast' /\ ArchivesKeepUp'
    BY <2>1 DEF StoresInv, StoresTypeOK, PreviewType, ArchiveType, ReportsAreLast,
                ArchivesKeepUp, OfRun
  <2>3. PreviewsAreRecent' /\ PreviewIsRecent' /\ OpenedExist'
    BY <2>1 DEF StoresInv, PreviewsAreRecent, PreviewIsRecent, Recent, OpenedExist, Doc
  <2>4. QED
    BY <2>2, <2>3 DEF StoresInv
<1>3. QED
  BY <1>1, <1>2, StoresInv_layouts, StoresInv_altos, StoresInv_preview, StoresInv_archive
     DEF StoresNext

\* The preview of the segmentation (app/segmentation.py, latest then
\* get_layout without the lock) is of a directory no older, by the clock of the
\* file system, than the one of the last layout saved when it was asked for,
\* whatever ties that clock gives, for any number of jobs, documents and pages.
THEOREM PreviewsShowTheLatest == StoresSpec => []PreviewIsRecent
<1>1. StoresInv => PreviewIsRecent
  BY DEF StoresInv
<1>2. QED
  BY <1>1, StoresInv_init, StoresInv_step, PTL DEF StoresSpec

\* The archive of a report (app/alto_store.py, without the lock) holds all the
\* files of its run, because the report is written after them.
THEOREM ArchivesAreComplete == StoresSpec => []ArchiveHoldsTheRun
<1>1. StoresInv => ArchiveHoldsTheRun
  <2> SUFFICES ASSUME StoresInv, NEW d \in Downloaders, archive[d].pc = "served"
               PROVE  archive[d].holds =
                        {<<i, altos[i]>> : i \in {k \in DOMAIN altos : k[1] = archive[d].of}}
    BY DEF ArchiveHoldsTheRun
  <2>1. archive[d].left = {}
        /\ archive[d].holds = {<<i, altos[i]>> : i \in OfRun(archive[d].of) \ archive[d].left}
    BY DEF StoresInv, ArchivesKeepUp
  <2>2. OfRun(archive[d].of) \ {} = {k \in DOMAIN altos : k[1] = archive[d].of}
    BY DEF OfRun
  <2>3. QED
    BY <2>1, <2>2
<1>2. QED
  BY <1>1, StoresInv_init, StoresInv_step, PTL DEF StoresSpec
-----------------------------------------------------------------------------
(* The rate limit.                                                         *)

Span(S, from, to) == {r \in S : r[1] >= from /\ r[1] < to}

\* What is remembered: times not after now, and ranks that are all taken.
HistoryOK ==
  /\ now \in Nat /\ refused \in SUBSET Nat /\ IsFiniteSet(admitted)
  /\ \A r \in admitted :
       /\ r[1] \in Nat /\ r[1] <= now /\ r[2] \in Nat
       /\ r[2] < Cardinality(Span(admitted, r[1], r[1] + 1))

Tracked == Watched \in DOMAIN hits
Start   == hits[Watched].start

\* The window counts what passed since a first request, which passed too, and
\* nothing passed after its end; a window is forgotten once it is over.
WindowOK ==
  /\ Tracked =>
       /\ Start \in Nat /\ Start <= now /\ hits[Watched].count \in 1 .. MaxRequests
       /\ hits[Watched].count = Cardinality(Span(admitted, Start, now + 1))
       /\ \E r \in admitted : r[1] = Start
       /\ \A r \in admitted : r[1] < Start + Window
  /\ ~Tracked => \A r \in admitted : r[1] < now

\* Any span that reaches the window from less than its length before misses
\* the first request of the window before.
Boundary == IF Tracked THEN Start ELSE now
ReachOK  == \A a \in Int : a > Boundary - Window => Cardinality(Span(admitted, a, Boundary)) < MaxRequests

SpansOK == \A a \in Int : Cardinality(Span(admitted, a, a + Window)) < 2 * MaxRequests

RefusalsOK == \A r \in refused : Cardinality(Span(admitted, r - Window + 1, r + 1)) >= MaxRequests

RateInv == HistoryOK /\ WindowOK /\ ReachOK /\ SpansOK /\ RefusalsOK

LEMMA SpanIsFinite ==
  ASSUME NEW S, IsFiniteSet(S), NEW a, NEW b
  PROVE  IsFiniteSet(Span(S, a, b)) /\ Cardinality(Span(S, a, b)) \in Nat
<1>1. Span(S, a, b) \in SUBSET S
  BY DEF Span
<1>2. QED
  BY <1>1, FS_Subset, FS_CardinalityType

LEMMA CountsGrow ==
  ASSUME NEW T, IsFiniteSet(T), NEW S \in SUBSET T
  PROVE  Cardinality(S) <= Cardinality(T)
BY FS_Subset

LEMMA RateInv_init == RateInit => RateInv
<1> SUFFICES ASSUME RateInit PROVE RateInv
  OBVIOUS
<1> USE RateAssumption DEF RateInit
<1>1. IsFiniteSet({}) /\ Cardinality({}) = 0
  BY FS_EmptySet
<1>2. \A a, b : Cardinality(Span(admitted, a, b)) = 0
  BY <1>1 DEF Span
<1>3. HistoryOK
  BY <1>1 DEF HistoryOK
<1>4. WindowOK
  BY DEF WindowOK, Tracked
<1>5. ReachOK /\ SpansOK /\ RefusalsOK
  BY <1>1, <1>2 DEF ReachOK, SpansOK, RefusalsOK
<1>6. QED
  BY <1>3, <1>4, <1>5 DEF RateInv

\* Nothing passed yet after now.
LEMMA NothingAhead ==
  ASSUME HistoryOK, NEW a \in Int, NEW b \in Int, b > now
  PROVE  Span(admitted, a, b) = Span(admitted, a, now + 1)
<1>1. \A r \in admitted : r[1] >= a /\ r[1] < b <=> r[1] >= a /\ r[1] < now + 1
  BY DEF HistoryOK
<1>2. QED
  BY <1>1, Zenon DEF Span

LEMMA RateInv_tick == RateInv /\ ClockTicks => RateInv'
<1> SUFFICES ASSUME RateInv, ClockTicks PROVE RateInv'
  OBVIOUS
<1> USE RateAssumption DEF RateInv, ClockTicks
<1>1. now \in Nat /\ now' = now + 1
  BY DEF HistoryOK
<1>2. \A a, b : Span(admitted', a, b) = Span(admitted, a, b)
  BY DEF Span
<1>3. HistoryOK'
  BY <1>1, <1>2 DEF HistoryOK
<1>4. Tracked' = Tracked /\ Start' = Start
  BY DEF Tracked, Start
<1>5. WindowOK'
  <2>1. CASE Tracked
    <3>1. Span(admitted, Start, now' + 1) = Span(admitted, Start, now + 1)
      BY <1>1, <2>1, NothingAhead DEF WindowOK
    <3>2. QED
      BY <1>1, <1>2, <1>4, <2>1, <3>1 DEF WindowOK
  <2>2. CASE ~Tracked
    BY <1>1, <1>4, <2>2 DEF WindowOK, HistoryOK
  <2>3. QED
    BY <2>1, <2>2
<1>6. ReachOK'
  <2>1. CASE Tracked
    BY <1>2, <1>4, <2>1 DEF ReachOK, Boundary
  <2>2. CASE ~Tracked
    <3>1. ASSUME NEW a \in Int PROVE Span(admitted, a, now + 1) = Span(admitted, a, now)
      <4>1. \A r \in admitted : r[1] >= a /\ r[1] < now + 1 <=> r[1] >= a /\ r[1] < now
        BY <1>1, <2>2 DEF WindowOK, HistoryOK
      <4>2. QED
        BY <4>1, Zenon DEF Span
    <3>2. Boundary = now /\ Boundary' = now + 1
      BY <1>1, <1>4, <2>2 DEF Boundary
    <3>3. QED
      BY <1>1, <1>2, <3>1, <3>2 DEF ReachOK
  <2>3. QED
    BY <2>1, <2>2
<1>7. SpansOK' /\ RefusalsOK'
  BY <1>2 DEF SpansOK, RefusalsOK
<1>8. QED
  BY <1>3, <1>5, <1>6, <1>7

\* A window that is over: what passed since less than its length misses its
\* first request.
LEMMA WindowOver ==
  ASSUME RateInv, Watched \notin Live
  PROVE  /\ \A r \in admitted : r[1] < now
         /\ \A a \in Int : a > now - Window => Cardinality(Span(admitted, a, now)) < MaxRequests
<1> USE RateAssumption DEF RateInv
<1>1. CASE ~Tracked
  BY <1>1 DEF WindowOK, ReachOK, Boundary
<1>2. CASE Tracked
  <2>1. now \in Nat /\ Start \in Nat /\ Start + Window <= now
    BY <1>2 DEF HistoryOK, WindowOK, Live, Tracked, Start
  <2>2. \A r \in admitted : r[1] \in Nat /\ r[1] < now
    BY <1>2, <2>1 DEF WindowOK, HistoryOK
  <2>3. ASSUME NEW a \in Int, a > now - Window PROVE Cardinality(Span(admitted, a, now)) < MaxRequests
    <3>1. PICK first \in admitted : first[1] = Start
      BY <1>2 DEF WindowOK
    <3>2. first \in Span(admitted, Start, now + 1) /\ first \notin Span(admitted, a, now)
      BY <2>1, <2>3, <3>1 DEF Span
    <3>3. Span(admitted, a, now) \in SUBSET Span(admitted, Start, now + 1)
      BY <2>1, <2>2, <2>3 DEF Span
    <3>4. Span(admitted, a, now) # Span(admitted, Start, now + 1)
      BY <3>2
    <3>5. /\ IsFiniteSet(Span(admitted, Start, now + 1))
          /\ Cardinality(Span(admitted, Start, now + 1)) \in Nat /\ Cardinality(Span(admitted, a, now)) \in Nat
      BY SpanIsFinite DEF HistoryOK
    <3>6. Cardinality(Span(admitted, a, now)) < Cardinality(Span(admitted, Start, now + 1))
      BY <3>3, <3>4, <3>5, FS_Subset
    <3>7. QED
      BY <1>2, <3>5, <3>6 DEF WindowOK
  <2>4. QED
    BY <2>2, <2>3
<1>3. QED
  BY <1>1, <1>2

\* A request that passes is one more in the spans that hold now.
LEMMA Admitted ==
  ASSUME RateInv, Request(Watched), ~Full(Watched)
  PROVE  /\ IsFiniteSet(admitted') /\ admitted \in SUBSET admitted'
         /\ \E r \in admitted' : r[1] = now
         /\ \A r \in admitted' \ admitted :
              r[1] = now /\ r[2] \in Nat /\ r[2] < Cardinality(Span(admitted', now, now + 1))
         /\ \A a, b \in Int :
              /\ a <= now /\ now < b =>
                   Cardinality(Span(admitted', a, b)) = Cardinality(Span(admitted, a, b)) + 1
              /\ ~(a <= now /\ now < b) => Span(admitted', a, b) = Span(admitted, a, b)
<1> USE RateAssumption DEF RateInv
<1> DEFINE rank == Cardinality(Span(admitted, now, now + 1))
           new  == <<now, rank>>
<1>1. now \in Nat /\ rank \in Nat /\ IsFiniteSet(admitted)
  BY SpanIsFinite DEF HistoryOK
<1>2. admitted' = admitted \union {new}
  BY DEF Request, Within, Span
<1>3. new \notin admitted
  BY <1>1 DEF HistoryOK
<1>4. ASSUME NEW a \in Int, NEW b \in Int, a <= now, now < b
      PROVE  Cardinality(Span(admitted', a, b)) = Cardinality(Span(admitted, a, b)) + 1
  <2>1. Span(admitted', a, b) = Span(admitted, a, b) \union {new}
    BY <1>1, <1>2, <1>4 DEF Span
  <2>2. new \notin Span(admitted, a, b) /\ IsFiniteSet(Span(admitted, a, b))
    BY <1>1, <1>3, SpanIsFinite DEF Span
  <2>3. QED
    BY <2>1, <2>2, FS_AddElement
<1>5. ASSUME NEW a \in Int, NEW b \in Int, ~(a <= now /\ now < b)
      PROVE  Span(admitted', a, b) = Span(admitted, a, b)
  BY <1>1, <1>2, <1>5 DEF Span
<1>6. IsFiniteSet(admitted')
  BY <1>1, <1>2, FS_AddElement
<1>7. Cardinality(Span(admitted', now, now + 1)) = rank + 1
  BY <1>1, <1>4
<1> HIDE DEF rank
<1>8. \A r \in admitted' \ admitted :
        r[1] = now /\ r[2] \in Nat /\ r[2] < Cardinality(Span(admitted', now, now + 1))
  BY <1>1, <1>2, <1>7
<1>9. new[1] = now /\ new \in admitted' /\ admitted \in SUBSET admitted'
  BY <1>2
<1>10. QED
  BY <1>4, <1>5, <1>6, <1>8, <1>9

\* The window of a request that passes.
LEMMA WindowCounts ==
  ASSUME RateInv, Request(Watched), ~Full(Watched)
  PROVE  /\ Tracked' /\ Start' \in Nat /\ Start' <= now /\ now < Start' + Window
         /\ hits'[Watched].count \in 1 .. MaxRequests
         /\ hits'[Watched].count = Cardinality(Span(admitted, Start', now + 1)) + 1
         /\ \A r \in admitted : r[1] < Start' + Window
         /\ Start' # now => \E r \in admitted : r[1] = Start'
         /\ \A a \in Int : a > Start' - Window => Cardinality(Span(admitted, a, Start')) < MaxRequests
<1> USE RateAssumption DEF RateInv
<1>1. now \in Nat
  BY DEF HistoryOK
<1>2. Tracked' /\ hits'[Watched] = Counted(Watched)
  BY DEF Request, Tracked
<1>3. Start' = Entry(Watched).start /\ hits'[Watched].count = Entry(Watched).count + 1
  BY <1>2 DEF Start, Counted
<1>4. CASE Watched \in Live
  <2>1. Tracked /\ Entry(Watched) = hits[Watched] /\ now - Start < Window
    BY <1>4 DEF Live, Tracked, Entry, Start
  <2>2. Start' = Start /\ Start \in Nat /\ hits[Watched].count \in 1 .. MaxRequests
    BY <1>3, <2>1 DEF Start, WindowOK
  <2>3. hits[Watched].count < MaxRequests
    BY <2>1, <2>2 DEF Full
  <2>4. QED
    BY <1>1, <1>2, <1>3, <2>1, <2>2, <2>3 DEF WindowOK, ReachOK, Boundary
<1>5. CASE Watched \notin Live
  <2>1. Start' = now /\ hits'[Watched].count = 1
    BY <1>3, <1>5 DEF Entry
  <2>2. \A r \in admitted : r[1] \in Nat /\ r[1] < now
    BY <1>5, WindowOver DEF HistoryOK
  <2>3. Span(admitted, now, now + 1) = {}
    BY <1>1, <2>2 DEF Span
  <2>4. Cardinality(Span(admitted, now, now + 1)) = 0
    BY <2>3, FS_EmptySet
  <2>5. \A a \in Int : a > now - Window => Cardinality(Span(admitted, a, now)) < MaxRequests
    BY <1>5, WindowOver
  <2>6. QED
    BY <1>1, <1>2, <2>1, <2>2, <2>4, <2>5
<1>6. QED
  BY <1>4, <1>5

LEMMA RateInv_admit ==
  ASSUME RateInv, Request(Watched), ~Full(Watched)
  PROVE  RateInv'
<1> USE RateAssumption
<1>0. PICK start \in Nat : start = Start'
  BY WindowCounts
<1>1. now' = now /\ refused' = refused /\ now \in Nat /\ refused \in SUBSET Nat
  BY DEF Request, RateInv, HistoryOK
<1>2. /\ Tracked' /\ start \in Nat /\ start <= now /\ now < start + Window
      /\ hits'[Watched].count \in 1 .. MaxRequests
      /\ hits'[Watched].count = Cardinality(Span(admitted, start, now + 1)) + 1
      /\ \A r \in admitted : r[1] < start + Window
      /\ start # now => \E r \in admitted : r[1] = start
      /\ \A a \in Int : a > start - Window => Cardinality(Span(admitted, a, start)) < MaxRequests
  BY <1>0, WindowCounts
<1>3. /\ IsFiniteSet(admitted') /\ admitted \in SUBSET admitted'
      /\ \E r \in admitted' : r[1] = now
      /\ \A r \in admitted' \ admitted :
           r[1] = now /\ r[2] \in Nat /\ r[2] < Cardinality(Span(admitted', now, now + 1))
      /\ \A a, b \in Int :
           /\ a <= now /\ now < b => Cardinality(Span(admitted', a, b)) = Cardinality(Span(admitted, a, b)) + 1
           /\ ~(a <= now /\ now < b) => Span(admitted', a, b) = Span(admitted, a, b)
  BY Admitted
<1>4. \A a, b \in Int : /\ Cardinality(Span(admitted, a, b)) \in Nat
                        /\ Cardinality(Span(admitted', a, b)) \in Nat
                        /\ Cardinality(Span(admitted', a, b)) >= Cardinality(Span(admitted, a, b))
  <2>1. IsFiniteSet(admitted) /\ IsFiniteSet(admitted')
    BY <1>3 DEF RateInv, HistoryOK
  <2>2. \A a, b \in Int : Cardinality(Span(admitted, a, b)) \in Nat
    BY <2>1, SpanIsFinite
  <2>3. ASSUME NEW a \in Int, NEW b \in Int
        PROVE  Cardinality(Span(admitted', a, b)) \in Nat
               /\ Cardinality(Span(admitted', a, b)) >= Cardinality(Span(admitted, a, b))
    <3>1. CASE a <= now /\ now < b
      <4>1. Cardinality(Span(admitted', a, b)) = Cardinality(Span(admitted, a, b)) + 1
        BY <1>3, <3>1
      <4>2. Cardinality(Span(admitted, a, b)) \in Nat
        BY <2>2
      <4>3. QED
        BY <4>1, <4>2
    <3>2. CASE ~(a <= now /\ now < b)
      <4>1. Span(admitted', a, b) = Span(admitted, a, b)
        BY <1>3, <3>2
      <4>2. QED
        BY <2>2, <4>1
    <3>3. QED
      BY <3>1, <3>2
  <2>4. QED
    BY <2>2, <2>3
<1>5. HistoryOK'
  <2>1. ASSUME NEW r \in admitted'
        PROVE  /\ r[1] \in Nat /\ r[1] <= now /\ r[2] \in Nat
               /\ r[2] < Cardinality(Span(admitted', r[1], r[1] + 1))
    <3>1. CASE r \in admitted
      <4>1. /\ r[1] \in Nat /\ r[1] <= now /\ r[2] \in Nat
            /\ r[2] < Cardinality(Span(admitted, r[1], r[1] + 1))
        BY <3>1 DEF RateInv, HistoryOK
      <4>2. r[1] \in Int /\ r[1] + 1 \in Int
        BY <4>1
      <4>3. /\ Cardinality(Span(admitted, r[1], r[1] + 1)) \in Nat
            /\ Cardinality(Span(admitted', r[1], r[1] + 1)) \in Nat
            /\ Cardinality(Span(admitted', r[1], r[1] + 1))
                 >= Cardinality(Span(admitted, r[1], r[1] + 1))
        BY <1>4, <4>2
      <4>4. QED
        BY <4>1, <4>3
    <3>2. CASE r \notin admitted
      BY <1>1, <1>3, <2>1, <3>2
    <3>3. QED
      BY <3>1, <3>2
  <2>2. QED
    BY <1>1, <1>3, <2>1 DEF HistoryOK
<1>6. WindowOK'
  <2>1. hits'[Watched].count = Cardinality(Span(admitted', start, now + 1))
    BY <1>1, <1>2, <1>3
  <2>2. \E r \in admitted' : r[1] = start
    BY <1>2, <1>3
  <2>3. \A r \in admitted' : r[1] < start + Window
    BY <1>2, <1>3
  <2>4. QED
    BY <1>0, <1>1, <1>2, <2>1, <2>2, <2>3 DEF WindowOK
<1>7. ReachOK'
  <2>1. \A a \in Int : Span(admitted', a, start) = Span(admitted, a, start)
    BY <1>1, <1>2, <1>3
  <2>2. Boundary' = start
    BY <1>0, <1>2 DEF Boundary
  <2>3. QED
    BY <1>2, <2>1, <2>2 DEF ReachOK
<1>8. SpansOK'
  <2>1. ASSUME NEW a \in Int PROVE Cardinality(Span(admitted', a, a + Window)) < 2 * MaxRequests
    <3>1. CASE ~(a <= now /\ now < a + Window)
      BY <1>1, <1>3, <3>1 DEF RateInv, SpansOK
    <3>2. CASE a <= now /\ now < a + Window
      <4>1. Cardinality(Span(admitted', a, a + Window)) = Cardinality(Span(admitted, a, a + Window)) + 1
        BY <1>1, <1>3, <3>2
      <4>2. \A r \in admitted : r[1] \in Nat /\ r[1] <= now
        BY DEF RateInv, HistoryOK
      <4>3. Span(admitted, a, a + Window) \in SUBSET (Span(admitted, a, start) \union Span(admitted, start, now + 1))
        BY <1>1, <1>2, <4>2 DEF Span
      <4>4. IsFiniteSet(Span(admitted, a, start)) /\ IsFiniteSet(Span(admitted, start, now + 1))
        BY SpanIsFinite DEF RateInv, HistoryOK
      <4>5. /\ IsFiniteSet(Span(admitted, a, start) \union Span(admitted, start, now + 1))
            /\ Cardinality(Span(admitted, a, start) \union Span(admitted, start, now + 1))
                 <= Cardinality(Span(admitted, a, start)) + Cardinality(Span(admitted, start, now + 1))
        <5>1. Cardinality(Span(admitted, a, start) \intersect Span(admitted, start, now + 1)) \in Nat
          BY <4>4, FS_Intersection, FS_CardinalityType
        <5>2. /\ Cardinality(Span(admitted, a, start)) \in Nat
              /\ Cardinality(Span(admitted, start, now + 1)) \in Nat
          BY <4>4, FS_CardinalityType
        <5>3. /\ IsFiniteSet(Span(admitted, a, start) \union Span(admitted, start, now + 1))
              /\ Cardinality(Span(admitted, a, start) \union Span(admitted, start, now + 1))
                   = Cardinality(Span(admitted, a, start))
                       + Cardinality(Span(admitted, start, now + 1))
                       - Cardinality(Span(admitted, a, start) \intersect Span(admitted, start, now + 1))
          BY <4>4, FS_Union
        <5>4. QED
          BY <5>1, <5>2, <5>3
      <4>6. Cardinality(Span(admitted, a, a + Window))
              <= Cardinality(Span(admitted, a, start) \union Span(admitted, start, now + 1))
        BY <4>3, <4>5, CountsGrow
      <4>7. /\ Cardinality(Span(admitted, a, start)) \in Nat
            /\ Cardinality(Span(admitted, start, now + 1)) \in Nat
            /\ Cardinality(Span(admitted, a, a + Window)) \in Nat
            /\ Cardinality(Span(admitted, a, start) \union Span(admitted, start, now + 1)) \in Nat
        BY <4>4, <4>5, FS_CardinalityType, SpanIsFinite DEF RateInv, HistoryOK
      <4>8. Cardinality(Span(admitted, a, start)) < MaxRequests
        BY <1>1, <1>2, <3>2
      <4>9. Cardinality(Span(admitted, start, now + 1)) < MaxRequests
        BY <1>2, <4>7
      <4>10. QED
        BY <4>1, <4>5, <4>6, <4>7, <4>8, <4>9
    <3>3. QED
      BY <3>1, <3>2
  <2>2. QED
    BY <2>1 DEF SpansOK
<1>9. RefusalsOK'
  <2>1. \A r \in refused : r - Window + 1 \in Int /\ r + 1 \in Int
    BY <1>1
  <2>2. QED
    BY <1>1, <1>4, <2>1 DEF RateInv, RefusalsOK
<1>10. QED
  BY <1>5, <1>6, <1>7, <1>8, <1>9 DEF RateInv

\* A request that is refused is of a window that is full, and began less than
\* its length before.
LEMMA RateInv_refuse ==
  ASSUME RateInv, Request(Watched), Full(Watched)
  PROVE  RateInv'
<1> USE RateAssumption
<1>1. now' = now /\ admitted' = admitted /\ refused' = refused \union {now} /\ now \in Nat
  BY DEF Request, RateInv, HistoryOK
<1>2. Watched \in Live /\ Tracked /\ hits[Watched].count >= MaxRequests /\ now - Start < Window
  BY DEF Full, Entry, Live, Tracked, Start
<1>3. Tracked' /\ hits'[Watched] = hits[Watched] /\ Start' = Start
  BY <1>2 DEF Request, Tracked, Start
<1>4. Cardinality(Span(admitted, now - Window + 1, now + 1)) >= MaxRequests
  <2>1. /\ Start \in Nat /\ IsFiniteSet(admitted)
        /\ Cardinality(Span(admitted, Start, now + 1)) = hits[Watched].count
    BY <1>2 DEF RateInv, WindowOK, HistoryOK
  <2>2. \A r \in admitted : r[1] \in Nat
    BY DEF RateInv, HistoryOK
  <2>3. Span(admitted, Start, now + 1) \in SUBSET Span(admitted, now - Window + 1, now + 1)
    BY <1>1, <1>2, <2>1, <2>2 DEF Span
  <2>4. IsFiniteSet(Span(admitted, now - Window + 1, now + 1))
        /\ Cardinality(Span(admitted, now - Window + 1, now + 1)) \in Nat
        /\ Cardinality(Span(admitted, Start, now + 1)) \in Nat
    BY <2>1, SpanIsFinite
  <2>5. Cardinality(Span(admitted, Start, now + 1))
          <= Cardinality(Span(admitted, now - Window + 1, now + 1))
    BY <2>3, <2>4, CountsGrow
  <2>6. QED
    BY <1>2, <2>1, <2>4, <2>5
<1>5. HistoryOK' /\ SpansOK' /\ RefusalsOK'
  BY <1>1, <1>4 DEF RateInv, HistoryOK, SpansOK, RefusalsOK
<1>6. WindowOK' /\ ReachOK'
  BY <1>1, <1>2, <1>3 DEF RateInv, WindowOK, ReachOK, Boundary
<1>7. QED
  BY <1>5, <1>6 DEF RateInv

\* A request of another address may forget the window, if it is over.
LEMMA RateInv_other ==
  ASSUME RateInv, NEW ip \in Addresses \ {Watched}, Request(ip)
  PROVE  RateInv'
<1>1. UNCHANGED <<now, admitted, refused>>
  BY DEF Request
<1>2. HistoryOK' /\ SpansOK' /\ RefusalsOK'
  BY <1>1 DEF RateInv, HistoryOK, SpansOK, RefusalsOK
<1>3. CASE Watched \in Live
  <2>1. Tracked /\ Tracked' /\ hits'[Watched] = hits[Watched] /\ Start' = Start
    BY <1>3 DEF Request, Live, Tracked, Start
  <2>2. WindowOK' /\ ReachOK'
    BY <1>1, <2>1 DEF RateInv, WindowOK, ReachOK, Boundary
  <2>3. QED
    BY <1>2, <2>2 DEF RateInv
<1>4. CASE Watched \notin Live
  <2>1. ~Tracked'
    BY <1>4 DEF Request, Tracked
  <2>2. WindowOK' /\ ReachOK'
    BY <1>1, <1>4, <2>1, WindowOver DEF WindowOK, ReachOK, Boundary
  <2>3. QED
    BY <1>2, <2>2 DEF RateInv
<1>5. QED
  BY <1>3, <1>4

LEMMA RateInv_step == RateInv /\ [RateNext]_rateVars => RateInv'
<1> SUFFICES ASSUME RateInv, [RateNext]_rateVars PROVE RateInv'
  OBVIOUS
<1>1. CASE ClockTicks
  BY <1>1, RateInv_tick
<1>2. ASSUME NEW ip \in Addresses, Request(ip) PROVE RateInv'
  BY <1>2, RateInv_admit, RateInv_refuse, RateInv_other
<1>3. CASE UNCHANGED rateVars
  BY <1>3 DEF rateVars, RateInv, HistoryOK, WindowOK, ReachOK, SpansOK, RefusalsOK, Boundary,
              Tracked, Start
<1>4. QED
  BY <1>1, <1>2, <1>3 DEF RateNext

\* For any limit and any window, the requests of an address that pass in the
\* length of a window, wherever it begins, are fewer than twice the limit
\* (_allow restarts its count with each window), and none is refused before
\* the limit passed.
THEOREM RatesAreBounded == RateSpec => []RateIsBounded
<1>1. RateInv => RateIsBounded
  <2> SUFFICES ASSUME RateInv PROVE RateIsBounded
    OBVIOUS
  <2>1. \A a \in 0..now : a \in Int
    BY DEF RateInv, HistoryOK
  <2>2. \A a, b : Within(a, b) = Span(admitted, a, b)
    BY DEF Within, Span
  <2>3. QED
    BY <2>1, <2>2 DEF RateInv, SpansOK, RefusalsOK, RateIsBounded
<1>2. QED
  BY <1>1, RateInv_init, RateInv_step, PTL DEF RateSpec

-----------------------------------------------------------------------------
(* An import.                                                              *)

Searching == {"listing", "transcribing", "fetching", "downloading", "texting"}
Fetching  == {"fetching", "downloading", "texting"}

\* Whether the import can use what the source serves at a place.
Usable(j) == IF order.source = "escriptorium" THEN served[j].tells
                                              ELSE served[j].image # "none"

FoundItem == [of : Items, image : {"none", "home", "away", "no row", "big", "bad"},
              tells : BOOLEAN, text : {"none", "some", "no column"}]

Document == [id : Items, of : Items, text : BOOLEAN]

\* The variables are of their types, and the entries of a layout have a text.
ImportTypes ==
  /\ order \in [source : Sources \union {"none"}, limit : Nat]
  /\ served \in Seq(Item) /\ Len(served) <= MaxItems
  /\ stage # "idle" => order.source \in Sources
  /\ order.source = "curated" =>
       \A i \in DOMAIN served : served[i].image = "bad" \/ served[i].text = "some"
  /\ stage \in Outcomes \union Searching \union {"idle", "reading"}
  /\ next \in Nat \ {0}
  /\ images \in [Items -> Nat] /\ texts \in [Items -> Nat]
  /\ documents \in Seq(Document)
  /\ stage = "idle" => found = <<>> /\ documents = <<>> /\ next = 1

\* A request is of the stage of the import, and a token goes with those sent
\* home only.
RequestsFit ==
  /\ request.for \in {"none", "list", "transcription", "image", "ocr"}
  /\ request.for = "list" => stage = "listing"
  /\ request.for = "transcription" => stage = "transcribing" /\ next <= Len(found)
  /\ request.for = "image" => stage = "downloading"
  /\ request.for = "ocr" => stage = "texting" /\ order.source = "gallica"
  /\ request.for # "none" /\ request.auth => request.origin = "home"

\* Items located: those of their places, in order, with all those that can be
\* used up to each.
Located(f) ==
  /\ f \in Seq(FoundItem)
  /\ \A k \in DOMAIN f : f[k].of \in 1..Len(served) /\ f[k] = Numbered(f[k].of)
  /\ \A j, k \in DOMAIN f : j < k => f[j].of < f[k].of
  /\ \A k \in DOMAIN f : \A j \in 1..f[k].of : Usable(j) => \E i \in 1..k : f[i].of = j

\* What is located is what can be used up to a place.
ReadUpTo(f, n) ==
  /\ \A k \in DOMAIN f : f[k].of <= n
  /\ \A j \in 1..Len(served) : j <= n /\ Usable(j) => \E k \in DOMAIN f : f[k].of = j

\* The pages read before this one gave all they have.
PagesRead == ReadUpTo(found, (next - 1) * PerPage)

\* What is located when the images are fetched.
WithinOrder ==
  /\ order.limit # 0 => Len(found) <= order.limit
  /\ order.source # "escriptorium" =>
       /\ Len(found) <= MaxItems
       /\ \A k \in DOMAIN found : found[k].image # "none"

SearchFits ==
  /\ stage \in Searching =>
       /\ order.source \in {"iiif", "gallica", "escriptorium"}
       /\ Located(found)
  /\ stage = "listing" =>
       IF order.source = "escriptorium" THEN PagesRead ELSE next = 1
  /\ stage = "transcribing" => order.source = "escriptorium"
  /\ stage \in {"listing", "transcribing"} => documents = <<>>
  /\ stage \in Fetching => WithinOrder /\ next <= Len(found) + 1
  /\ stage \in {"downloading", "texting"} =>
       next <= Len(found) /\ found[next].image # "none"

\* A .part file is that of the document that is downloaded.
PartialFits == partial # 0 => stage = "downloading" /\ partial = DocId(found[next])

\* The documents are those of the items that were passed and have an image.
DocumentsFit ==
  /\ \A i \in DOMAIN documents : \E k \in DOMAIN found :
       k < next /\ documents[i].of = found[k].of
  /\ \A i, j \in DOMAIN documents : i < j => documents[i].of < documents[j].of
  /\ \A k \in DOMAIN found : k < next /\ found[k].image # "none" =>
       \E i \in DOMAIN documents : documents[i].of = found[k].of
  /\ Len(documents) < next

\* The documents are those of the rows that were read, at their ranks.
RowsFit ==
  /\ \A i \in DOMAIN documents :
       documents[i].id = i /\ documents[i].of \in DOMAIN served /\ documents[i].of < next
  /\ \A i, j \in DOMAIN documents : i < j => documents[i].of < documents[j].of
  /\ \A j \in DOMAIN served : j < next =>
       \/ \E i \in DOMAIN documents : documents[i].of = j
       \/ served[j].image \in {"no row", "big"}
  /\ order.limit # 0 => Len(documents) <= order.limit
  /\ Len(documents) < next

\* The documents are the entries of the layout, or are still to be read.
EntriesFit ==
  \A i \in DOMAIN documents : documents[i].of = i /\ i <= Len(served)

\* The file of the text of a document, if no other has its name.
TextFits(d) ==
  /\ texts[d.id] # 0 <=> d.text
  /\ d.text /\ TellsItsText(d.of) => texts[d.id] = d.of /\ served[d.of].text = "some"

TextsFit ==
  /\ \A d \in Items : texts[d] # 0 => \E i \in DOMAIN documents : documents[i].id = d
  /\ UniqueIds => \A i \in DOMAIN documents : TextFits(documents[i])

\* The name of the document whose image is there and whose text is not yet.
NewName == stage = "texting" => \A i \in DOMAIN documents : documents[i].id # DocId(found[next])

ImagesFit ==
  /\ stage = "texting" => images[DocId(found[next])] = found[next].of
  /\ UniqueIds /\ NewName => \A i \in DOMAIN documents : images[documents[i].id] = documents[i].of

\* What a corpus is made of.
Delivered ==
  /\ documents # <<>> /\ UniqueIds
  /\ order.limit # 0 /\ order.source # "curated" => Len(documents) <= order.limit
  /\ \A i, j \in DOMAIN documents : i < j => documents[i].of < documents[j].of
  /\ \A i \in DOMAIN documents :
       /\ order.source # "curated" => images[documents[i].id] = documents[i].of
       /\ TextFits(documents[i])
       /\ \A j \in 1..documents[i].of :
            \/ \E k \in DOMAIN documents : documents[k].of = j
            \/ served[j].image \in {"none", "no row", "big"}
            \/ order.source = "escriptorium" /\ ~served[j].tells

BuiltSoFar ==
  /\ stage \in Fetching => DocumentsFit /\ ImagesFit
  /\ stage = "reading" /\ order.source = "huggingface" => RowsFit /\ ImagesFit
  /\ stage = "reading" /\ order.source = "curated" => EntriesFit
  /\ stage = "reading" => order.source \in {"huggingface", "curated"}
  /\ stage = "corpus" => Delivered

ImportInv == ImportTypes /\ RequestsFit /\ SearchFits /\ PartialFits /\ TextsFit /\ BuiltSoFar

\* What the inductive invariant says of a corpus.
LEMMA ImportInv_faithful == ImportInv => ImportIsFaithful
<1>. SUFFICES ASSUME ImportInv PROVE ImportIsFaithful
  OBVIOUS
<1>1. TokenStaysHome
  BY DEF ImportInv, RequestsFit, TokenStaysHome, HopHeaders
<1>2. stage = "corpus" => Delivered
  BY DEF ImportInv, BuiltSoFar
<1>. QED  BY <1>1, <1>2 DEF ImportIsFaithful, Delivered, TextFits

LEMMA ImportInv_init == ImportInit => ImportInv
<1>. SUFFICES ASSUME ImportInit PROVE ImportInv
  OBVIOUS
<1>1. ImportTypes
  BY ImportAssumption DEF ImportInit, ImportTypes, NoOrder, Items
<1>2. RequestsFit
  BY DEF ImportInit, RequestsFit, NoRequest
<1>3. SearchFits
  BY DEF ImportInit, SearchFits, Searching, Fetching
<1>4. TextsFit /\ PartialFits
  BY DEF ImportInit, TextsFit, PartialFits
<1>5. BuiltSoFar
  BY DEF ImportInit, BuiltSoFar, Fetching
<1>. QED  BY <1>1, <1>2, <1>3, <1>4, <1>5 DEF ImportInv

-----------------------------------------------------------------------------
(* What is located.                                                        *)

\* A numbered item is an item found.
LEMMA NumberedItem ==
  ASSUME ImportTypes, NEW i \in 1..Len(served)
  PROVE  Numbered(i) \in FoundItem /\ Numbered(i).of = i
<1>1. served[i] \in Item /\ i \in Items
  BY ImportAssumption DEF ImportTypes, Items
<1>2. /\ served[i].image \in {"none", "home", "away", "no row", "big", "bad"}
      /\ served[i].tells \in BOOLEAN /\ served[i].text \in {"none", "some", "no column"}
  BY <1>1 DEF Item
<1>. QED  BY <1>1, <1>2, Zenon DEF Numbered, FoundItem

\* The items of some places, in order.
LEMMA InOrderLists ==
  ASSUME ImportTypes, NEW keep \in SUBSET (1..Len(served)), NEW s \in InOrder(keep)
  PROVE  /\ s \in Seq(FoundItem) /\ Len(s) <= Len(served)
         /\ \A k \in DOMAIN s : s[k].of \in keep /\ s[k] = Numbered(s[k].of)
         /\ \A j, k \in DOMAIN s : j < k => s[j].of < s[k].of
         /\ \A i \in keep : \E k \in DOMAIN s : s[k].of = i
<1>1. Len(served) \in Nat
  BY DEF ImportTypes
<1>2. /\ IsFiniteSet(1..Len(served))
      /\ Cardinality(1..Len(served)) = Len(served)
  <2>1. 1 \in Int /\ Len(served) \in Int
    BY <1>1
  <2>2. /\ IsFiniteSet(1..Len(served))
        /\ Cardinality(1..Len(served)) = IF 1 > Len(served) THEN 0 ELSE Len(served) - 1 + 1
    BY <2>1, FS_Interval
  <2>3. Cardinality(1..Len(served)) = Len(served)
    BY <1>1, <2>2
  <2>. QED  BY <2>2, <2>3
<1>3. IsFiniteSet(keep) /\ Cardinality(keep) <= Len(served)
  BY <1>2, FS_Subset
<1>4. Cardinality(keep) \in Nat
  BY <1>3, FS_CardinalityType
<1>5. PICK t \in [1..Cardinality(keep) -> keep] :
        /\ \A i \in keep : \E k \in DOMAIN t : t[k] = i
        /\ \A j, k \in DOMAIN t : j < k => t[j] < t[k]
        /\ s = [k \in DOMAIN t |-> Numbered(t[k])]
  BY DEF InOrder
<1>6. DOMAIN t = 1..Cardinality(keep) /\ DOMAIN s = 1..Cardinality(keep)
  BY <1>5
<1>7. \A k \in DOMAIN s : s[k] = Numbered(t[k]) /\ t[k] \in keep
  BY <1>5
<1>8. \A k \in DOMAIN s : s[k] \in FoundItem /\ s[k].of = t[k]
  BY <1>7, NumberedItem
<1>9. s \in Seq(FoundItem) /\ Len(s) = Cardinality(keep)
  BY <1>4, <1>5, <1>6, <1>8
<1>10. \A k \in DOMAIN s : s[k].of \in keep /\ s[k] = Numbered(s[k].of)
  BY <1>7, <1>8
<1>11. \A j, k \in DOMAIN s : j < k => s[j].of < s[k].of
  BY <1>5, <1>6, <1>8
<1>12. \A i \in keep : \E k \in DOMAIN s : s[k].of = i
  BY <1>5, <1>6, <1>8
<1>. QED  BY <1>3, <1>9, <1>10, <1>11, <1>12

\* What is cut off leaves what is before as it was.
LEMMA LimitedLocated ==
  ASSUME ImportTypes, NEW f, Located(f)
  PROVE  /\ Located(Limited(f))
         /\ Len(Limited(f)) <= Len(f)
         /\ order.limit # 0 => Len(Limited(f)) <= order.limit
         /\ \A k \in DOMAIN Limited(f) : k \in DOMAIN f /\ Limited(f)[k] = f[k]
<1>1. f \in Seq(FoundItem) /\ order.limit \in Nat /\ Len(f) \in Nat
  BY DEF Located, ImportTypes
<1>2. CASE order.limit \in 1..Len(f)
  <2>1. Limited(f) = SubSeq(f, 1, order.limit)
    BY <1>2 DEF Limited
  <2>2. /\ Limited(f) \in Seq(FoundItem) /\ Len(Limited(f)) = order.limit
        /\ \A k \in 1..order.limit : Limited(f)[k] = f[k]
    BY <2>1, <1>1, <1>2
  <2>. DEFINE g == Limited(f)
  <2>3. DOMAIN g = 1..order.limit /\ DOMAIN f = 1..Len(f)
    BY <1>1, <2>2
  <2>4. \A k \in DOMAIN g : k \in DOMAIN f /\ g[k] = f[k]
    BY <1>1, <1>2, <2>2, <2>3
  <2>5. g \in Seq(FoundItem) /\ Len(g) = order.limit
    BY <2>2
  <2>. HIDE DEF g
  <2>6. \A k \in DOMAIN g : g[k].of \in 1..Len(served) /\ g[k] = Numbered(g[k].of)
    BY <2>4 DEF Located
  <2>7. \A j, k \in DOMAIN g : j < k => g[j].of < g[k].of
    BY <2>4 DEF Located
  <2>8. ASSUME NEW k \in DOMAIN g, NEW j \in 1..g[k].of, Usable(j)
        PROVE  \E i \in 1..k : g[i].of = j
    <3>1. PICK i \in 1..k : f[i].of = j
      BY <2>4, <2>8 DEF Located
    <3>2. i \in DOMAIN g
      BY <2>3, <1>1
    <3>. QED  BY <3>1, <3>2, <2>4
  <2>9. Located(g)
    BY <2>5, <2>6, <2>7, <2>8 DEF Located
  <2>. QED  BY <2>9, <2>4, <2>5, <1>1, <1>2 DEF g
<1>3. CASE order.limit \notin 1..Len(f)
  <2>1. Limited(f) = f
    BY <1>3 DEF Limited
  <2>. QED  BY <2>1, <1>1, <1>3
<1>. QED  BY <1>2, <1>3

\* The places kept are those of a stretch that can be used.
KeptOf(keep, from, to) ==
  /\ keep \in SUBSET ((from + 1)..to)
  /\ \A j \in (from + 1)..to : Usable(j) => j \in keep

\* The places of a stretch are located after those located before it.
LEMMA LocatedFurther ==
  ASSUME ImportTypes, NEW f, Located(f), NEW from \in Nat, NEW to \in Nat,
         to <= Len(served), ReadUpTo(f, from),
         NEW keep, KeptOf(keep, from, to), NEW s \in InOrder(keep)
  PROVE  Located(f \o s) /\ (from <= to => ReadUpTo(f \o s, to))
<1>. DEFINE g == f \o s
<1>1. Len(served) \in Nat
  BY DEF ImportTypes
<1>2. keep \in SUBSET (1..Len(served)) /\ keep \in SUBSET ((from + 1)..to)
  BY <1>1 DEF KeptOf
<1>3. /\ s \in Seq(FoundItem) /\ Len(s) <= Len(served)
      /\ \A k \in DOMAIN s : s[k].of \in keep /\ s[k] = Numbered(s[k].of)
      /\ \A j, k \in DOMAIN s : j < k => s[j].of < s[k].of
      /\ \A i \in keep : \E k \in DOMAIN s : s[k].of = i
  BY <1>2, InOrderLists
<1>4. f \in Seq(FoundItem) /\ Len(f) \in Nat /\ DOMAIN f = 1..Len(f)
  BY DEF Located
<1>5. Len(s) \in Nat /\ DOMAIN s = 1..Len(s)
  BY <1>3
<1>6. /\ g \in Seq(FoundItem) /\ Len(g) = Len(f) + Len(s) /\ DOMAIN g = 1..(Len(f) + Len(s))
      /\ \A k \in 1..(Len(f) + Len(s)) : g[k] = IF k <= Len(f) THEN f[k] ELSE s[k - Len(f)]
  BY <1>3, <1>4, <1>5
<1>. HIDE DEF g
<1>7. \A k \in DOMAIN f : k \in DOMAIN g /\ g[k] = f[k]
  BY <1>4, <1>5, <1>6
<1>8. \A k \in DOMAIN s : k + Len(f) \in DOMAIN g /\ g[k + Len(f)] = s[k]
  BY <1>4, <1>5, <1>6
<1>9. \A k \in DOMAIN g : k \in DOMAIN f \/ (k > Len(f) /\ k - Len(f) \in DOMAIN s /\ g[k] = s[k - Len(f)])
  BY <1>4, <1>5, <1>6
<1>10. \A k \in DOMAIN g : k \in DOMAIN f \/ (k > Len(f) /\ g[k].of \in keep)
  BY <1>9, <1>3
<1>11. \A k \in DOMAIN g : g[k].of \in 1..Len(served) /\ g[k] = Numbered(g[k].of)
  <2>1. \A k \in DOMAIN f : f[k].of \in 1..Len(served) /\ f[k] = Numbered(f[k].of)
    BY DEF Located
  <2>2. \A k \in DOMAIN s : s[k].of \in 1..Len(served) /\ s[k] = Numbered(s[k].of)
    BY <1>2, <1>3
  <2>3. \A k \in DOMAIN g : \/ k \in DOMAIN f /\ g[k] = f[k]
                           \/ \E j \in DOMAIN s : g[k] = s[j]
    BY <1>7, <1>9
  <2>. QED  BY <2>1, <2>2, <2>3, Zenon
<1>12. ASSUME NEW j \in DOMAIN g, NEW k \in DOMAIN g, j < k
       PROVE  g[j].of < g[k].of
  <2>1. CASE k \in DOMAIN f
    <3>1. j \in DOMAIN f
      BY <1>12, <1>4, <1>6, <2>1
    <3>. QED  BY <3>1, <2>1, <1>7, <1>12 DEF Located
  <2>2. CASE k \notin DOMAIN f /\ j \in DOMAIN f
    <3>1. g[j].of <= from /\ g[j].of \in 1..Len(served)
      BY <2>2, <1>7, <1>11 DEF ReadUpTo
    <3>2. g[k].of \in (from + 1)..to
      BY <2>2, <1>2, <1>10
    <3>. QED  BY <3>1, <3>2
  <2>3. CASE k \notin DOMAIN f /\ j \notin DOMAIN f
    <3>1. /\ k - Len(f) \in DOMAIN s /\ g[k] = s[k - Len(f)]
          /\ j - Len(f) \in DOMAIN s /\ g[j] = s[j - Len(f)]
      BY <2>3, <1>9
    <3>2. j - Len(f) < k - Len(f)
      BY <1>12, <1>4, <1>6
    <3>. QED  BY <3>1, <3>2, <1>3
  <2>. QED  BY <2>1, <2>2, <2>3
<1>13. \A j \in 1..Len(served) : j <= to /\ Usable(j) => \E k \in DOMAIN g : g[k].of = j
  <2>. SUFFICES ASSUME NEW j \in 1..Len(served), j <= to, Usable(j)
                PROVE  \E k \in DOMAIN g : g[k].of = j
    OBVIOUS
  <2>1. CASE j <= from
    <3>1. PICK k \in DOMAIN f : f[k].of = j
      BY <2>1 DEF ReadUpTo
    <3>. QED  BY <3>1, <1>7
  <2>2. CASE j > from
    <3>1. j \in (from + 1)..to
      BY <2>2
    <3>2. j \in keep
      BY <3>1 DEF KeptOf
    <3>3. PICK k \in DOMAIN s : s[k].of = j
      BY <3>2, <1>3
    <3>. QED  BY <3>3, <1>8
  <2>. QED  BY <2>1, <2>2
<1>14. ASSUME NEW k \in DOMAIN g, NEW j \in 1..g[k].of, Usable(j)
       PROVE  \E i \in 1..k : g[i].of = j
  <2>1. CASE k \in DOMAIN f
    <3>1. g[k] = f[k]
      BY <2>1, <1>7
    <3>2. PICK i \in 1..k : f[i].of = j
      BY <2>1, <3>1, <1>14 DEF Located
    <3>3. i \in DOMAIN f
      BY <1>4, <2>1
    <3>. QED  BY <3>2, <3>3, <1>7
  <2>2. CASE k \notin DOMAIN f
    <3>1. g[k].of \in (from + 1)..to
      BY <2>2, <1>2, <1>10
    <3>2. j \in 1..Len(served) /\ j <= to
      BY <3>1, <1>1
    <3>3. PICK i \in DOMAIN g : g[i].of = j
      BY <3>2, <1>13, <1>14
    <3>4. i <= k
      <4>1. CASE k < i
        <5>1. g[k].of < g[i].of
          BY <4>1, <1>12
        <5>. QED  BY <5>1, <3>1, <3>3
      <4>. QED  BY <4>1, <1>6
    <3>. QED  BY <3>3, <3>4, <1>6
  <2>. QED  BY <2>1, <2>2
<1>15. Located(g)
  BY <1>6, <1>11, <1>12, <1>14 DEF Located
<1>16. ASSUME from <= to PROVE ReadUpTo(g, to)
  <2>1. ASSUME NEW k \in DOMAIN g PROVE g[k].of <= to
    <3>1. CASE k \in DOMAIN f
      <4>1. g[k].of <= from /\ g[k].of \in 1..Len(served)
        BY <3>1, <1>7, <1>11 DEF ReadUpTo
      <4>. QED  BY <4>1, <1>16
    <3>2. CASE k \notin DOMAIN f
      <4>1. g[k].of \in (from + 1)..to
        BY <3>2, <1>2, <1>10
      <4>. QED  BY <4>1
    <3>. QED  BY <3>1, <3>2
  <2>. QED  BY <2>1, <1>13 DEF ReadUpTo
<1>. QED  BY <1>15, <1>16 DEF g


-----------------------------------------------------------------------------
(* The steps of an import.                                                 *)

\* What the sources serve are items.
LEMMA ServedItems == \A source \in Sources : ServedBy(source) \subseteq Item
<1>1. NoImage \in Item
  BY DEF NoImage, Item
<1>2. Canvases \subseteq Item
  BY <1>1 DEF Canvases, NoImage, Item
<1>3. Views \subseteq Item
  BY DEF Views, NoImage, Item
<1>4. Parts \subseteq Item
  BY <1>1 DEF Parts, Item
<1>5. Rows \subseteq Item
  BY <1>1 DEF Rows, NoImage, Item
<1>6. Entries \subseteq Item
  BY DEF Entries, NoImage, Item
<1>. QED  BY <1>2, <1>3, <1>4, <1>5, <1>6 DEF ServedBy, Sources

\* The name of the document of an item located.
LEMMA DocIdType ==
  ASSUME ImportTypes, SearchFits, stage \in {"downloading", "texting"}
  PROVE  /\ next \in DOMAIN found /\ found[next] \in FoundItem
         /\ found[next].of \in Items /\ found[next].of \in 1..Len(served)
         /\ found[next] = Numbered(found[next].of)
         /\ DocId(found[next]) \in Items
<1>1. Located(found) /\ next \in Nat \ {0} /\ Len(served) \in Nat /\ Len(served) <= MaxItems
  BY DEF SearchFits, Searching, ImportTypes
<1>2. next \in DOMAIN found
  BY <1>1 DEF SearchFits, Located
<1>3. found[next] \in FoundItem /\ found[next].of \in 1..Len(served)
  BY <1>1, <1>2 DEF Located
<1>4. found[next].of \in Items
  BY <1>1, <1>3, ImportAssumption DEF Items
<1>5. order.source \in {"iiif", "gallica", "escriptorium"}
  BY DEF SearchFits, Searching
<1>6. order.source # "escriptorium" => next \in Items
  <2>1. order.source # "escriptorium" => Len(found) <= MaxItems
    BY DEF SearchFits, Fetching, WithinOrder
  <2>2. Len(found) \in Nat /\ next <= Len(found)
    BY <1>1, <1>2 DEF Located
  <2>. QED  BY <1>1, <2>1, <2>2, ImportAssumption DEF Items
<1>7. DocId(found[next]) \in {found[next].of, next}
  BY DEF DocId, VueOf
<1>8. order.source = "escriptorium" => DocId(found[next]) = found[next].of
  BY DEF DocId
<1>9. found[next] = Numbered(found[next].of)
  BY <1>1, <1>2 DEF Located
<1>. QED  BY <1>2, <1>3, <1>4, <1>6, <1>7, <1>8, <1>9

\* A document that is built is one more, of its type.
LEMMA BuildTypes ==
  ASSUME ImportTypes, NEW item, item.of \in Items, NEW d \in Items, NEW text \in Nat,
         Build(item, d, text)
  PROVE  /\ texts' \in [Items -> Nat] /\ next' \in Nat \ {0} /\ next' = next + 1
         /\ documents' \in Seq(Document)
         /\ Len(documents') = Len(documents) + 1
         /\ \A i \in DOMAIN documents : i \in DOMAIN documents' /\ documents'[i] = documents[i]
         /\ documents'[Len(documents')] = [id |-> d, of |-> item.of, text |-> text # 0]
         /\ \A i \in DOMAIN documents' : i \in DOMAIN documents \/ i = Len(documents')
<1>. DEFINE new == [id |-> d, of |-> item.of, text |-> text # 0]
<1>1. texts \in [Items -> Nat] /\ documents \in Seq(Document) /\ next \in Nat \ {0}
  BY DEF ImportTypes
<1>2. documents' = Append(documents, new) /\ next' = next + 1
  BY DEF Build
<1>3. new \in Document
  BY DEF Document
<1>4. texts' \in [Items -> Nat]
  BY <1>1 DEF Build
<1>. HIDE DEF new
<1>5. /\ documents' \in Seq(Document) /\ Len(documents') = Len(documents) + 1
      /\ DOMAIN documents = 1..Len(documents) /\ DOMAIN documents' = 1..(Len(documents) + 1)
      /\ \A i \in 1..Len(documents) : documents'[i] = documents[i]
      /\ documents'[Len(documents) + 1] = new /\ Len(documents) \in Nat
  BY <1>1, <1>2, <1>3
<1>6. next' \in Nat \ {0}
  BY <1>1, <1>2
<1>7. \A i \in DOMAIN documents' : i \in DOMAIN documents \/ i = Len(documents')
  BY <1>5
<1>8. \A i \in DOMAIN documents : i \in DOMAIN documents' /\ documents'[i] = documents[i]
  BY <1>5
<1>9. documents'[Len(documents')] = new
  BY <1>5
<1>. QED  BY <1>2, <1>4, <1>5, <1>6, <1>7, <1>8, <1>9 DEF new

\* The text that is read is nothing or that of a place.
LEMMA OcrTextType ==
  ASSUME ImportTypes, SearchFits, stage = "texting"
  PROVE  OcrText \in Nat
  BY DocIdType DEF OcrText, VueOf, ImportTypes, Items

LEMMA ImportTypes_step == ImportInv /\ [ImportNext]_importVars => ImportTypes'
<1>. SUFFICES ASSUME ImportInv, [ImportNext]_importVars PROVE ImportTypes'
  OBVIOUS
<1>1. ImportTypes /\ SearchFits /\ RequestsFit /\ BuiltSoFar
  BY DEF ImportInv
<1>2. CASE AskNext
  <2>1. PICK source \in Sources, limit \in 0..(MaxItems - 1), n \in 0..MaxItems :
          \E items \in [1..n -> ServedBy(source)] : Ask(source, limit, items)
    BY <1>2 DEF AskNext
  <2>2. PICK items \in [1..n -> ServedBy(source)] : Ask(source, limit, items)
    BY <2>1
  <2>3. /\ order' = [source |-> source, limit |-> limit] /\ served' = items
        /\ stage' \in {"reading", "listing"} /\ stage = "idle"
        /\ UNCHANGED <<found, next, images, texts, documents>>
    BY <2>2 DEF Ask
  <2>4. order' \in [source : Sources \union {"none"}, limit : Nat] /\ order'.source = source
    BY <2>3, ImportAssumption
  <2>5. n \in Nat /\ n <= MaxItems
    BY ImportAssumption
  <2>6. items \in [1..n -> Item]
    BY ServedItems
  <2>7. served' \in Seq(Item) /\ Len(served') = n /\ DOMAIN served' = 1..n
    BY <2>3, <2>5, <2>6
  <2>8. source = "curated" => \A i \in 1..n : items[i].image = "bad" \/ items[i].text = "some"
    <3>1. \A e \in Entries : e.image = "bad" \/ e.text = "some"
      BY DEF Entries, NoImage
    <3>2. source = "curated" => \A i \in 1..n : items[i] \in Entries
      BY DEF ServedBy
    <3>. QED  BY <3>1, <3>2
  <2>. QED
    BY <1>1, <2>3, <2>4, <2>5, <2>7, <2>8 DEF ImportTypes, Searching
<1>3. CASE \E host \in Hosts : Redirected(host)
  BY <1>1, <1>3 DEF Redirected, ImportTypes
<1>4. CASE \E host \in Hosts : PartsPage(host)
  <2>1. /\ stage' \in {"listing", "transcribing"} /\ stage = "listing"
        /\ next' \in {next + 1, 1}
        /\ UNCHANGED <<order, served, images, texts, documents>>
    BY <1>4 DEF PartsPage
  <2>. QED  BY <1>1, <2>1 DEF ImportTypes, Searching
<1>5. CASE Manifest
  <2>1. /\ stage' \in {"refused", "fetching"} /\ stage = "listing"
        /\ UNCHANGED <<order, served, next, images, texts, documents>>
    BY <1>5 DEF Manifest, End
  <2>. QED  BY <1>1, <2>1 DEF ImportTypes, Outcomes, Searching
<1>6. CASE AskTranscription \/ Transcription \/ PartsLocated
  <2>1. /\ stage' \in {"transcribing", "fetching"} /\ stage = "transcribing"
        /\ next' \in {next, next + 1, 1}
        /\ UNCHANGED <<order, served, images, texts, documents>>
    BY <1>6 DEF AskTranscription, Transcription, PartsLocated
  <2>. QED  BY <1>1, <2>1 DEF ImportTypes, Searching
<1>7. CASE AskImage
  BY <1>1, <1>7 DEF AskImage, ImportTypes, Searching
<1>8. CASE ImageStreams
  BY <1>1, <1>8 DEF ImageStreams, ImportTypes
<1>9. CASE ImageReplaced
  <2>1. stage = "downloading" /\ found[next].of \in Nat
    BY <1>1, <1>9, DocIdType DEF ImageReplaced, Items
  <2>2. images' \in [Items -> Nat]
    BY <2>1, <1>1, <1>9 DEF ImageReplaced, ImportTypes
  <2>. QED  BY <1>1, <2>2, <1>9 DEF ImageReplaced, ImportTypes, Searching
<1>10. ASSUME NEW text \in Nat, stage = "texting",
              Build(found[next], DocId(found[next]), text),
              stage' = "fetching" \/ stage' = "refused" \/ stage' = "error",
              UNCHANGED <<order, served, images>>
       PROVE  ImportTypes'
  <2>1. found[next].of \in Items /\ DocId(found[next]) \in Items
    BY <1>1, <1>10, DocIdType
  <2>2. /\ texts' \in [Items -> Nat] /\ next' \in Nat \ {0}
        /\ documents' \in Seq(Document)
    BY <2>1, <1>1, <1>10, BuildTypes
  <2>. QED  BY <1>1, <1>10, <2>2 DEF ImportTypes, Searching, Outcomes
<1>11. CASE TextWritten
  <2>1. OcrText \in Nat /\ found[next].of \in Nat
    BY <1>1, <1>11, OcrTextType, DocIdType DEF TextWritten, Items
  <2>2. \E text \in Nat : Build(found[next], DocId(found[next]), text)
    BY <2>1, <1>11 DEF TextWritten
  <2>. QED  BY <2>2, <1>10, <1>11 DEF TextWritten
<1>12. CASE \E kind \in {"address", "status", "transport"} : RequestFails(kind)
  <2>1. PICK kind \in {"address", "status", "transport"} : RequestFails(kind)
    BY <1>12
  <2>2. CASE request.for = "ocr" /\ kind # "address"
    <3>1. stage = "texting"
      BY <1>1, <2>2 DEF RequestsFit
    <3>. QED  BY <3>1, <2>1, <2>2, <1>10 DEF RequestFails
  <2>3. CASE request.for # "ocr" \/ kind = "address"
    <3>1. stage' \in Outcomes /\ UNCHANGED <<order, served, images, next, texts, documents>>
      BY <2>1, <2>3 DEF RequestFails, End, Outcomes
    <3>2. stage # "idle"
      BY <1>1, <2>1 DEF RequestsFit, RequestFails
    <3>. QED  BY <1>1, <3>1, <3>2 DEF ImportTypes, Outcomes
  <2>. QED  BY <2>2, <2>3
<1>13. CASE Row
  <2>. DEFINE d == Len(documents) + 1
  <2>1. /\ stage = "reading" /\ order.source = "huggingface" /\ next <= Len(served)
        /\ next \in 1..Len(served) /\ next \in Nat /\ UNCHANGED <<order, served>>
    <3>1. stage = "reading" /\ order.source = "huggingface" /\ next <= Len(served)
          /\ UNCHANGED <<order, served>>
      BY <1>13 DEF Row
    <3>2. next \in Nat \ {0} /\ Len(served) \in Nat
      BY <1>1 DEF ImportTypes
    <3>. QED  BY <3>1, <3>2
  <2>2. CASE stage' \in {stage, "refused"} /\ next' \in {next, next + 1}
             /\ UNCHANGED <<images, texts, documents>>
    BY <2>1, <2>2, <1>1 DEF ImportTypes, Outcomes
  <2>3. CASE /\ images' = [images EXCEPT ![d] = Numbered(next).of]
             /\ Build(Numbered(next), d, IF Numbered(next).text = "some" THEN Numbered(next).of ELSE 0)
             /\ UNCHANGED stage
    <3>1. Numbered(next).of = next /\ next \in Items /\ next \in Nat
      BY <1>1, <2>1, NumberedItem, ImportAssumption DEF ImportTypes, Items
    <3>2. d \in Items
      <4>1. Len(documents) < next
        BY <1>1, <2>1 DEF BuiltSoFar, RowsFit
      <4>2. Len(documents) \in Nat
        BY <1>1 DEF ImportTypes
      <4>. QED  BY <4>1, <4>2, <3>1, ImportAssumption DEF Items
    <3>. HIDE DEF d
    <3>3. /\ texts' \in [Items -> Nat] /\ next' \in Nat \ {0} /\ documents' \in Seq(Document)
      BY <1>1, <2>3, <3>1, <3>2, BuildTypes
    <3>4. images' \in [Items -> Nat]
      BY <1>1, <2>3, <3>1 DEF ImportTypes
    <3>. QED  BY <1>1, <2>1, <2>3, <3>3, <3>4 DEF ImportTypes
  <2>. QED  BY <2>1, <2>2, <2>3, <1>13 DEF Row, End
<1>14. CASE Layout
  <2>1. UNCHANGED <<order, served, found, images>> /\ stage = "reading" /\ order.source = "curated"
    BY <1>14 DEF Layout
  <2>2. CASE stage' = "refused" /\ UNCHANGED <<texts, documents, next>>
    BY <1>1, <2>1, <2>2 DEF ImportTypes, Outcomes
  <2>3. CASE /\ documents' = [i \in DOMAIN served |-> [id |-> EntryId(i), of |-> i, text |-> TRUE]]
             /\ texts' = [d \in Items |->
                  IF \E i \in DOMAIN served : EntryId(i) = d
                    THEN CHOOSE i \in DOMAIN served : EntryId(i) = d ELSE 0]
             /\ next' = Len(served) + 1 /\ UNCHANGED stage
    <3>1. Len(served) \in Nat /\ DOMAIN served = 1..Len(served) /\ Len(served) <= MaxItems
      BY <1>1 DEF ImportTypes
    <3>2. \A i \in DOMAIN served : i \in Items /\ EntryId(i) \in Items
      BY <3>1, ImportAssumption DEF Items, EntryId
    <3>3. documents' \in Seq(Document)
      <4>1. \A i \in 1..Len(served) : documents'[i] \in Document
        BY <2>3, <3>1, <3>2 DEF Document
      <4>. QED  BY <4>1, <3>1, <2>3
    <3>4. texts' \in [Items -> Nat]
      <4>1. \A d \in Items : (IF \E i \in DOMAIN served : EntryId(i) = d
                              THEN CHOOSE i \in DOMAIN served : EntryId(i) = d ELSE 0) \in Nat
        BY <3>1
      <4>. QED  BY <4>1, <2>3
    <3>. QED  BY <1>1, <2>1, <2>3, <3>1, <3>3, <3>4 DEF ImportTypes
  <2>. QED  BY <2>2, <2>3, <1>14 DEF Layout, End
<1>15. CASE \E outcome \in Outcomes : LibraryFails(outcome)
  BY <1>1, <1>15 DEF LibraryFails, ImportTypes, End, Outcomes
<1>16. CASE Specify
  BY <1>1, <1>16 DEF Specify, ImportTypes, End, Outcomes
<1>17. CASE UNCHANGED importVars
  BY <1>1, <1>17 DEF importVars, ImportTypes
<1>. QED
  BY <1>2, <1>3, <1>4, <1>5, <1>6, <1>7, <1>8, <1>9, <1>11, <1>12, <1>13, <1>14, <1>15,
     <1>16, <1>17 DEF ImportNext

LEMMA RequestsFit_step == ImportInv /\ [ImportNext]_importVars => RequestsFit'
<1>. SUFFICES ASSUME ImportInv, [ImportNext]_importVars PROVE RequestsFit'
  OBVIOUS
<1>1. ImportTypes /\ SearchFits /\ RequestsFit /\ BuiltSoFar
  BY DEF ImportInv
<1>2. CASE AskNext
  <2>1. PICK source \in Sources, limit \in 0..(MaxItems - 1), n \in 0..MaxItems :
          \E items \in [1..n -> ServedBy(source)] : Ask(source, limit, items)
    BY <1>2 DEF AskNext
  <2>2. PICK items \in [1..n -> ServedBy(source)] : Ask(source, limit, items)
    BY <2>1
  <2>. QED  BY <1>1, <2>2 DEF Ask, Send, RequestsFit
<1>3. CASE \E host \in Hosts : Redirected(host)
  BY <1>1, <1>3 DEF Redirected, RequestsFit
<1>4. CASE \E host \in Hosts : PartsPage(host)
  BY <1>1, <1>4 DEF PartsPage, RequestsFit, Send, NoRequest
<1>5. CASE Manifest
  BY <1>1, <1>5 DEF Manifest, RequestsFit, NoRequest, End
<1>6. CASE AskTranscription \/ Transcription \/ PartsLocated
  <2>1. CASE AskTranscription
    BY <2>1 DEF AskTranscription, RequestsFit, Send
  <2>2. CASE Transcription
    BY <2>2 DEF Transcription, RequestsFit, NoRequest
  <2>3. CASE PartsLocated
    <3>1. /\ request' = request /\ order' = order /\ stage = "transcribing"
          /\ next > Len(found)
      BY <2>3 DEF PartsLocated
    <3>2. next \in Nat /\ Len(found) \in Nat
      BY <1>1, <3>1 DEF ImportTypes, SearchFits, Located, Searching
    <3>3. request.for # "transcription"
      BY <1>1, <3>1, <3>2 DEF RequestsFit
    <3>. QED  BY <1>1, <3>1, <3>3 DEF RequestsFit
  <2>. QED  BY <1>6, <2>1, <2>2, <2>3
<1>7. CASE AskImage
  <2>1. order' = order /\ stage = "fetching"
    BY <1>7 DEF AskImage
  <2>2. CASE HasImage(found[next])
    <3>1. /\ stage' = "downloading" /\ request'.for = "image"
          /\ request'.origin = found[next].image
          /\ request'.auth = (order.source = "escriptorium" /\ found[next].image = "home")
      BY <2>2, <1>7 DEF AskImage, Send
    <3>. QED  BY <3>1 DEF RequestsFit
  <2>3. CASE ~HasImage(found[next])
    <3>1. request' = request /\ stage' = stage
      BY <2>3, <1>7 DEF AskImage
    <3>. QED  BY <1>1, <2>1, <3>1 DEF RequestsFit
  <2>. QED  BY <2>2, <2>3
<1>8. CASE ImageStreams
  BY <1>1, <1>8 DEF ImageStreams, RequestsFit
<1>9. CASE ImageReplaced
  BY <1>1, <1>9 DEF ImageReplaced, RequestsFit, Send, NoRequest
<1>10. CASE TextWritten
  BY <1>1, <1>10 DEF TextWritten, RequestsFit, NoRequest
<1>11. CASE \E kind \in {"address", "status", "transport"} : RequestFails(kind)
  BY <1>1, <1>11 DEF RequestFails, End, RequestsFit, NoRequest
<1>12. CASE Row
  <2>1. UNCHANGED <<request, stage>> \/ request' = NoRequest
    BY <1>12 DEF Row, End
  <2>2. stage = "reading" /\ order' = order
    BY <1>12 DEF Row
  <2>. QED  BY <1>1, <2>1, <2>2 DEF RequestsFit, NoRequest
<1>13. CASE Layout
  BY <1>1, <1>13 DEF Layout, End, RequestsFit, NoRequest
<1>14. CASE \E outcome \in Outcomes : LibraryFails(outcome)
  BY <1>1, <1>14 DEF LibraryFails, RequestsFit, End, NoRequest
<1>15. CASE Specify
  BY <1>1, <1>15 DEF Specify, RequestsFit, End, NoRequest
<1>16. CASE UNCHANGED importVars
  BY <1>1, <1>16 DEF importVars, RequestsFit
<1>. QED
  BY <1>2, <1>3, <1>4, <1>5, <1>6, <1>7, <1>8, <1>9, <1>10, <1>11, <1>12, <1>13, <1>14, <1>15,
     <1>16 DEF ImportNext


\* What was located stays so.
LEMMA LocatedStays ==
  ASSUME NEW f, Located(f), found' = f, UNCHANGED <<order, served>>
  PROVE  Located(found)'
<1>1. \A i : Numbered(i)' = Numbered(i)
  BY DEF Numbered
<1>2. \A j : Usable(j)' <=> Usable(j)
  BY DEF Usable
<1>3. \A k \in DOMAIN f : f[k].of \in 1..Len(served) /\ f[k] = Numbered(f[k].of)'
  BY <1>1 DEF Located
<1>4. \A k \in DOMAIN f : \A j \in 1..f[k].of : Usable(j)' => \E i \in 1..k : f[i].of = j
  BY <1>2 DEF Located
<1>. QED  BY <1>3, <1>4 DEF Located

\* A manifest is located at once.
LEMMA ManifestLocates ==
  ASSUME ImportTypes, order.source # "escriptorium",
         NEW s \in InOrder({i \in DOMAIN served : HasImage(Numbered(i))})
  PROVE  /\ Located(s) /\ Len(s) <= Len(served)
         /\ \A k \in DOMAIN s : s[k].image # "none"
<1>. DEFINE keep == {i \in DOMAIN served : HasImage(Numbered(i))}
<1>1. Len(served) \in Nat /\ DOMAIN served = 1..Len(served)
  BY DEF ImportTypes
<1>2. /\ keep \in SUBSET (1..Len(served))
      /\ \A j \in 1..Len(served) : Usable(j) => j \in keep
      /\ \A i \in keep : Numbered(i).image # "none"
  BY <1>1 DEF HasImage, Usable, Numbered
<1>3. s \in InOrder(keep)
  OBVIOUS
<1>. HIDE DEF keep
<1>4. /\ s \in Seq(FoundItem) /\ Len(s) <= Len(served)
      /\ \A k \in DOMAIN s : s[k].of \in keep /\ s[k] = Numbered(s[k].of)
      /\ \A j, k \in DOMAIN s : j < k => s[j].of < s[k].of
      /\ \A i \in keep : \E k \in DOMAIN s : s[k].of = i
  BY <1>2, <1>3, InOrderLists
<1>5. ASSUME NEW k \in DOMAIN s, NEW j \in 1..s[k].of, Usable(j)
      PROVE  \E i \in 1..k : s[i].of = j
  <2>1. s[k].of \in 1..Len(served)
    BY <1>2, <1>4
  <2>2. j \in keep
    BY <2>1, <1>1, <1>2, <1>5
  <2>3. PICK i \in DOMAIN s : s[i].of = j
    BY <2>2, <1>4
  <2>4. ~ (k < i)
    BY <2>1, <2>3, <1>1, <1>4, <1>5
  <2>. QED  BY <2>3, <2>4, <1>4
<1>6. \A k \in DOMAIN s : s[k].of \in 1..Len(served) /\ s[k] = Numbered(s[k].of)
  BY <1>2, <1>4
<1>7. \A k \in DOMAIN s : s[k].image # "none"
  BY <1>2, <1>4
<1>. QED  BY <1>4, <1>5, <1>6, <1>7 DEF Located

\* A page of parts is located after the others.
LEMMA PartsLocate ==
  ASSUME ImportTypes, SearchFits, NEW nextHost \in Hosts, PartsPage(nextHost)
  PROVE  Located(found)' /\ (stage' = "listing" => PagesRead')
<1>. DEFINE from == (next - 1) * PerPage
            to   == next * PerPage
            last == IF to < Len(served) THEN to ELSE Len(served)
            keep == {i \in (from + 1)..last : HasKey(Numbered(i))}
<1>1. PICK s \in InOrder(keep) : found' = found \o s
  BY DEF PartsPage
<1>2. /\ order.source = "escriptorium" /\ UNCHANGED <<order, served>> /\ stage = "listing"
      /\ stage' = "listing" => last < Len(served) /\ next' = next + 1
  BY DEF PartsPage
<1>3. next \in Nat \ {0} /\ PerPage \in Nat \ {0} /\ Len(served) \in Nat
  BY ImportAssumption DEF ImportTypes
<1>4. from \in Nat /\ to \in Nat /\ to = from + PerPage
  <2>1. \A n, p \in Nat : n # 0 => (n - 1) * p \in Nat /\ n * p \in Nat /\ n * p = (n - 1) * p + p
    OBVIOUS
  <2>. QED  BY <2>1, <1>3
<1>5. (next + 1) - 1 = next
  BY <1>3
<1>6. Located(found) /\ PagesRead
  BY <1>2 DEF SearchFits, Searching
<1>7. ReadUpTo(found, from)
  BY <1>6 DEF PagesRead
<1>8. stage' = "listing" => (next' - 1) * PerPage = to
  BY <1>2, <1>5
<1>9. KeptOf(keep, from, last)
  <2>1. \A j \in (from + 1)..last : Usable(j) => j \in keep
    BY <1>2 DEF Usable, HasKey, Numbered
  <2>. QED  BY <2>1 DEF KeptOf
<1>10. last \in Nat
  BY <1>3, <1>4
<1>11. last <= Len(served)
  BY <1>3, <1>4
<1>12. stage' = "listing" => last = to /\ from <= to
  BY <1>2, <1>3, <1>4
<1>. HIDE DEF from, to, last, keep
<1>13. Located(found \o s) /\ (from <= last => ReadUpTo(found \o s, last))
  BY <1>1, <1>4, <1>6, <1>7, <1>9, <1>10, <1>11, LocatedFurther
<1>14. Located(found)'
  BY <1>13, <1>1, <1>2, LocatedStays
<1>15. ASSUME stage' = "listing" PROVE PagesRead'
  <2>1. ReadUpTo(found', to)
    BY <1>13, <1>12, <1>1, <1>15
  <2>2. ReadUpTo(found, (next - 1) * PerPage)' <=> ReadUpTo(found', (next' - 1) * PerPage)
    BY <1>2 DEF ReadUpTo, Usable
  <2>. QED  BY <2>1, <2>2, <1>8, <1>15 DEF PagesRead
<1>. QED  BY <1>14, <1>15

\* The images of what is located are fetched.
LEMMA SearchFits_locating ==
  ASSUME ImportTypes, SearchFits,
         NEW f, Located(f), found' = f, UNCHANGED <<order, served>>, stage' = "fetching", next' = 1,
         order.source \in {"iiif", "gallica", "escriptorium"},
         order.limit # 0 => Len(f) <= order.limit,
         order.source # "escriptorium" => /\ Len(f) <= MaxItems
                                          /\ \A k \in DOMAIN f : f[k].image # "none"
  PROVE  SearchFits'
<1>1. Located(found)'
  BY LocatedStays
<1>2. WithinOrder'
  BY DEF WithinOrder
<1>3. next' <= Len(found') + 1
  BY DEF Located
<1>. QED  BY <1>1, <1>2, <1>3 DEF SearchFits, Searching, Fetching

LEMMA SearchFits_step == ImportInv /\ [ImportNext]_importVars => SearchFits'
<1>. SUFFICES ASSUME ImportInv, [ImportNext]_importVars PROVE SearchFits'
  OBVIOUS
<1>1. ImportTypes /\ SearchFits /\ RequestsFit /\ BuiltSoFar
  BY DEF ImportInv
<1>2. CASE AskNext
  <2>1. PICK source \in Sources, limit \in 0..(MaxItems - 1), n \in 0..MaxItems :
          \E items \in [1..n -> ServedBy(source)] : Ask(source, limit, items)
    BY <1>2 DEF AskNext
  <2>2. PICK items \in [1..n -> ServedBy(source)] : Ask(source, limit, items)
    BY <2>1
  <2>3. /\ order'.source = source /\ stage = "idle"
        /\ stage' = IF source \in {"huggingface", "curated"} THEN "reading" ELSE "listing"
        /\ UNCHANGED <<found, next, documents>>
    BY <2>2 DEF Ask
  <2>4. found' = <<>> /\ documents' = <<>> /\ next' = 1
    BY <1>1, <2>3 DEF ImportTypes
  <2>5. Located(found)'
    BY <2>4 DEF Located
  <2>6. PagesRead'
    <3>1. (next' - 1) * PerPage = 0
      BY <2>4, ImportAssumption
    <3>2. \A j \in 1..Len(served)' : ~ (j <= (next' - 1) * PerPage)
      BY <3>1
    <3>. QED  BY <2>4, <3>2 DEF PagesRead, ReadUpTo
  <2>7. CASE stage' = "listing"
    <3>1. order'.source \in {"iiif", "gallica", "escriptorium"}
      BY <2>3, <2>7 DEF Sources
    <3>. QED  BY <2>4, <2>5, <2>6, <2>7, <3>1 DEF SearchFits, Searching, Fetching
  <2>8. CASE stage' = "reading"
    BY <2>8 DEF SearchFits, Searching, Fetching
  <2>. QED  BY <2>3, <2>7, <2>8
<1>3. CASE UNCHANGED <<order, served, found, stage, next, documents>>
  <2>1. Located(found) => Located(found)'
    BY <1>3, LocatedStays
  <2>2. PagesRead => PagesRead'
    BY <1>3 DEF PagesRead, ReadUpTo, Usable
  <2>3. WithinOrder => WithinOrder'
    BY <1>3 DEF WithinOrder
  <2>. QED  BY <2>1, <2>2, <2>3, <1>1, <1>3 DEF SearchFits, Searching, Fetching
<1>4. CASE \E host \in Hosts : PartsPage(host)
  <2>1. PICK host \in Hosts : PartsPage(host)
    BY <1>4
  <2>2. Located(found)' /\ (stage' = "listing" => PagesRead')
    BY <1>1, <2>1, PartsLocate
  <2>3. /\ order' = order /\ order.source = "escriptorium" /\ documents' = documents
        /\ stage' \in {"listing", "transcribing"} /\ stage = "listing"
    BY <2>1 DEF PartsPage
  <2>. QED  BY <1>1, <2>2, <2>3 DEF SearchFits, Searching, Fetching
<1>5. CASE Manifest
  <2>1. PICK s \in InOrder({i \in DOMAIN served : HasImage(Numbered(i))}) : found' = Limited(s)
    BY <1>5 DEF Manifest
  <2>2. /\ order.source \in {"iiif", "gallica"} /\ UNCHANGED <<order, served, next, documents>>
        /\ stage = "listing" /\ stage' \in {"refused", "fetching"}
    BY <1>5 DEF Manifest, End
  <2>3. /\ Located(s) /\ Len(s) <= Len(served)
        /\ \A k \in DOMAIN s : s[k].image # "none"
    BY <1>1, <2>2, ManifestLocates
  <2>. DEFINE f == Limited(s)
  <2>4. /\ Located(f) /\ Len(f) <= Len(s)
        /\ order.limit # 0 => Len(f) <= order.limit
        /\ \A k \in DOMAIN f : k \in DOMAIN s /\ f[k] = s[k]
    BY <1>1, <2>3, LimitedLocated
  <2>5. found' = f
    BY <2>1
  <2>. HIDE DEF f
  <2>6. Len(f) <= MaxItems /\ \A k \in DOMAIN f : f[k].image # "none"
    <3>1. Len(f) \in Nat /\ Len(s) \in Nat /\ Len(served) \in Nat /\ Len(served) <= MaxItems
      BY <1>1, <2>3, <2>4 DEF Located, ImportTypes
    <3>. QED  BY <3>1, <2>3, <2>4, ImportAssumption
  <2>7. next' = 1
    BY <1>1, <2>2 DEF SearchFits
  <2>8. CASE stage' = "fetching"
    BY <1>1, <2>2, <2>4, <2>5, <2>6, <2>7, <2>8, SearchFits_locating
  <2>9. CASE stage' = "refused"
    BY <2>9 DEF SearchFits, Searching, Fetching
  <2>. QED  BY <2>2, <2>8, <2>9
<1>6. CASE AskTranscription \/ Transcription
  <2>1. /\ stage = "transcribing" /\ stage' = stage
        /\ UNCHANGED <<order, served, found, documents>>
    BY <1>6 DEF AskTranscription, Transcription
  <2>2. Located(found)'
    BY <1>1, <2>1, LocatedStays DEF SearchFits, Searching
  <2>. QED  BY <1>1, <2>1, <2>2 DEF SearchFits, Searching, Fetching
<1>7. CASE PartsLocated
  <2>1. /\ stage = "transcribing" /\ stage' = "fetching" /\ next' = 1 /\ found' = Limited(found)
        /\ UNCHANGED <<order, served>>
    BY <1>7 DEF PartsLocated
  <2>2. order.source = "escriptorium" /\ Located(found)
    BY <1>1, <2>1 DEF SearchFits, Searching
  <2>3. Located(Limited(found)) /\ (order.limit # 0 => Len(Limited(found)) <= order.limit)
    BY <1>1, <2>2, LimitedLocated
  <2>. QED  BY <1>1, <2>1, <2>2, <2>3, SearchFits_locating
<1>8. CASE AskImage
  <2>1. /\ stage = "fetching" /\ next <= Len(found) /\ UNCHANGED <<order, served, found>>
        /\ \/ stage' = "downloading" /\ next' = next /\ found[next].image # "none"
           \/ stage' = "fetching" /\ next' = next + 1
    BY <1>8 DEF AskImage, HasImage
  <2>2. Located(found) /\ WithinOrder /\ order.source \in {"iiif", "gallica", "escriptorium"}
    BY <1>1, <2>1 DEF SearchFits, Searching, Fetching
  <2>3. Located(found)' /\ WithinOrder'
    BY <2>1, <2>2, LocatedStays DEF WithinOrder
  <2>4. next \in Nat /\ Len(found) \in Nat
    BY <1>1, <2>2 DEF ImportTypes, Located
  <2>. QED  BY <2>1, <2>2, <2>3, <2>4 DEF SearchFits, Searching, Fetching
<1>9. CASE ImageStreams
  BY <1>9, <1>3 DEF ImageStreams
<1>10. CASE ImageReplaced
  <2>1. /\ stage = "downloading" /\ stage' = "texting"
        /\ UNCHANGED <<order, served, found, next, documents>>
    BY <1>10 DEF ImageReplaced
  <2>2. Located(found) /\ WithinOrder
    BY <1>1, <2>1 DEF SearchFits, Searching, Fetching
  <2>3. Located(found)' /\ WithinOrder'
    BY <2>1, <2>2, LocatedStays DEF WithinOrder
  <2>. QED  BY <1>1, <2>1, <2>3 DEF SearchFits, Searching, Fetching
<1>11. ASSUME stage = "texting", stage' = "fetching", next' = next + 1,
              UNCHANGED <<order, served, found>>
       PROVE  SearchFits'
  <2>2. /\ Located(found) /\ WithinOrder /\ next <= Len(found)
        /\ order.source \in {"iiif", "gallica", "escriptorium"}
    BY <1>1, <1>11 DEF SearchFits, Searching, Fetching
  <2>3. Located(found)' /\ WithinOrder'
    BY <1>11, <2>2, LocatedStays DEF WithinOrder
  <2>4. next \in Nat /\ Len(found) \in Nat
    BY <1>1, <2>2 DEF ImportTypes, Located
  <2>. QED  BY <1>11, <2>2, <2>3, <2>4 DEF SearchFits, Searching, Fetching
<1>12. CASE TextWritten
  BY <1>12, <1>11 DEF TextWritten, Build
<1>13. ASSUME stage' \in Outcomes \union {"reading"} PROVE SearchFits'
  BY <1>13 DEF SearchFits, Outcomes, Searching, Fetching
<1>14. CASE \E kind \in {"address", "status", "transport"} : RequestFails(kind)
  <2>1. PICK kind \in {"address", "status", "transport"} : RequestFails(kind)
    BY <1>14
  <2>2. CASE request.for = "ocr" /\ kind # "address"
    BY <2>1, <2>2, <1>1, <1>11 DEF RequestFails, Build, RequestsFit
  <2>3. CASE request.for # "ocr" \/ kind = "address"
    BY <2>1, <2>3, <1>13 DEF RequestFails, End, Outcomes
  <2>. QED  BY <2>2, <2>3
<1>15. CASE Row \/ Layout \/ Specify \/ \E outcome \in Outcomes : LibraryFails(outcome)
  <2>1. stage' \in Outcomes \union {"reading"}
    BY <1>15 DEF Row, Layout, Specify, LibraryFails, End, Outcomes
  <2>. QED  BY <2>1, <1>13
<1>16. CASE \E host \in Hosts : Redirected(host)
  BY <1>16, <1>3 DEF Redirected
<1>17. CASE UNCHANGED importVars
  BY <1>17, <1>3 DEF importVars
<1>. QED
  BY <1>2, <1>4, <1>5, <1>6, <1>7, <1>8, <1>9, <1>10, <1>12, <1>14, <1>15, <1>16, <1>17
     DEF ImportNext

LEMMA PartialFits_step == ImportInv /\ [ImportNext]_importVars => PartialFits'
<1>. SUFFICES ASSUME ImportInv, [ImportNext]_importVars PROVE PartialFits'
  OBVIOUS
<1>1. PartialFits
  BY DEF ImportInv
<1>2. ASSUME stage # "downloading", partial' = partial PROVE PartialFits'
  BY <1>1, <1>2 DEF PartialFits
<1>3. ASSUME partial' = 0 PROVE PartialFits'
  BY <1>3 DEF PartialFits
<1>4. ASSUME UNCHANGED <<order, found, stage, next>>, partial' \in {partial, DocId(found[next])},
             partial' = partial \/ stage = "downloading"
      PROVE  PartialFits'
  <2>1. DocId(found[next])' = DocId(found[next])
    BY <1>4 DEF DocId, VueOf
  <2>. QED  BY <1>1, <1>4, <2>1 DEF PartialFits
<1>5. CASE AskNext
  BY <1>5, <1>2 DEF AskNext, Ask
<1>6. CASE \E host \in Hosts : Redirected(host)
  BY <1>6, <1>4 DEF Redirected
<1>7. CASE \E host \in Hosts : PartsPage(host)
  BY <1>7, <1>2 DEF PartsPage
<1>8. CASE Manifest
  BY <1>8, <1>2, <1>3 DEF Manifest, End
<1>9. CASE AskTranscription \/ Transcription \/ PartsLocated \/ AskImage \/ TextWritten
  BY <1>9, <1>2 DEF AskTranscription, Transcription, PartsLocated, AskImage, TextWritten
<1>10. CASE ImageStreams
  BY <1>10, <1>4 DEF ImageStreams
<1>11. CASE ImageReplaced \/ Specify \/ \E outcome \in Outcomes : LibraryFails(outcome)
  BY <1>11, <1>3 DEF ImageReplaced, Specify, LibraryFails, End
<1>12. CASE \E kind \in {"address", "status", "transport"} : RequestFails(kind)
  <2>1. PICK kind \in {"address", "status", "transport"} : RequestFails(kind)
    BY <1>12
  <2>2. request.for = "ocr" => stage = "texting"
    BY DEF ImportInv, RequestsFit
  <2>. QED  BY <2>1, <2>2, <1>2, <1>3 DEF RequestFails, End
<1>13. CASE Row \/ Layout
  BY <1>13, <1>2, <1>3 DEF Row, Layout, End
<1>14. CASE UNCHANGED importVars
  BY <1>14, <1>4 DEF importVars
<1>. QED
  BY <1>5, <1>6, <1>7, <1>8, <1>9, <1>10, <1>11, <1>12, <1>13, <1>14 DEF ImportNext


\* A document of a new name leaves the names unique only if they were.
LEMMA BuildUnique ==
  ASSUME ImportTypes, NEW item, item.of \in Items, NEW d \in Items, NEW text \in Nat,
         Build(item, d, text), UniqueIds'
  PROVE  UniqueIds /\ \A i \in DOMAIN documents : documents[i].id # d
<1>1. /\ \A i \in DOMAIN documents : i \in DOMAIN documents' /\ documents'[i] = documents[i]
      /\ documents'[Len(documents')] = [id |-> d, of |-> item.of, text |-> text # 0]
      /\ documents' \in Seq(Document) /\ Len(documents') = Len(documents) + 1
  BY BuildTypes
<1>2. Len(documents) \in Nat /\ DOMAIN documents = 1..Len(documents)
  BY DEF ImportTypes
<1>3. /\ DOMAIN documents' = 1..(Len(documents) + 1)
      /\ Len(documents') \notin DOMAIN documents
  BY <1>1, <1>2
<1>4. \A i, j \in DOMAIN documents' : documents'[i].id = documents'[j].id => i = j
  BY DEF UniqueIds
<1>5. documents'[Len(documents')].id = d /\ Len(documents') \in DOMAIN documents'
  BY <1>1, <1>2, <1>3
<1>6. UniqueIds
  BY <1>1, <1>4 DEF UniqueIds
<1>. QED  BY <1>1, <1>3, <1>4, <1>5, <1>6

\* The text of a document that is built, if it has one, is that of its item.
LEMMA TextsFit_build ==
  ASSUME ImportTypes, TextsFit, NEW item, item.of \in Items, NEW d \in Items,
         NEW text \in Nat, Build(item, d, text), UNCHANGED <<order, served>>,
         text # 0 /\ TellsItsText(item.of) => text = item.of /\ served[item.of].text = "some"
  PROVE  TextsFit'
<1>1. /\ \A i \in DOMAIN documents : i \in DOMAIN documents' /\ documents'[i] = documents[i]
      /\ documents'[Len(documents')] = [id |-> d, of |-> item.of, text |-> text # 0]
      /\ documents' \in Seq(Document) /\ Len(documents') = Len(documents) + 1
      /\ \A i \in DOMAIN documents' : i \in DOMAIN documents \/ i = Len(documents')
  BY BuildTypes
<1>2. Len(documents) \in Nat /\ Len(documents') \in DOMAIN documents'
  BY <1>1 DEF ImportTypes
<1>3. texts' = IF text = 0 THEN texts ELSE [texts EXCEPT ![d] = text]
  BY DEF Build
<1>4. texts \in [Items -> Nat]
  BY DEF ImportTypes
<1>5. /\ \A e \in Items : e # d => texts'[e] = texts[e]
      /\ text # 0 => texts'[d] = text
      /\ text = 0 => texts'[d] = texts[d]
  BY <1>3, <1>4
<1>6. \A e \in Items : texts[e] # 0 => \E i \in DOMAIN documents : documents[i].id = e
  BY DEF TextsFit
<1>. DEFINE n == Len(documents')
<1>7. documents'[n].id = d /\ documents'[n].of = item.of /\ documents'[n].text = (text # 0)
  BY <1>1
<1>. HIDE DEF n
<1>8. ASSUME NEW e \in Items, texts'[e] # 0
      PROVE  \E i \in DOMAIN documents' : documents'[i].id = e
  <2>1. CASE e = d
    BY <2>1, <1>2, <1>7 DEF n
  <2>2. CASE e # d
    BY <2>2, <1>1, <1>5, <1>6, <1>8
  <2>. QED  BY <2>1, <2>2
<1>9. ASSUME UniqueIds', NEW i \in DOMAIN documents'
      PROVE  TextFits(documents[i])'
  <2>1. UniqueIds /\ \A j \in DOMAIN documents : documents[j].id # d
    BY <1>9, BuildUnique
  <2>2. CASE i \in DOMAIN documents
    <3>1. TextFits(documents[i])
      BY <2>1, <2>2 DEF TextsFit
    <3>2. documents'[i] = documents[i] /\ documents[i].id \in Items /\ documents[i].id # d
      <4>1. documents[i] \in Document
        BY <2>2 DEF ImportTypes
      <4>. QED  BY <4>1, <1>1, <2>1, <2>2 DEF Document
    <3>3. texts'[documents[i].id] = texts[documents[i].id]
      BY <3>2, <1>5
    <3>. QED  BY <3>1, <3>2, <3>3 DEF TextFits, TellsItsText
  <2>3. CASE i = n
    <3>1. text = 0 => texts'[d] = 0
      BY <1>5, <1>6, <2>1
    <3>2. TellsItsText(item.of)' <=> TellsItsText(item.of)
      BY DEF TellsItsText
    <3>3. texts'[d] # 0 <=> documents'[n].text
      BY <3>1, <1>5, <1>7
    <3>4. documents'[n].text <=> text # 0
      BY <1>7
    <3>5. documents'[n].text /\ TellsItsText(item.of)' =>
            texts'[d] = item.of /\ served'[item.of].text = "some"
      BY <3>2, <3>4, <1>5
    <3>. QED  BY <2>3, <3>3, <3>5, <1>7 DEF TextFits
  <2>. QED  BY <2>2, <2>3, <1>1 DEF n
<1>. QED  BY <1>8, <1>9 DEF TextsFit

\* The item that is fetched gives its own text, if it tells which it is.
LEMMA TextOfItem ==
  ASSUME ImportTypes, SearchFits, stage = "texting",
         NEW text, \/ order.source = "gallica" /\ text = OcrText
                   \/ text = IF found[next].text = "some" THEN found[next].of ELSE 0
                   \/ text = 0
  PROVE  /\ text \in Nat
         /\ text # 0 /\ TellsItsText(found[next].of) =>
              text = found[next].of /\ served[found[next].of].text = "some"
<1>. DEFINE i == found[next].of
<1>1. i \in Items /\ found[next] = Numbered(i) /\ i \in 1..Len(served)
  BY DocIdType
<1>2. /\ found[next].tells <=> served[i].tells
      /\ found[next].text = served[i].text
  BY <1>1 DEF Numbered
<1>3. i \in Nat /\ i # 0
  BY <1>1 DEF Items
<1>4. text \in Nat
  BY <1>3, OcrTextType
<1>. HIDE DEF i
<1>5. ASSUME text # 0, TellsItsText(i) PROVE text = i /\ served[i].text = "some"
  <2>1. CASE order.source = "gallica" /\ text = OcrText
    <3>1. VueOf(found[next]) = i
      BY <2>1, <1>2, <1>5 DEF TellsItsText, VueOf, i
    <3>. QED  BY <3>1, <2>1, <1>5 DEF OcrText
  <2>2. CASE text = IF found[next].text = "some" THEN found[next].of ELSE 0
    BY <2>2, <1>2, <1>5 DEF i
  <2>. QED  BY <2>1, <2>2, <1>5
<1>. QED  BY <1>4, <1>5 DEF i

\* A layout has the texts of its entries, unless two have one name.
LEMMA TextsFit_layout ==
  ASSUME ImportTypes, order.source = "curated", UNCHANGED <<order, served>>,
         ~ \E i \in DOMAIN served : served[i].image = "bad",
         documents' = [i \in DOMAIN served |-> [id |-> EntryId(i), of |-> i, text |-> TRUE]],
         texts' = [d \in Items |->
                     IF \E i \in DOMAIN served : EntryId(i) = d
                       THEN CHOOSE i \in DOMAIN served : EntryId(i) = d ELSE 0]
  PROVE  TextsFit'
<1>1. Len(served) \in Nat /\ DOMAIN served = 1..Len(served) /\ Len(served) <= MaxItems
  BY DEF ImportTypes
<1>2. \A i \in DOMAIN served : i \in Items /\ i # 0 /\ EntryId(i) \in Items
  BY <1>1, ImportAssumption DEF Items, EntryId
<1>3. /\ DOMAIN documents' = DOMAIN served
      /\ \A i \in DOMAIN served : /\ documents'[i].id = EntryId(i) /\ documents'[i].of = i
                                  /\ documents'[i].text
  OBVIOUS
<1>4. ASSUME NEW d \in Items, texts'[d] # 0
      PROVE  \E i \in DOMAIN documents' : documents'[i].id = d
  BY <1>3, <1>4
<1>5. ASSUME UniqueIds', NEW i \in DOMAIN served
      PROVE  texts'[EntryId(i)] = i
  <2>1. \A j \in DOMAIN served : EntryId(j) = EntryId(i) => j = i
    BY <1>3, <1>5 DEF UniqueIds
  <2>2. texts'[EntryId(i)] = CHOOSE j \in DOMAIN served : EntryId(j) = EntryId(i)
    BY <1>2
  <2>. QED  BY <2>1, <2>2
<1>6. ASSUME UniqueIds', NEW i \in DOMAIN documents'
      PROVE  TextFits(documents[i])'
  <2>1. served'[i].text = "some"
    BY <1>3 DEF ImportTypes
  <2>2. i \in DOMAIN served /\ i # 0 /\ documents'[i].id = EntryId(i) /\ documents'[i].of = i
    BY <1>2, <1>3, <1>6
  <2>3. texts'[documents'[i].id] = i
    BY <2>2, <1>5, <1>6
  <2>4. texts'[documents'[i].id] # 0 <=> documents'[i].text
    BY <2>2, <2>3, <1>3
  <2>. HIDE DEF EntryId
  <2>. QED  BY <2>1, <2>2, <2>3, <2>4 DEF TextFits
<1>. QED  BY <1>4, <1>6 DEF TextsFit

LEMMA TextsFit_step == ImportInv /\ [ImportNext]_importVars => TextsFit'
<1>. SUFFICES ASSUME ImportInv, [ImportNext]_importVars PROVE TextsFit'
  OBVIOUS
<1>1. ImportTypes /\ SearchFits /\ RequestsFit /\ TextsFit /\ BuiltSoFar
  BY DEF ImportInv
<1>2. CASE AskNext
  <2>1. UNCHANGED <<texts, documents>> /\ stage = "idle"
    BY <1>2 DEF AskNext, Ask
  <2>2. documents = <<>>
    BY <1>1, <2>1 DEF ImportTypes
  <2>. QED  BY <1>1, <2>1, <2>2 DEF TextsFit
<1>3. ASSUME UNCHANGED <<order, served, texts, documents>> PROVE TextsFit'
  BY <1>1, <1>3 DEF TextsFit, UniqueIds, TextFits, TellsItsText
<1>4. CASE \E host \in Hosts : Redirected(host) \/ PartsPage(host)
  BY <1>4, <1>3 DEF Redirected, PartsPage
<1>5. CASE Manifest \/ AskTranscription \/ Transcription \/ PartsLocated \/ AskImage
           \/ ImageStreams \/ ImageReplaced
  BY <1>5, <1>3 DEF Manifest, AskTranscription, Transcription, PartsLocated, AskImage,
     ImageStreams, ImageReplaced
<1>6. ASSUME stage = "texting", UNCHANGED <<order, served>>,
             NEW text, Build(found[next], DocId(found[next]), text),
             \/ order.source = "gallica" /\ text = OcrText
             \/ text = IF found[next].text = "some" THEN found[next].of ELSE 0
             \/ text = 0
      PROVE  TextsFit'
  <2>1. text \in Nat /\ (text # 0 /\ TellsItsText(found[next].of) =>
                           text = found[next].of /\ served[found[next].of].text = "some")
    BY <1>1, <1>6, TextOfItem
  <2>2. found[next].of \in Items /\ DocId(found[next]) \in Items
    BY <1>1, <1>6, DocIdType
  <2>. QED  BY <1>1, <1>6, <2>1, <2>2, TextsFit_build
<1>7. CASE TextWritten
  <2>1. stage = "texting" /\ UNCHANGED <<order, served>>
    BY <1>7 DEF TextWritten
  <2>2. CASE request.for = "ocr" /\ Build(found[next], DocId(found[next]), OcrText)
    BY <2>1, <2>2, <1>1, <1>6 DEF RequestsFit
  <2>3. CASE Build(found[next], DocId(found[next]),
                   IF found[next].text = "some" THEN found[next].of ELSE 0)
    BY <2>1, <2>3, <1>6
  <2>. QED  BY <2>2, <2>3, <1>7 DEF TextWritten
<1>8. CASE \E kind \in {"address", "status", "transport"} : RequestFails(kind)
  <2>1. PICK kind \in {"address", "status", "transport"} : RequestFails(kind)
    BY <1>8
  <2>2. CASE request.for = "ocr" /\ kind # "address"
    <3>1. stage = "texting" /\ UNCHANGED <<order, served>>
      BY <1>1, <2>1, <2>2 DEF RequestsFit, RequestFails
    <3>2. Build(found[next], DocId(found[next]), 0)
      BY <2>1, <2>2 DEF RequestFails
    <3>. QED  BY <3>1, <3>2, <1>6
  <2>3. CASE request.for # "ocr" \/ kind = "address"
    BY <2>1, <2>3, <1>3 DEF RequestFails
  <2>. QED  BY <2>2, <2>3
<1>9. CASE Row
  <2>1. UNCHANGED <<order, served>> /\ stage = "reading" /\ order.source = "huggingface"
        /\ next <= Len(served)
    BY <1>9 DEF Row
  <2>2. next \in 1..Len(served) /\ next \in Items /\ next \in Nat
    BY <1>1, <2>1, ImportAssumption DEF ImportTypes, Items
  <2>3. CASE UNCHANGED <<texts, documents>>
    BY <2>1, <2>3, <1>3
  <2>4. CASE Build(Numbered(next), Len(documents) + 1,
                   IF Numbered(next).text = "some" THEN Numbered(next).of ELSE 0)
    <3>. DEFINE text == IF Numbered(next).text = "some" THEN Numbered(next).of ELSE 0
    <3>1. Numbered(next).of = next /\ Numbered(next).text = served[next].text
      BY DEF Numbered
    <3>2. Len(documents) + 1 \in Items
      <4>1. Len(documents) < next
        BY <1>1, <2>1 DEF BuiltSoFar, RowsFit
      <4>2. Len(documents) \in Nat
        BY <1>1 DEF ImportTypes
      <4>. QED  BY <4>1, <4>2, <2>2, ImportAssumption DEF Items
    <3>3. text \in Nat /\ (text # 0 => text = Numbered(next).of /\ served[next].text = "some")
      BY <3>1, <2>2
    <3>. HIDE DEF text
    <3>. QED  BY <1>1, <2>1, <2>2, <2>4, <3>1, <3>2, <3>3, TextsFit_build DEF text
  <2>. QED  BY <2>3, <2>4, <1>9 DEF Row
<1>10. CASE Layout
  <2>1. UNCHANGED <<order, served>> /\ order.source = "curated"
    BY <1>10 DEF Layout
  <2>2. CASE UNCHANGED <<texts, documents>>
    BY <2>1, <2>2, <1>3
  <2>3. CASE ~ UNCHANGED <<texts, documents>>
    BY <2>1, <2>3, <1>1, <1>10, TextsFit_layout DEF Layout
  <2>. QED  BY <2>2, <2>3
<1>11. CASE Specify \/ \E outcome \in Outcomes : LibraryFails(outcome)
  BY <1>11, <1>3 DEF Specify, LibraryFails
<1>12. CASE UNCHANGED importVars
  BY <1>12, <1>3 DEF importVars
<1>. QED
  BY <1>2, <1>4, <1>5, <1>7, <1>8, <1>9, <1>10, <1>11, <1>12 DEF ImportNext


-----------------------------------------------------------------------------
(* What is built.                                                          *)

\* The names and the items of the documents.
LEMMA DocumentsTyped ==
  ASSUME ImportTypes
  PROVE  \A i \in DOMAIN documents :
           documents[i].id \in Items /\ documents[i].of \in Items /\ documents[i].of \in Nat
<1>1. \A i \in DOMAIN documents : documents[i] \in Document
  BY DEF ImportTypes
<1>2. \A d \in Document : d.id \in Items /\ d.of \in Items
  BY DEF Document
<1>3. \A d \in Items : d \in Nat
  BY ImportAssumption DEF Items
<1>. QED  BY <1>1, <1>2, <1>3

\* One more document is that of the item that was fetched.
LEMMA DocumentsFit_build ==
  ASSUME ImportTypes, SearchFits, stage = "texting", DocumentsFit,
         NEW text \in Nat, Build(found[next], DocId(found[next]), text), UNCHANGED found
  PROVE  DocumentsFit'
<1>1. /\ next \in DOMAIN found /\ found[next].of \in Items /\ DocId(found[next]) \in Items
      /\ Located(found) /\ next \in Nat
  BY DocIdType DEF SearchFits, Searching, ImportTypes
<1>. DEFINE d == DocId(found[next])
<1>2. /\ \A i \in DOMAIN documents : i \in DOMAIN documents' /\ documents'[i] = documents[i]
      /\ documents'[Len(documents')] = [id |-> d, of |-> found[next].of, text |-> text # 0]
      /\ documents' \in Seq(Document) /\ Len(documents') = Len(documents) + 1
      /\ \A i \in DOMAIN documents' : i \in DOMAIN documents \/ i = Len(documents')
      /\ next' = next + 1
  BY <1>1, BuildTypes
<1>. HIDE DEF d
<1>. DEFINE n == Len(documents')
<1>3. /\ Len(documents) \in Nat /\ n = Len(documents) + 1 /\ n \in DOMAIN documents'
      /\ DOMAIN documents = 1..Len(documents) /\ documents'[n].of = found[next].of
  BY <1>2 DEF ImportTypes
<1>4. \A i \in DOMAIN documents' : i \in DOMAIN documents \/ i = n
  BY <1>2
<1>. HIDE DEF n
<1>5. \A i \in DOMAIN documents : \E k \in DOMAIN found : k < next /\ documents[i].of = found[k].of
  BY DEF DocumentsFit
<1>6. ASSUME NEW i \in DOMAIN documents'
      PROVE  \E k \in DOMAIN found : k < next + 1 /\ documents'[i].of = found[k].of
  <2>1. CASE i \in DOMAIN documents
    <3>1. PICK k \in DOMAIN found : k < next /\ documents[i].of = found[k].of
      BY <2>1, <1>5
    <3>2. k < next + 1
      BY <3>1, <1>1 DEF Located
    <3>. QED  BY <2>1, <3>1, <3>2, <1>2
  <2>2. CASE i = n
    BY <2>2, <1>1, <1>3
  <2>. QED  BY <2>1, <2>2, <1>4
<1>7. \A i \in DOMAIN documents : documents[i].of < found[next].of
  BY <1>1, <1>5 DEF Located
<1>8. ASSUME NEW i \in DOMAIN documents', NEW j \in DOMAIN documents', i < j
      PROVE  documents'[i].of < documents'[j].of
  <2>1. i \in DOMAIN documents
    <3>1. ~ (i = n)
      BY <1>3, <1>4, <1>8
    <3>. QED  BY <3>1, <1>4
  <2>2. CASE j \in DOMAIN documents
    BY <2>1, <2>2, <1>2, <1>8 DEF DocumentsFit
  <2>3. CASE j = n
    BY <2>1, <2>3, <1>2, <1>3, <1>7
  <2>. QED  BY <2>2, <2>3, <1>4
<1>9. ASSUME NEW k \in DOMAIN found, k < next + 1, found[k].image # "none"
      PROVE  \E i \in DOMAIN documents' : documents'[i].of = found[k].of
  <2>1. CASE k < next
    <3>1. PICK i \in DOMAIN documents : documents[i].of = found[k].of
      BY <2>1, <1>9 DEF DocumentsFit
    <3>. QED  BY <3>1, <1>2
  <2>2. CASE k = next
    BY <2>2, <1>3
  <2>3. k \in Nat
    BY <1>1 DEF Located
  <2>. QED  BY <2>1, <2>2, <2>3, <1>1, <1>9
<1>10. Len(documents') < next + 1
  BY <1>1, <1>2, <1>3 DEF DocumentsFit
<1>. QED  BY <1>2, <1>6, <1>8, <1>9, <1>10 DEF DocumentsFit

\* The image of a document that is built is that of its item.
LEMMA ImagesFit_build ==
  ASSUME ImportTypes, SearchFits, stage = "texting", ImagesFit,
         NEW text \in Nat, Build(found[next], DocId(found[next]), text),
         UNCHANGED images, stage' # "texting"
  PROVE  ImagesFit'
<1>1. /\ found[next].of \in Items /\ DocId(found[next]) \in Items
  BY DocIdType
<1>. DEFINE d == DocId(found[next])
<1>2. /\ \A i \in DOMAIN documents : i \in DOMAIN documents' /\ documents'[i] = documents[i]
      /\ documents'[Len(documents')] = [id |-> d, of |-> found[next].of, text |-> text # 0]
      /\ \A i \in DOMAIN documents' : i \in DOMAIN documents \/ i = Len(documents')
  BY <1>1, BuildTypes
<1>3. images[d] = found[next].of
  BY DEF ImagesFit
<1>4. UniqueIds' => UniqueIds /\ \A i \in DOMAIN documents : documents[i].id # d
  BY <1>1, BuildUnique
<1>5. UniqueIds' => \A i \in DOMAIN documents : images[documents[i].id] = documents[i].of
  BY <1>4 DEF ImagesFit, NewName
<1>. HIDE DEF d
<1>6. ASSUME UniqueIds', NEW i \in DOMAIN documents'
      PROVE  images'[documents'[i].id] = documents'[i].of
  BY <1>2, <1>3, <1>5, <1>6
<1>. QED  BY <1>6 DEF ImagesFit

\* A row that is kept has its document, its image and its rank.
LEMMA RowsFit_build ==
  ASSUME ImportTypes, RowsFit, ImagesFit, stage = "reading", UNCHANGED <<order, served, stage>>,
         next \in 1..Len(served), ~LimitReached, NEW text \in Nat,
         images' = [images EXCEPT ![Len(documents) + 1] = Numbered(next).of],
         Build(Numbered(next), Len(documents) + 1, text)
  PROVE  RowsFit' /\ ImagesFit'
<1>1. /\ next \in Items /\ next \in Nat /\ Numbered(next).of = next
      /\ Len(documents) + 1 \in Items
  <2>1. next \in Items /\ next \in Nat /\ Len(documents) \in Nat
    BY ImportAssumption DEF ImportTypes, Items
  <2>2. Len(documents) + 1 \in Items
    <3>1. Len(documents) < next
      BY DEF RowsFit
    <3>. QED  BY <3>1, <2>1, ImportAssumption DEF Items
  <2>. QED  BY <2>1, <2>2 DEF Numbered
<1>. DEFINE n == Len(documents) + 1
<1>2. /\ \A i \in DOMAIN documents : i \in DOMAIN documents' /\ documents'[i] = documents[i]
      /\ documents'[Len(documents')] = [id |-> n, of |-> Numbered(next).of, text |-> text # 0]
      /\ documents' \in Seq(Document) /\ Len(documents') = Len(documents) + 1
      /\ \A i \in DOMAIN documents' : i \in DOMAIN documents \/ i = Len(documents')
      /\ next' = next + 1
  BY <1>1, BuildTypes
<1>3. /\ Len(documents) \in Nat /\ DOMAIN documents = 1..Len(documents)
      /\ DOMAIN documents' = 1..n /\ Len(documents') = n
  BY <1>2 DEF ImportTypes
<1>4. documents'[n].id = n /\ documents'[n].of = next /\ n \in DOMAIN documents'
  BY <1>1, <1>2, <1>3
<1>5. images \in [Items -> Nat] /\ images' = [images EXCEPT ![n] = next]
  BY <1>1 DEF ImportTypes
<1>6. \A i \in DOMAIN documents' : i \in DOMAIN documents \/ i = n
  BY <1>2
<1>7. \A i \in DOMAIN documents : i < n
  BY <1>3
<1>8. order.limit # 0 => Len(documents) < order.limit
  BY <1>3 DEF LimitReached, ImportTypes
<1>9. n \in Items /\ n \in Nat
  BY <1>1, <1>3
<1>. HIDE DEF n
<1>10. ASSUME NEW i \in DOMAIN documents'
       PROVE  /\ documents'[i].id = i /\ documents'[i].of \in DOMAIN served
              /\ documents'[i].of < next + 1
  <2>1. CASE i \in DOMAIN documents
    <3>1. /\ documents[i].id = i /\ documents[i].of \in DOMAIN served /\ documents[i].of < next
          /\ documents[i].of \in Nat
      BY <2>1, DocumentsTyped DEF RowsFit
    <3>2. documents[i].of < next + 1
      BY <3>1, <1>1
    <3>. QED  BY <2>1, <3>1, <3>2, <1>2
  <2>2. CASE i = n
    <3>1. next \in DOMAIN served /\ next < next + 1
      BY <1>1 DEF ImportTypes
    <3>. QED  BY <2>2, <3>1, <1>4
  <2>. QED  BY <2>1, <2>2, <1>6
<1>11. ASSUME NEW i \in DOMAIN documents', NEW j \in DOMAIN documents', i < j
       PROVE  documents'[i].of < documents'[j].of
  <2>1. i \in DOMAIN documents
    BY <1>3, <1>6, <1>9, <1>11
  <2>2. CASE j \in DOMAIN documents
    BY <2>1, <2>2, <1>2, <1>11 DEF RowsFit
  <2>3. CASE j = n
    BY <2>1, <2>3, <1>2, <1>4 DEF RowsFit
  <2>. QED  BY <2>2, <2>3, <1>6
<1>12. ASSUME NEW j \in DOMAIN served, j < next + 1
       PROVE  \/ \E i \in DOMAIN documents' : documents'[i].of = j
              \/ served[j].image \in {"no row", "big"}
  <2>1. j \in Nat
    BY DEF ImportTypes
  <2>2. CASE j < next
    <3>1. \/ \E i \in DOMAIN documents : documents[i].of = j
          \/ served[j].image \in {"no row", "big"}
      BY <2>2, <1>12 DEF RowsFit
    <3>. QED  BY <3>1, <1>2
  <2>3. CASE j = next
    BY <2>3, <1>4
  <2>4. j < next \/ j = next
    BY <2>1, <1>1, <1>12
  <2>. QED  BY <2>2, <2>3, <2>4
<1>13. order.limit # 0 => Len(documents') <= order.limit
  BY <1>3, <1>8 DEF n, ImportTypes
<1>14. Len(documents') < next + 1
  <2>1. Len(documents) < next
    BY DEF RowsFit
  <2>. QED  BY <2>1, <1>1, <1>3 DEF n
<1>15. RowsFit'
  BY <1>2, <1>10, <1>11, <1>12, <1>13, <1>14 DEF RowsFit
<1>16. UniqueIds /\ NewName
  <2>1. UniqueIds
    BY DEF RowsFit, UniqueIds
  <2>. QED  BY <2>1 DEF NewName
<1>17. \A i \in DOMAIN documents : images[documents[i].id] = documents[i].of
  BY <1>16 DEF ImagesFit
<1>18. ASSUME NEW i \in DOMAIN documents' PROVE images'[documents'[i].id] = documents'[i].of
  <2>1. CASE i \in DOMAIN documents
    <3>1. documents'[i] = documents[i] /\ documents[i].id = i /\ i # n /\ documents[i].id \in Items
      <4>1. documents[i].id = i /\ documents[i].id \in Items
        BY <2>1, DocumentsTyped DEF RowsFit
      <4>2. i < n /\ i \in Nat
        BY <2>1, <1>3, <1>7
      <4>. QED  BY <4>1, <4>2, <2>1, <1>2, <1>9
    <3>2. images'[documents[i].id] = images[documents[i].id]
      BY <3>1, <1>5
    <3>. QED  BY <3>1, <3>2, <2>1, <1>17
  <2>2. CASE i = n
    BY <2>2, <1>4, <1>5, <1>9
  <2>. QED  BY <2>1, <2>2, <1>6
<1>. QED  BY <1>15, <1>18 DEF ImagesFit

\* A corpus of what was fetched.
LEMMA Delivered_fetched ==
  ASSUME ImportTypes, SearchFits, TextsFit, DocumentsFit, ImagesFit, stage = "fetching",
         next > Len(found), documents # <<>>, UniqueIds
  PROVE  Delivered
<1>1. /\ Located(found) /\ WithinOrder /\ next \in Nat /\ Len(found) \in Nat
      /\ DOMAIN found = 1..Len(found) /\ next <= Len(found) + 1
      /\ order.source \in {"iiif", "gallica", "escriptorium"}
  BY DEF SearchFits, Searching, Fetching, Located, ImportTypes
<1>2. Len(documents) \in Nat /\ order.limit \in Nat /\ Len(documents) < next
  BY DEF ImportTypes, DocumentsFit
<1>3. order.limit # 0 => Len(documents) <= order.limit
  BY <1>1, <1>2 DEF WithinOrder
<1>4. \A i \in DOMAIN documents : images[documents[i].id] = documents[i].of
  BY DEF ImagesFit, NewName
<1>5. \A i \in DOMAIN documents : TextFits(documents[i])
  BY DEF TextsFit
<1>6. ASSUME NEW i \in DOMAIN documents, NEW j \in 1..documents[i].of
      PROVE  \/ \E k \in DOMAIN documents : documents[k].of = j
             \/ served[j].image \in {"none", "no row", "big"}
             \/ order.source = "escriptorium" /\ ~served[j].tells
  <2>1. PICK k \in DOMAIN found : documents[i].of = found[k].of
    BY DEF DocumentsFit
  <2>2. CASE ~Usable(j)
    BY <2>2 DEF Usable
  <2>3. CASE Usable(j)
    <3>1. PICK m \in 1..k : found[m].of = j
      BY <2>1, <2>3 DEF Located, SearchFits, Searching
    <3>2. m \in DOMAIN found /\ m < next
      BY <1>1
    <3>3. found[m].image = served[j].image
      BY <3>1, <3>2, <1>1 DEF Located, Numbered
    <3>. QED  BY <3>1, <3>2, <3>3 DEF DocumentsFit
  <2>. QED  BY <2>2, <2>3
<1>. QED  BY <1>3, <1>4, <1>5, <1>6 DEF Delivered, DocumentsFit

\* A corpus of rows.
LEMMA Delivered_rows ==
  ASSUME ImportTypes, TextsFit, RowsFit, ImagesFit, stage = "reading", documents # <<>>, UniqueIds
  PROVE  Delivered
<1>1. \A i \in DOMAIN documents : images[documents[i].id] = documents[i].of
  BY DEF ImagesFit, NewName
<1>2. \A i \in DOMAIN documents : TextFits(documents[i])
  BY DEF TextsFit
<1>3. ASSUME NEW i \in DOMAIN documents, NEW j \in 1..documents[i].of
      PROVE  \/ \E k \in DOMAIN documents : documents[k].of = j
             \/ served[j].image \in {"none", "no row", "big"}
  <2>1. documents[i].of < next /\ documents[i].of \in Nat /\ next \in Nat
    BY DocumentsTyped DEF RowsFit, ImportTypes
  <2>2. Len(served) \in Nat /\ DOMAIN served = 1..Len(served)
    BY DEF ImportTypes
  <2>4. documents[i].of \in DOMAIN served
    BY DEF RowsFit
  <2>3. j \in DOMAIN served /\ j < next
    BY <2>1, <2>2, <2>4
  <2>. QED  BY <2>3 DEF RowsFit
<1>. QED  BY <1>1, <1>2, <1>3 DEF Delivered, RowsFit

\* A corpus of entries.
LEMMA Delivered_entries ==
  ASSUME ImportTypes, TextsFit, EntriesFit, order.source = "curated", documents # <<>>, UniqueIds
  PROVE  Delivered
<1>1. \A i \in DOMAIN documents : TextFits(documents[i])
  BY DEF TextsFit
<1>2. Len(documents) \in Nat /\ DOMAIN documents = 1..Len(documents)
  BY DEF ImportTypes
<1>3. \A i \in DOMAIN documents : documents[i].of = i
  BY DEF EntriesFit
<1>4. \A i \in DOMAIN documents : \A j \in 1..documents[i].of :
        j \in DOMAIN documents /\ documents[j].of = j
  BY <1>2, <1>3
<1>. QED  BY <1>1, <1>3, <1>4 DEF Delivered


\* What is built stays as it is built.
LEMMA BuiltStays ==
  ASSUME UNCHANGED <<order, served, found, images, texts, documents>>
  PROVE  /\ next' = next /\ DocumentsFit => DocumentsFit'
         /\ next' = next /\ RowsFit => RowsFit'
         /\ EntriesFit => EntriesFit'
         /\ Delivered => Delivered'
         /\ UniqueIds' = UniqueIds
<1>1. UniqueIds' = UniqueIds
  BY DEF UniqueIds
<1>2. next' = next /\ DocumentsFit => DocumentsFit'
  BY DEF DocumentsFit
<1>3. next' = next /\ RowsFit => RowsFit'
  BY DEF RowsFit
<1>4. EntriesFit => EntriesFit'
  BY DEF EntriesFit
<1>5. Delivered => Delivered'
  BY <1>1 DEF Delivered, TextFits, TellsItsText
<1>. QED  BY <1>1, <1>2, <1>3, <1>4, <1>5

\* The images stay those of their documents.
LEMMA ImagesStay ==
  ASSUME ImagesFit, stage # "texting", stage' # "texting", UNCHANGED <<images, documents>>
  PROVE  ImagesFit'
  BY DEF ImagesFit, NewName, UniqueIds

LEMMA BuiltSoFar_step == ImportInv /\ [ImportNext]_importVars => BuiltSoFar'
<1>. SUFFICES ASSUME ImportInv, [ImportNext]_importVars PROVE BuiltSoFar'
  OBVIOUS
<1>1. ImportTypes /\ SearchFits /\ RequestsFit /\ PartialFits /\ TextsFit /\ BuiltSoFar
  BY DEF ImportInv
<1>2. CASE AskNext
  <2>1. PICK source \in Sources, limit \in 0..(MaxItems - 1), n \in 0..MaxItems :
          \E items \in [1..n -> ServedBy(source)] : Ask(source, limit, items)
    BY <1>2 DEF AskNext
  <2>2. PICK items \in [1..n -> ServedBy(source)] : Ask(source, limit, items)
    BY <2>1
  <2>3. /\ order' = [source |-> source, limit |-> limit] /\ stage = "idle"
        /\ stage' = IF source \in {"huggingface", "curated"} THEN "reading" ELSE "listing"
        /\ UNCHANGED <<next, documents>>
    BY <2>2 DEF Ask
  <2>4. documents' = <<>> /\ next' = 1
    BY <1>1, <2>3 DEF ImportTypes
  <2>5. order'.source = source /\ order'.limit \in Nat
    BY <2>3, ImportAssumption
  <2>6. RowsFit' /\ EntriesFit'
    <3>1. Len(documents') = 0 /\ DOMAIN documents' = {}
      BY <2>4
    <3>2. \A j \in DOMAIN served' : ~ (j < next')
      <4>1. served' = items /\ DOMAIN items = 1..n
        BY <2>2 DEF Ask
      <4>. QED  BY <4>1, <2>4
    <3>3. order'.limit # 0 => Len(documents') <= order'.limit
      BY <3>1, <2>5
    <3>4. Len(documents') < next'
      BY <3>1, <2>4
    <3>5. RowsFit'
      BY <3>1, <3>2, <3>3, <3>4 DEF RowsFit
    <3>. QED  BY <3>1, <3>5 DEF EntriesFit
  <2>7. stage' # "texting" /\ documents' = <<>> => ImagesFit'
    BY DEF ImagesFit
  <2>. QED  BY <2>3, <2>4, <2>5, <2>6, <2>7 DEF BuiltSoFar, Fetching, Sources
<1>3. ASSUME UNCHANGED <<order, served, found, stage, next, images, texts, documents>>
      PROVE  BuiltSoFar'
  <2>1. ImagesFit => ImagesFit'
    BY <1>3 DEF ImagesFit, NewName, UniqueIds, DocId, VueOf
  <2>. QED  BY <1>1, <1>3, <2>1, BuiltStays DEF BuiltSoFar
<1>4. CASE \E host \in Hosts : Redirected(host)
  BY <1>4, <1>3 DEF Redirected
<1>5. ASSUME stage' \in {"listing", "transcribing", "refused", "unavailable", "error"}
      PROVE  BuiltSoFar'
  BY <1>5 DEF BuiltSoFar, Fetching
<1>6. CASE \E host \in Hosts : PartsPage(host)
  BY <1>6, <1>5 DEF PartsPage
<1>7. CASE AskTranscription \/ Transcription
  BY <1>7, <1>5 DEF AskTranscription, Transcription
<1>8. ASSUME stage \in {"listing", "transcribing"}, stage' = "fetching", next' = 1,
             UNCHANGED <<documents>>
      PROVE  BuiltSoFar'
  <2>1. documents' = <<>>
    BY <1>1, <1>8 DEF SearchFits
  <2>2. SearchFits'
    BY SearchFits_step
  <2>3. Located(found)'
    BY <2>2, <1>8 DEF SearchFits, Searching
  <2>4. \A k \in DOMAIN found' : ~ (k < next')
    BY <2>3, <1>8 DEF Located
  <2>5. DocumentsFit'
    BY <2>1, <2>4, <1>8 DEF DocumentsFit
  <2>6. ImagesFit'
    BY <2>1, <1>8 DEF ImagesFit
  <2>. QED  BY <1>8, <2>5, <2>6 DEF BuiltSoFar
<1>9. CASE Manifest
  <2>1. stage = "listing" /\ stage' \in {"refused", "fetching"} /\ UNCHANGED <<next, documents>>
        /\ order.source # "escriptorium"
    BY <1>9 DEF Manifest, End
  <2>2. next = 1
    BY <1>1, <2>1 DEF SearchFits
  <2>. QED  BY <2>1, <2>2, <1>5, <1>8
<1>10. CASE PartsLocated
  BY <1>10, <1>8 DEF PartsLocated
<1>11. CASE AskImage
  <2>1. /\ stage = "fetching" /\ stage' \in {"fetching", "downloading"}
        /\ UNCHANGED <<order, served, found, images, texts, documents>>
    BY <1>11 DEF AskImage
  <2>2. DocumentsFit /\ ImagesFit
    BY <1>1, <2>1 DEF BuiltSoFar, Fetching
  <2>3. ImagesFit'
    BY <2>1, <2>2, ImagesStay
  <2>4. ASSUME next' = next PROVE DocumentsFit'
    BY <2>1, <2>2, <2>4, BuiltStays
  <2>5. ASSUME next' = next + 1, found[next].image = "none" PROVE DocumentsFit'
    <3>1. next \in Nat /\ (\A k \in DOMAIN found : k \in Nat) /\ Len(documents) \in Nat
      BY <1>1, <2>1 DEF ImportTypes, SearchFits, Searching, Located
    <3>2. \A k \in DOMAIN found : k < next => k < next + 1
      BY <3>1
    <3>3. \A k \in DOMAIN found : k < next + 1 /\ found[k].image # "none" => k < next
      BY <3>1, <2>5
    <3>4. Len(documents) < next + 1
      BY <3>1, <2>2 DEF DocumentsFit
    <3>5. DocumentsFit'
      BY <2>1, <2>2, <2>5, <3>2, <3>3, <3>4 DEF DocumentsFit
    <3>. QED  BY <3>5
  <2>6. DocumentsFit'
    BY <2>4, <2>5, <1>11 DEF AskImage, HasImage
  <2>. QED  BY <2>1, <2>3, <2>6 DEF BuiltSoFar
<1>12. CASE ImageStreams
  BY <1>12, <1>3 DEF ImageStreams
<1>13. CASE ImageReplaced
  <2>1. /\ stage = "downloading" /\ stage' = "texting" /\ partial # 0
        /\ images' = [images EXCEPT ![partial] = found[next].of]
        /\ UNCHANGED <<order, served, found, next, texts, documents>>
    BY <1>13 DEF ImageReplaced
  <2>2. DocumentsFit /\ ImagesFit
    BY <1>1, <2>1 DEF BuiltSoFar, Fetching
  <2>3. DocumentsFit'
    BY <2>1, <2>2 DEF DocumentsFit
  <2>. DEFINE d == DocId(found[next])
  <2>4. partial = d /\ d \in Items /\ images \in [Items -> Nat]
    BY <1>1, <2>1, DocIdType DEF PartialFits, ImportTypes
  <2>5. DocId(found[next])' = d
    BY <2>1 DEF DocId, VueOf
  <2>. HIDE DEF d
  <2>6. images'[d] = found[next].of /\ \A e \in Items : e # d => images'[e] = images[e]
    BY <2>1, <2>4
  <2>7. ASSUME UniqueIds', NewName', NEW i \in DOMAIN documents
        PROVE  images'[documents[i].id] = documents[i].of
    <3>1. UniqueIds /\ NewName
      BY <2>1, <2>7 DEF UniqueIds, NewName
    <3>2. documents[i].id # d /\ documents[i].id \in Items
      <4>1. documents[i].id \in Items
        BY <1>1, DocumentsTyped
      <4>2. documents'[i].id # DocId(found[next])'
        BY <2>1, <2>7 DEF NewName
      <4>. QED  BY <4>1, <4>2, <2>1, <2>5
    <3>3. images[documents[i].id] = documents[i].of
      BY <2>2, <3>1 DEF ImagesFit
    <3>. QED  BY <2>6, <3>2, <3>3
  <2>8. ImagesFit'
    BY <2>1, <2>5, <2>6, <2>7 DEF ImagesFit
  <2>. QED  BY <2>1, <2>3, <2>8 DEF BuiltSoFar
<1>14. ASSUME stage = "texting", stage' = "fetching", NEW text \in Nat,
              Build(found[next], DocId(found[next]), text),
              UNCHANGED <<order, served, found, images>>
       PROVE  BuiltSoFar'
  <2>1. DocumentsFit /\ ImagesFit
    BY <1>1, <1>14 DEF BuiltSoFar, Fetching
  <2>2. DocumentsFit'
    BY <1>1, <1>14, <2>1, DocumentsFit_build
  <2>3. ImagesFit'
    BY <1>1, <1>14, <2>1, ImagesFit_build
  <2>. QED  BY <1>14, <2>2, <2>3 DEF BuiltSoFar
<1>15. CASE TextWritten
  <2>1. stage = "texting"
    BY <1>15 DEF TextWritten
  <2>2. OcrText \in Nat /\ found[next].of \in Nat
    BY <1>1, <2>1, OcrTextType, DocIdType DEF Items
  <2>3. \E text \in Nat : Build(found[next], DocId(found[next]), text)
    BY <2>2, <1>15 DEF TextWritten
  <2>. QED  BY <2>3, <1>14, <1>15 DEF TextWritten
<1>16. CASE \E kind \in {"address", "status", "transport"} : RequestFails(kind)
  <2>1. PICK kind \in {"address", "status", "transport"} : RequestFails(kind)
    BY <1>16
  <2>2. CASE request.for = "ocr" /\ kind # "address"
    BY <1>1, <2>1, <2>2, <1>14 DEF RequestFails, RequestsFit
  <2>3. CASE request.for # "ocr" \/ kind = "address"
    BY <2>1, <2>3, <1>5 DEF RequestFails, End
  <2>. QED  BY <2>2, <2>3
<1>17. CASE Row
  <2>1. stage = "reading" /\ order.source = "huggingface" /\ UNCHANGED <<order, served, found>>
        /\ next <= Len(served) /\ ~LimitReached
    BY <1>17 DEF Row
  <2>2. next \in 1..Len(served) /\ next \in Nat
    BY <1>1, <2>1 DEF ImportTypes
  <2>3. RowsFit /\ ImagesFit
    BY <1>1, <2>1 DEF BuiltSoFar
  <2>4. CASE /\ Numbered(next).image \in {"no row", "big"} /\ next' = next + 1
             /\ UNCHANGED <<stage, images, texts, documents>>
    <3>1. ImagesFit'
      BY <2>1, <2>3, <2>4, ImagesStay
    <3>2. served[next].image \in {"no row", "big"}
      BY <2>4 DEF Numbered
    <3>3. ASSUME NEW j \in DOMAIN served, j < next + 1
          PROVE  \/ \E i \in DOMAIN documents : documents[i].of = j
                 \/ served[j].image \in {"no row", "big"}
      <4>1. j < next \/ j = next
        <5>1. j \in Nat
          BY <1>1 DEF ImportTypes
        <5>. QED  BY <5>1, <2>2, <3>3
      <4>. QED  BY <4>1, <3>2, <2>3 DEF RowsFit
    <3>4. \A i \in DOMAIN documents : documents[i].of < next + 1
      <4>1. \A i \in DOMAIN documents : documents[i].of < next /\ documents[i].of \in Nat
        BY <1>1, <2>3, DocumentsTyped DEF RowsFit
      <4>. QED  BY <4>1, <2>2
    <3>5. Len(documents) < next + 1
      <4>1. Len(documents) < next
        BY <2>3 DEF RowsFit
      <4>2. Len(documents) \in Nat
        BY <1>1 DEF ImportTypes
      <4>. QED  BY <4>1, <4>2, <2>2
    <3>6. RowsFit'
      BY <2>1, <2>3, <2>4, <3>3, <3>4, <3>5 DEF RowsFit
    <3>. QED  BY <2>1, <2>4, <3>1, <3>6 DEF BuiltSoFar, Fetching
  <2>5. CASE stage' = "refused"
    BY <2>5, <1>5
  <2>6. CASE /\ images' = [images EXCEPT ![Len(documents) + 1] = Numbered(next).of]
             /\ Build(Numbered(next), Len(documents) + 1,
                      IF Numbered(next).text = "some" THEN Numbered(next).of ELSE 0)
             /\ UNCHANGED stage
    <3>. DEFINE text == IF Numbered(next).text = "some" THEN Numbered(next).of ELSE 0
    <3>1. text \in Nat
      BY <2>2 DEF Numbered
    <3>. HIDE DEF text
    <3>2. Build(Numbered(next), Len(documents) + 1, text) /\ UNCHANGED <<order, served, stage>>
      BY <2>1, <2>6 DEF text
    <3>3. RowsFit' /\ ImagesFit'
      BY <1>1, <2>1, <2>2, <2>3, <2>6, <3>1, <3>2, RowsFit_build
    <3>. QED  BY <2>1, <2>6, <3>3 DEF BuiltSoFar, Fetching
  <2>. QED  BY <2>4, <2>5, <2>6, <1>17 DEF Row, End
<1>18. CASE Layout
  <2>1. stage = "reading" /\ order.source = "curated" /\ UNCHANGED order
    BY <1>18 DEF Layout
  <2>2. CASE stage' = "refused"
    BY <2>2, <1>5
  <2>3. CASE /\ documents' = [i \in DOMAIN served |-> [id |-> EntryId(i), of |-> i, text |-> TRUE]]
             /\ UNCHANGED <<served, stage>>
    <3>1. DOMAIN served = 1..Len(served)
      BY <1>1 DEF ImportTypes
    <3>2. EntriesFit'
      BY <2>3, <3>1 DEF EntriesFit
    <3>. QED  BY <2>1, <2>3, <3>2 DEF BuiltSoFar, Fetching
  <2>. QED  BY <2>2, <2>3, <1>18 DEF Layout, End
<1>19. CASE \E outcome \in Outcomes : LibraryFails(outcome)
  <2>1. stage' \in {"refused", "error", "unavailable"}
    BY <1>19 DEF LibraryFails, End
  <2>. QED  BY <2>1, <1>5
<1>20. CASE Specify
  <2>1. UNCHANGED <<order, served, found, next, images, texts, documents>>
    BY <1>20 DEF Specify
  <2>2. \/ stage' \in {"refused", "error"}
        \/ stage' = "corpus" /\ documents # <<>> /\ UniqueIds
    BY <1>20 DEF Specify, End
  <2>3. CASE stage' = "corpus" /\ stage = "fetching" /\ next > Len(found)
    <3>1. Delivered
      BY <1>1, <2>2, <2>3, Delivered_fetched DEF BuiltSoFar, Fetching
    <3>. QED  BY <2>1, <2>3, <3>1, BuiltStays DEF BuiltSoFar, Fetching
  <2>4. CASE stage' = "corpus" /\ stage = "reading"
    <3>1. Delivered
      BY <1>1, <2>2, <2>4, Delivered_rows, Delivered_entries DEF BuiltSoFar
    <3>. QED  BY <2>1, <2>4, <3>1, BuiltStays DEF BuiltSoFar, Fetching
  <2>. QED  BY <2>2, <2>3, <2>4, <1>5, <1>20 DEF Specify
<1>21. CASE UNCHANGED importVars
  BY <1>21, <1>3 DEF importVars
<1>. QED
  BY <1>2, <1>4, <1>6, <1>7, <1>9, <1>10, <1>11, <1>12, <1>13, <1>15, <1>16, <1>17, <1>18,
     <1>19, <1>20, <1>21 DEF ImportNext

LEMMA ImportInv_step == ImportInv /\ [ImportNext]_importVars => ImportInv'
  BY ImportTypes_step, RequestsFit_step, SearchFits_step, PartialFits_step, TextsFit_step,
     BuiltSoFar_step DEF ImportInv

\* An import that gives a corpus gives a document per item it can use, with the
\* image and the text of this very item, whatever the source serves, and the
\* token of the caller stays home, for any numbers of items, of parts of a page
\* and of redirections.
THEOREM ImportsAreFaithful == ImportSpec => []ImportIsFaithful
<1>1. ImportInit => ImportInv
  BY ImportInv_init
<1>2. ImportInv /\ [ImportNext]_importVars => ImportInv'
  BY ImportInv_step
<1>3. ImportInv => ImportIsFaithful
  BY ImportInv_faithful
<1>. QED  BY <1>1, <1>2, <1>3, PTL DEF ImportSpec

-----------------------------------------------------------------------------
(* The stream of events.                                                   *)

\* The events in flight are those between the last one the browser received
\* and the last one that was yielded.
InFlight ==
  /\ client = "open" => /\ lastId + Len(wire) = sent
                        /\ \A i \in 1 .. Len(wire) : wire[i] = lastId + i
  /\ server = "yielding" => sent <= upto
  /\ server # "none" => client = "open"

SseInv == TypeOK /\ log # <<>> /\ InFlight /\ EndsAfterTerminalEvent

LEMMA SseInv_init == Init => SseInv
<1> SUFFICES ASSUME Init PROVE SseInv
  OBVIOUS
<1>1. log \in Seq(Job!Snapshot) /\ Len(log) = 1 /\ log # <<>>
  BY SseAssumption DEF Init, Job!Snapshot, Job!JobState
<1>2. wire \in Seq(1 .. Len(log))
  BY DEF Init
<1>3. TypeOK
  BY <1>1, <1>2, SseAssumption DEF Init, TypeOK, Job!TypeOK
<1>4. QED
  BY <1>1, <1>3 DEF Init, SseInv, InFlight, EndsAfterTerminalEvent

\* What publishing does to the journal.
LEMMA LogGrows ==
  ASSUME Job!TypeOK, Job!Next
  PROVE  /\ Job!TypeOK' /\ log' # <<>> /\ Len(log') = Len(log) + 1
         /\ ~Job!Over
<1> USE DEF Job!TypeOK
<1>0. log \in Seq(Job!Snapshot) /\ Len(log) \in Nat
  OBVIOUS
<1>1. ASSUME NEW s \in Job!JobState, NEW n \in 0 .. Units, Job!Publish(s, n)
      PROVE  Job!TypeOK' /\ log' # <<>> /\ Len(log') = Len(log) + 1
  <2>1. [state |-> s, done |-> n] \in Job!Snapshot
    BY DEF Job!Snapshot
  <2>2. QED
    BY <1>0, <1>1, <2>1 DEF Job!Publish
<1>2. CASE Job!Create
  BY <1>1, <1>2, SseAssumption DEF Job!Create, Job!JobState, Job!Over
<1>3. ASSUME log # <<>>, Job!Current.state \in {"pending", "running"}
      PROVE  ~Job!Over /\ Job!Current \in Job!Snapshot
  BY <1>0, <1>3 DEF Job!Over, Job!Terminal, Job!Current
<1>4. CASE Job!Start
  BY <1>1, <1>3, <1>4, SseAssumption DEF Job!Start, Job!Is, Job!JobState
<1>5. CASE Job!Advance
  <2>1. Job!Current.done \in 0 .. Units /\ Job!Current.done < Units
    BY <1>3, <1>5 DEF Job!Advance, Job!Is, Job!Snapshot
  <2>2. Job!Current.done + 1 \in 0 .. Units
    BY <2>1, SseAssumption
  <2>3. QED
    BY <1>1, <1>3, <1>5, <2>2 DEF Job!Advance, Job!Is, Job!JobState
<1>6. ASSUME NEW s \in Job!Terminal, Job!Finish(s)
      PROVE  Job!TypeOK' /\ log' # <<>> /\ Len(log') = Len(log) + 1 /\ ~Job!Over
  <2>1. Job!Current.done \in 0 .. Units
    BY <1>3, <1>6 DEF Job!Finish, Job!Is, Job!Snapshot
  <2>2. QED
    BY <1>1, <1>3, <1>6, <2>1 DEF Job!Finish, Job!Is, Job!Terminal, Job!JobState
<1>7. QED
  BY <1>2, <1>4, <1>5, <1>6 DEF Job!Next, Job!Proceed

LEMMA SeqGrows ==
  ASSUME NEW m \in Nat, NEW n \in Nat, m <= n, NEW s \in Seq(1 .. m)
  PROVE  s \in Seq(1 .. n)
<1>1. s \in [1 .. Len(s) -> 1 .. n] /\ Len(s) \in Nat
  BY LenProperties
<1>2. QED
  BY <1>1, SeqDef

LEMMA SseInv_job == ASSUME SseInv, JobStep PROVE SseInv'
<1> USE DEF SseInv
<1>1. /\ Job!TypeOK' /\ log' # <<>> /\ Len(log') = Len(log) + 1 /\ ~Job!Over
      /\ UNCHANGED <<known, server, sent, upto, wire, client, lastId, cuts, restarts>>
  BY LogGrows DEF JobStep, TypeOK, streamVars, clientVars
<1>2. Len(log) \in Nat
  BY DEF TypeOK, Job!TypeOK
<1>3. wire' \in Seq(1 .. Len(log'))
  BY <1>1, <1>2, SeqGrows DEF TypeOK
<1>4. sent \in 0 .. Len(log') /\ upto \in 0 .. Len(log') /\ lastId \in 0 .. Len(log')
  BY <1>1, <1>2 DEF TypeOK
<1>5. TypeOK'
  BY <1>1, <1>3, <1>4 DEF TypeOK
<1>6. server # "endclosed"
  BY <1>1 DEF EndsAfterTerminalEvent
<1>7. QED
  BY <1>1, <1>5, <1>6 DEF InFlight, EndsAfterTerminalEvent

\* What the server does.
LEMMA SseInv_server == ASSUME SseInv, ServerStep PROVE SseInv'
<1> USE DEF SseInv
<1>0. Len(log) \in Nat /\ sent \in Nat /\ upto \in Nat /\ lastId \in Nat
      /\ wire \in Seq(1 .. Len(log)) /\ Len(wire) \in Nat
  BY DEF TypeOK, Job!TypeOK
<1>1. CASE ReadHistory
  <2>1. TypeOK'
    BY <1>0, <1>1 DEF ReadHistory, TypeOK, Job!TypeOK, clientVars
  <2>2. InFlight' /\ EndsAfterTerminalEvent'
    BY <1>0, <1>1 DEF ReadHistory, InFlight, EndsAfterTerminalEvent, TypeOK, clientVars
  <2>3. QED
    BY <1>1, <2>1, <2>2 DEF ReadHistory
<1>2. CASE YieldEvent
  <2>1. UNCHANGED <<log, known, upto, client, lastId, cuts, restarts>> /\ server = "yielding"
    BY <1>2 DEF YieldEvent, clientVars
  <2>2. CASE sent < upto
    <3>1. sent' = sent + 1 /\ wire' = Append(wire, sent + 1) /\ server' = server
      BY <1>2, <2>2 DEF YieldEvent, FirstMissed
    <3>2. sent + 1 \in 1 .. Len(log) /\ upto <= Len(log)
      BY <1>0, <2>2 DEF TypeOK
    <3>3. /\ wire' \in Seq(1 .. Len(log)) /\ Len(wire') = Len(wire) + 1
          /\ \A i \in 1 .. Len(wire) : wire'[i] = wire[i]
          /\ wire'[Len(wire) + 1] = sent + 1
      BY <1>0, <3>1, <3>2, AppendProperties
    <3>4. TypeOK'
      BY <1>0, <2>1, <3>1, <3>2, <3>3 DEF TypeOK, Job!TypeOK
    <3>5. client = "open" => lastId + Len(wire) = sent
                             /\ \A i \in 1 .. Len(wire) : wire[i] = lastId + i
      BY DEF InFlight
    <3>6. client = "open" => lastId + Len(wire') = sent'
                             /\ \A i \in 1 .. Len(wire') : wire'[i] = lastId + i
      <4>1. ASSUME client = "open", NEW i \in 1 .. Len(wire'), i # Len(wire) + 1
            PROVE  i \in 1 .. Len(wire)
        BY <1>0, <3>3, <4>1
      <4>2. ASSUME client = "open", NEW i \in 1 .. Len(wire') PROVE wire'[i] = lastId + i
        <5>1. CASE i = Len(wire) + 1
          BY <1>0, <3>3, <3>5, <4>2, <5>1
        <5>2. CASE i # Len(wire) + 1
          BY <3>3, <3>5, <4>1, <4>2, <5>2
        <5>3. QED
          BY <5>1, <5>2
      <4>3. ASSUME client = "open" PROVE lastId + Len(wire') = sent'
        <5>1. lastId + Len(wire) = sent
          BY <3>5, <4>3
        <5>2. Len(wire') = Len(wire) + 1 /\ sent' = sent + 1
          BY <3>1, <3>3
        <5>3. QED
          BY <1>0, <5>1, <5>2
      <4>4. QED
        BY <4>2, <4>3
    <3>7. InFlight'
      BY <1>0, <2>1, <2>2, <3>1, <3>6 DEF InFlight
    <3>8. QED
      BY <2>1, <3>1, <3>4, <3>7 DEF EndsAfterTerminalEvent
  <2>3. CASE ~(sent < upto)
    <3>1. server' = "checking" /\ UNCHANGED <<sent, wire>>
      BY <1>2, <2>3 DEF YieldEvent
    <3>2. QED
      BY <2>1, <3>1 DEF TypeOK, Job!TypeOK, InFlight, EndsAfterTerminalEvent
  <2>4. QED
    BY <2>2, <2>3
<1>3. CASE CheckState
  <2>1. /\ UNCHANGED <<log, known, sent, upto, wire, client, lastId, cuts, restarts>>
        /\ server = "checking"
        /\ \/ Job!Over /\ Len(log) = sent /\ server' = "endclosed"
           \/ server' \in {"reading", "idleclosed"}
    BY <1>3 DEF CheckState, NothingLeft, clientVars
  <2>2. TypeOK' /\ InFlight'
    BY <2>1 DEF TypeOK, Job!TypeOK, InFlight
  <2>3. EndsAfterTerminalEvent'
    BY <2>1 DEF EndsAfterTerminalEvent, Job!Over, Job!Current
  <2>4. QED
    BY <2>1, <2>2, <2>3
<1>4. QED
  BY <1>1, <1>2, <1>3 DEF ServerStep

\* An event is dispatched: it is the next one.
LEMMA ReceivesNext ==
  ASSUME SseInv, Receive
  PROVE  lastId' = lastId + 1 /\ lastId' \in 1 .. Len(log)
<1>1. client = "open" /\ wire # <<>> /\ wire \in Seq(1 .. Len(log)) /\ lastId' = Head(wire)
  BY DEF SseInv, Receive, TypeOK
<1>2. Head(wire) = wire[1] /\ 1 \in 1 .. Len(wire) /\ Head(wire) \in 1 .. Len(log)
  BY <1>1, HeadTailProperties, EmptySeq, LenProperties
<1>3. QED
  BY <1>1, <1>2 DEF SseInv, InFlight

LEMMA SseInv_client ==
  ASSUME SseInv, Connect \/ Receive \/ EndOfStream \/ Cut \/ Restart
  PROVE  SseInv'
<1> USE DEF SseInv
<1>0. /\ Len(log) \in Nat /\ sent \in Nat /\ lastId \in 0 .. Len(log)
      /\ wire \in Seq(1 .. Len(log)) /\ Len(wire) \in Nat
      /\ \A n \in Nat : <<>> \in Seq(1 .. n)
  BY DEF TypeOK, Job!TypeOK
<1>1. CASE Connect
  <2>1. TypeOK'
    BY <1>0, <1>1 DEF Connect, ResumeAfter, TypeOK, Job!TypeOK, streamVars
  <2>2. InFlight' /\ EndsAfterTerminalEvent'
    BY <1>0, <1>1 DEF Connect, ResumeAfter, InFlight, EndsAfterTerminalEvent, streamVars
  <2>3. QED
    BY <1>1, <2>1, <2>2 DEF Connect
<1>2. CASE Receive
  <2>1. /\ lastId' = lastId + 1 /\ lastId' \in 1 .. Len(log) /\ wire' = Tail(wire)
        /\ wire # <<>> /\ client = "open"
        /\ UNCHANGED <<log, known, sent, upto, cuts, restarts>>
        /\ \/ client' = "finished" /\ server' = "none"
           \/ UNCHANGED <<client, server>>
    BY <1>2, ReceivesNext DEF Receive
  <2>2. /\ Tail(wire) \in Seq(1 .. Len(log)) /\ Len(Tail(wire)) = Len(wire) - 1
        /\ \A i \in 1 .. Len(Tail(wire)) : Tail(wire)[i] = wire[i + 1]
    BY <1>0, <2>1, HeadTailProperties
  <2>3. TypeOK'
    BY <1>0, <2>1, <2>2 DEF TypeOK, Job!TypeOK
  <2>4. lastId' + Len(wire') = sent /\ \A i \in 1 .. Len(wire') : wire'[i] = lastId' + i
    <3>1. lastId + Len(wire) = sent /\ \A k \in 1 .. Len(wire) : wire[k] = lastId + k
      BY <2>1 DEF InFlight
    <3>2. ASSUME NEW i \in 1 .. Len(Tail(wire)) PROVE Tail(wire)[i] = lastId + 1 + i
      <4>1. i + 1 \in 1 .. Len(wire) /\ Tail(wire)[i] = wire[i + 1]
        BY <1>0, <2>2
      <4>2. wire[i + 1] = lastId + (i + 1)
        BY <3>1, <4>1
      <4>3. QED
        BY <1>0, <4>1, <4>2
    <3>3. lastId + 1 + Len(Tail(wire)) = sent
      BY <1>0, <2>2, <3>1
    <3>4. QED
      BY <2>1, <3>2, <3>3
  <2>5. InFlight'
    BY <2>1, <2>4 DEF InFlight
  <2>6. EndsAfterTerminalEvent'
    BY <2>1 DEF EndsAfterTerminalEvent, Job!Over, Job!Current
  <2>7. QED
    BY <2>1, <2>3, <2>5, <2>6
<1>3. CASE EndOfStream \/ Cut
  <2>1. /\ client' = "connecting" /\ server' = "none" /\ wire' = <<>>
        /\ UNCHANGED <<log, known, sent, upto, lastId, restarts>>
        /\ cuts' = cuts \/ (cuts < MaxCuts /\ cuts' = cuts + 1)
    BY <1>3 DEF EndOfStream, Cut, Reconnect
  <2>2. cuts' \in 0 .. MaxCuts
    BY <2>1, SseAssumption DEF TypeOK
  <2>3. TypeOK'
    BY <1>0, <2>1, <2>2 DEF TypeOK, Job!TypeOK
  <2>4. QED
    BY <2>1, <2>3 DEF InFlight, EndsAfterTerminalEvent
<1>4. CASE Restart
  <2>1. restarts' \in 0 .. MaxRestarts /\ cuts' = cuts
    BY <1>4, SseAssumption DEF Restart, TypeOK
  <2>2. TypeOK'
    BY <1>0, <1>4, <2>1 DEF Restart, TypeOK, Job!TypeOK
  <2>3. InFlight' /\ EndsAfterTerminalEvent'
    BY <1>4 DEF Restart, InFlight, EndsAfterTerminalEvent
  <2>4. QED
    BY <1>4, <2>2, <2>3 DEF Restart
<1>5. QED
  BY <1>1, <1>2, <1>3, <1>4

LEMMA SseInv_step == SseInv /\ [Next]_vars => SseInv'
<1> SUFFICES ASSUME SseInv, [Next]_vars PROVE SseInv'
  OBVIOUS
<1>1. CASE UNCHANGED vars
  BY <1>1 DEF vars, streamVars, clientVars, SseInv, TypeOK, Job!TypeOK, InFlight,
              EndsAfterTerminalEvent, Job!Over, Job!Current
<1>2. QED
  BY <1>1, SseInv_job, SseInv_server, SseInv_client DEF Next, ClientStep, Served

\* The server ends a stream only after the terminal event (_sse_stream), for
\* any number of events, cuts and restarts.
THEOREM StreamsEndLast == Spec => []EndsAfterTerminalEvent
<1>1. SseInv => EndsAfterTerminalEvent
  BY DEF SseInv
<1>2. QED
  BY <1>1, SseInv_init, SseInv_step, PTL DEF Spec

\* The browser receives the journal without a gap, a repetition or a swap
\* (_sse_stream resumes after Last-Event-ID), over all its connections.
THEOREM BrowserSeesTheJournal == Spec => EventsInSequence
<1>1. SseInv /\ [Next]_vars => [lastId' # lastId => lastId' = lastId + 1]_vars
  <2> SUFFICES ASSUME SseInv, [Next]_vars, lastId' # lastId PROVE lastId' = lastId + 1
    OBVIOUS
  <2>1. CASE Receive
    BY <2>1, ReceivesNext
  <2>2. CASE ~Receive
    BY <2>2 DEF Next, JobStep, ServerStep, ReadHistory, YieldEvent, CheckState, ClientStep,
                Connect, EndOfStream, Cut, Reconnect, Restart, Served, vars, clientVars
  <2>3. QED
    BY <2>1, <2>2
<1>2. QED
  BY <1>1, SseInv_init, SseInv_step, PTL DEF Spec, EventsInSequence

=============================================================================
