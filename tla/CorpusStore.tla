----------------------------- MODULE CorpusStore -----------------------------
(***************************************************************************)
(* The corpora of the web application (cinoc.app.corpus_upload): archives  *)
(* that are uploaded, corpora imported from a distant source               *)
(* (cinoc.app.corpus_import) through downloads (cinoc.adapters.corpus      *)
(* ._http.download), their deletion, and the runs that read them.          *)
(*                                                                         *)
(* Each request is served by a thread of its own.  The registry is in      *)
(* memory, behind a lock that no thread holds while it works on the disk.  *)
(* A corpus has the name of the request that creates it (a fresh uuid in   *)
(* the code); its files, images and texts, are numbered.                   *)
(*                                                                         *)
(* The code removes directories with rmtree(ignore_errors=True): what the  *)
(* disk refuses to remove stays there, and nobody is told.  Here removals  *)
(* succeed; nothing said of the directories left holds otherwise.          *)
(***************************************************************************)
EXTENDS Naturals, FiniteSets

CONSTANTS
  Makers,    \* requests that create a corpus, and the corpora they create
  Deleters,  \* requests that delete one
  Readers,   \* runs that resolve one and read its files
  NFiles     \* files of a corpus

ASSUME CorpusAssumption == NFiles \in Nat \ {0}

VARIABLES
  registry,  \* the corpora a request finds
  dir,       \* the corpora whose directory exists
  files,     \* files[c][f]: "absent", "torn" or "whole"
  part,      \* part[c]: the file whose download is in its .part, or 0
  maker,     \* maker[c]: [pc, kind, next]
  deleter,   \* deleter[k]: [pc, of]
  reader     \* reader[r]: [pc, of, next]

corpusVars == <<registry, dir, files, part, maker, deleter, reader>>

Files == 1..NFiles
NoFiles == [f \in Files |-> "absent"]

Making   == {"building", "writing", "downloading", "raising", "built"}
NoCorpus == "no corpus"

CorpusInit ==
  /\ registry = {}
  /\ dir = {}
  /\ files = [c \in Makers |-> NoFiles]
  /\ part = [c \in Makers |-> 0]
  /\ maker = [c \in Makers |-> [pc |-> "idle", kind |-> "upload", next |-> 1]]
  /\ deleter = [k \in Deleters |-> [pc |-> "idle", of |-> NoCorpus]]
  /\ reader = [r \in Readers |-> [pc |-> "idle", of |-> NoCorpus, next |-> 1]]

Goto(c, label) == maker' = [maker EXCEPT ![c].pc = label]

-----------------------------------------------------------------------------
(* Creations: save (upload) and materialize (import).                      *)

\* An archive that is too big, empty or no ZIP is rejected before its
\* directory is made; an import makes the directory, then asks the source.
BeginCorpus(c, kind) ==
  /\ maker[c].pc = "idle"
  /\ \/ kind = "upload" /\ Goto(c, "rejected") /\ UNCHANGED dir
     \/ /\ dir' = dir \union {c}
        /\ maker' = [maker EXCEPT ![c].pc = "building", ![c].kind = kind]
  /\ UNCHANGED <<registry, files, part, deleter, reader>>

\* write_bytes, write_text: the file is there before its content.
OpenFile(c) ==
  /\ maker[c].pc = "building" /\ maker[c].next <= NFiles
  /\ files' = [files EXCEPT ![c][maker[c].next] = "torn"]
  /\ Goto(c, "writing")
  /\ UNCHANGED <<registry, dir, part, deleter, reader>>

WriteFile(c) ==
  /\ maker[c].pc = "writing"
  /\ files' = [files EXCEPT ![c][maker[c].next] = "whole"]
  /\ maker' = [maker EXCEPT ![c].pc = "building", ![c].next = @ + 1]
  /\ UNCHANGED <<registry, dir, part, deleter, reader>>

\* download: the bytes go to a .part file, which then replaces the image.
OpenPart(c) ==
  /\ maker[c].pc = "building" /\ maker[c].kind = "import" /\ maker[c].next <= NFiles
  /\ part' = [part EXCEPT ![c] = maker[c].next]
  /\ Goto(c, "downloading")
  /\ UNCHANGED <<registry, dir, files, deleter, reader>>

ReplaceByPart(c) ==
  /\ maker[c].pc = "downloading"
  /\ files' = [files EXCEPT ![c][maker[c].next] = "whole"]
  /\ part' = [part EXCEPT ![c] = 0]
  /\ maker' = [maker EXCEPT ![c].pc = "building", ![c].next = @ + 1]
  /\ UNCHANGED <<registry, dir, deleter, reader>>

\* The source, the network, the disk or an entry of the archive fails; a .part
\* is removed.  materialize goes on to clean up; save lets the error out, and
\* the directory stays.
BuildFails(c) ==
  /\ maker[c].pc \in {"building", "writing", "downloading"}
  /\ part' = [part EXCEPT ![c] = 0]
  /\ Goto(c, IF maker[c].kind = "import" THEN "raising" ELSE "rejected")
  /\ UNCHANGED <<registry, dir, files, deleter, reader>>

\* Mutation: only ordinary errors are cleaned up, not an interruption.
CleanUpErrors(c) ==
  /\ maker[c].pc = "raising"
  /\ \/ /\ dir' = dir \ {c}
        /\ files' = [files EXCEPT ![c] = NoFiles]
     \/ UNCHANGED <<dir, files>>
  /\ Goto(c, "rejected")
  /\ UNCHANGED <<registry, part, deleter, reader>>

\* except BaseException: rmtree, on a directory nobody else knows.
CleanUp(c) ==
  /\ maker[c].pc = "raising"
  /\ dir' = dir \ {c}
  /\ files' = [files EXCEPT ![c] = NoFiles]
  /\ Goto(c, "rejected")
  /\ UNCHANGED <<registry, part, deleter, reader>>

\* The documents are paired: the specification is returned.
BuildReturns(c) ==
  /\ maker[c].pc = "building" /\ maker[c].next > NFiles
  /\ Goto(c, "built")
  /\ UNCHANGED <<registry, dir, files, part, deleter, reader>>

Register(c) ==
  /\ maker[c].pc = "built"
  /\ registry' = registry \union {c}
  /\ Goto(c, "registered")
  /\ UNCHANGED <<dir, files, part, deleter, reader>>

-----------------------------------------------------------------------------
(* Deletions.                                                              *)

\* Mutation: the registry keeps the corpus whose directory is removed.
DeleteLater(k, c) ==
  /\ deleter[k].pc = "idle"
  /\ deleter' = [deleter EXCEPT ![k] =
       [pc |-> IF c \in registry THEN "removing" ELSE "not found", of |-> c]]
  /\ UNCHANGED <<registry, dir, files, part, maker, reader>>

\* pop, under the lock: one request only finds the corpus.
Delete(k, c) ==
  /\ deleter[k].pc = "idle"
  /\ deleter' = [deleter EXCEPT ![k] =
       [pc |-> IF c \in registry THEN "removing" ELSE "not found", of |-> c]]
  /\ registry' = registry \ {c}
  /\ UNCHANGED <<dir, files, part, maker, reader>>

\* rmtree, without the lock, file after file.
RemoveFile(k, f) ==
  /\ deleter[k].pc = "removing" /\ files[deleter[k].of][f] # "absent"
  /\ files' = [files EXCEPT ![deleter[k].of][f] = "absent"]
  /\ UNCHANGED <<registry, dir, part, maker, deleter, reader>>

RemoveDir(k) ==
  /\ deleter[k].pc = "removing" /\ files[deleter[k].of] = NoFiles
  /\ dir' = dir \ {deleter[k].of}
  /\ deleter' = [deleter EXCEPT ![k].pc = "deleted"]
  /\ UNCHANGED <<registry, files, part, maker, reader>>

-----------------------------------------------------------------------------
(* Runs: get, then the files of the specification, one after the other.    *)

Resolve(r, c) ==
  /\ reader[r].pc = "idle"
  /\ reader' = [reader EXCEPT ![r].pc = IF c \in registry THEN "reading" ELSE "not found",
                              ![r].of = c]
  /\ UNCHANGED <<registry, dir, files, part, maker, deleter>>

ReadFile(r) ==
  /\ reader[r].pc = "reading" /\ reader[r].next <= NFiles
  /\ reader' = [reader EXCEPT
       ![r].pc = IF files[reader[r].of][reader[r].next] = "whole" THEN "reading"
                                                                  ELSE "missing",
       ![r].next = @ + 1]
  /\ UNCHANGED <<registry, dir, files, part, maker, deleter>>

-----------------------------------------------------------------------------
CorpusNext ==
  \/ \E c \in Makers :
       \/ \E kind \in {"upload", "import"} : BeginCorpus(c, kind)
       \/ OpenFile(c) \/ WriteFile(c) \/ OpenPart(c) \/ ReplaceByPart(c)
       \/ BuildFails(c) \/ CleanUp(c) \/ BuildReturns(c) \/ Register(c)
  \/ \E k \in Deleters, c \in Makers : Delete(k, c)
  \/ \E k \in Deleters, f \in Files : RemoveFile(k, f)
  \/ \E k \in Deleters : RemoveDir(k)
  \/ \E r \in Readers, c \in Makers : Resolve(r, c)
  \/ \E r \in Readers : ReadFile(r)

CorpusSpec == CorpusInit /\ [][CorpusNext]_corpusVars

-----------------------------------------------------------------------------
FileState   == {"absent", "torn", "whole"}
MakerPc     == Making \union {"idle", "rejected", "registered"}
MakerType   == [pc : MakerPc, kind : {"upload", "import"}, next : 1..(NFiles + 1)]
DeleterType == [pc : {"idle", "removing", "deleted", "not found"},
                of : Makers \union {NoCorpus}]
ReaderType  == [pc : {"idle", "reading", "missing", "not found"},
                of : Makers \union {NoCorpus}, next : 1..(NFiles + 1)]

CorpusTypeOK ==
  /\ registry \subseteq Makers
  /\ dir \subseteq Makers
  /\ files \in [Makers -> [Files -> FileState]]
  /\ part \in [Makers -> 0..NFiles]
  /\ maker \in [Makers -> MakerType]
  /\ deleter \in [Deleters -> DeleterType]
  /\ reader \in [Readers -> ReaderType]

Removed(c) == \E k \in Deleters : deleter[k].pc = "removing" /\ deleter[k].of = c
Rejected(c) == maker[c].pc = "rejected" /\ maker[c].kind = "upload"

\* The corpora that requests find are whole on the disk, a run that misses a
\* file of its corpus is one whose corpus was deleted meanwhile, and a
\* directory belongs to a corpus that is found, being made or being removed:
\* imports that fail and deletions leave nothing that the disk lets them
\* remove.  (Archives that are rejected
\* while they are extracted do: README, section 6.)
DiskMatchesRegistry ==
  /\ \A c \in registry : c \in dir /\ \A f \in Files : files[c][f] = "whole"
  /\ \A r \in Readers : reader[r].pc = "missing" => reader[r].of \notin registry
  /\ \A c \in dir : \/ c \in registry \/ maker[c].pc \in Making
                    \/ Removed(c) \/ Rejected(c)
  /\ \A c \in Makers : c \notin dir => files[c] = NoFiles /\ part[c] = 0
=============================================================================
