----------------------------- MODULE ResumeStore -----------------------------
(***************************************************************************)
(* The resume store of the command line (cinoc.app.resume), for one unit   *)
(* of one process: successive runs plan the unit, reload it or execute it, *)
(* and save it, while the process may die at any step, a write may fail,   *)
(* the user may replace the image, and files of the store may be lost      *)
(* between two runs.                                                       *)
(*                                                                         *)
(* The files of a store outlive the process.  A file is torn once it is    *)
(* opened for writing, until all of it is written.  The output of the unit *)
(* is named by the image it was computed from (execution is taken as       *)
(* deterministic), and the key of the unit is its image: code version,     *)
(* pipeline and parameters enter the key in the same way.                  *)
(***************************************************************************)
EXTENDS Naturals

CONSTANTS
  Images,  \* the contents the image file may have
  Types    \* the artifact types the pipeline outputs

Nothing == "none"
Half == "torn"

ASSUME ResumeAssumption == {Nothing, Half} \intersect Images = {}

VARIABLES
  image,  \* the image file of the document
  index,  \* index[k]: Nothing, Half or "whole", index.json of the entry k
  file,   \* file[k][t]: Nothing, Half or an output, the copy of artifact t
  savePc,     \* where the run is
  key,    \* the key it computed
  out,    \* what the execution gave
  todo,   \* types still to copy
  cur,    \* the type being copied
  got,    \* what the evaluation read in a reloaded entry
  moved   \* entries that lost a file, or whose image was replaced before the
          \* unit was executed, and not whole again since (a witness: the
          \* program does not keep it)

storeVars == <<image, index, file, savePc, key, out, todo, cur, got, moved>>
store == <<index, file>>
local == <<key, out, todo, cur, got>>
world == <<image, moved>>

StoreInit ==
  /\ image \in Images
  /\ index = [k \in Images |-> Nothing]
  /\ file = [k \in Images |-> [t \in Types |-> Nothing]]
  /\ savePc = "idle" /\ key = Nothing /\ out = Nothing
  /\ todo = {} /\ cur = Nothing
  /\ got = [t \in Types |-> Nothing]
  /\ moved = {}

\* ResumeStore.load: the index parses, and each file it names is there.
Loads(k) == index[k] = "whole" /\ \A t \in Types : file[k][t] # Nothing

\* Mutation: the store is written, never read.
PlanAnew ==
  /\ savePc = "idle"
  /\ key' = image
  /\ savePc' = "pending"
  /\ UNCHANGED <<world, store, out, todo, cur, got>>

\* run, planning: the key is computed, the entry is reloaded or the unit is
\* queued.
Plan ==
  /\ savePc = "idle"
  /\ key' = image
  /\ savePc' = IF Loads(image) THEN "reloaded" ELSE "pending"
  /\ UNCHANGED <<world, store, out, todo, cur, got>>

\* The evaluation reads the files of the reloaded artifacts.
Evaluate ==
  /\ savePc = "reloaded"
  /\ got' = file[key]
  /\ savePc' = "evaluated"
  /\ UNCHANGED <<world, store, key, out, todo, cur>>

\* The execution reads the image again; a unit that fails is not saved.
Execute ==
  /\ savePc = "pending"
  /\ \/ out' = image /\ todo' = Types /\ savePc' = "saving"
     \/ savePc' = "failed" /\ UNCHANGED <<out, todo>>
  /\ UNCHANGED <<world, store, key, cur, got>>

\* save: shutil.copyfile of each artifact, in the order of the mapping.
CopyOpens ==
  /\ savePc = "saving"
  /\ \E t \in todo :
       /\ cur' = t
       /\ file' = [file EXCEPT ![key][t] = Half]
  /\ savePc' = "copying"
  /\ UNCHANGED <<world, index, key, out, todo, got>>

CopyWrites ==
  /\ savePc = "copying"
  /\ file' = [file EXCEPT ![key][cur] = out]
  /\ todo' = todo \ {cur}
  /\ savePc' = "saving"
  /\ UNCHANGED <<world, index, key, out, cur, got>>

\* Mutation: the index does not wait for the copies.
MayIndexEarly == TRUE

\* The index is written once everything is copied.
MayIndex == todo = {}

IndexOpens ==
  /\ savePc = "saving" /\ MayIndex
  /\ index' = [index EXCEPT ![key] = Half]
  /\ savePc' = "indexing"
  /\ UNCHANGED <<world, file, local>>

IndexWrites ==
  /\ savePc = "indexing"
  /\ index' = [index EXCEPT ![key] = "whole"]
  /\ savePc' = "saved"
  /\ moved' = IF out = key THEN moved \ {key} ELSE moved
  /\ UNCHANGED <<image, file, local>>

\* An OSError anywhere in save is logged; the run goes on.
SaveFails ==
  /\ savePc \in {"saving", "copying", "indexing"}
  /\ savePc' = "failed"
  /\ UNCHANGED <<world, store, local>>

Forget ==
  /\ savePc' = "idle" /\ key' = Nothing /\ out' = Nothing
  /\ todo' = {} /\ cur' = Nothing
  /\ got' = [t \in Types |-> Nothing]
  /\ UNCHANGED <<world, store>>

RunEnds == savePc \in {"evaluated", "saved", "failed"} /\ Forget

\* The process dies, or the run is cancelled, with what it held.
Crash == savePc # "idle" /\ Forget

EditImage ==
  /\ image' \in Images \ {image}
  /\ moved' = IF savePc = "pending" THEN moved \union {key} ELSE moved
  /\ UNCHANGED <<store, savePc, local>>

LoseFile ==
  /\ savePc = "idle"
  /\ \E k \in Images, t \in Types :
       /\ file[k][t] # Nothing
       /\ file' = [file EXCEPT ![k][t] = Nothing]
       /\ moved' = moved \union {k}
  /\ UNCHANGED <<image, index, savePc, local>>

StoreNext ==
  \/ Plan \/ Evaluate \/ Execute
  \/ CopyOpens \/ CopyWrites \/ IndexOpens \/ IndexWrites \/ SaveFails
  \/ RunEnds \/ Crash
  \/ EditImage \/ LoseFile

StoreSpec == StoreInit /\ [][StoreNext]_storeVars

-----------------------------------------------------------------------------
(* Properties.                                                             *)

StoreTypeOK ==
  /\ image \in Images
  /\ index \in [Images -> {Nothing, Half, "whole"}]
  /\ file \in [Images -> [Types -> Images \union {Nothing, Half}]]
  /\ savePc \in {"idle", "pending", "reloaded", "evaluated", "saving", "copying",
             "indexing", "saved", "failed"}
  /\ key \in Images \union {Nothing} /\ out \in Images \union {Nothing}
  /\ todo \subseteq Types /\ cur \in Types \union {Nothing}
  /\ got \in [Types -> Images \union {Nothing, Half}]
  /\ moved \subseteq Images
  /\ savePc = "copying" => cur \in todo
  /\ savePc # "idle" => key # Nothing

\* An artifact the evaluation reads from the store is what the execution of
\* the unit on the planned image gives, whatever died or failed before; unless
\* the image was replaced between the planning and the execution of the unit,
\* or the entry lost a file (its repair copies in place, under the old index)
\* and it was not saved again in full.
ReloadsAreIdentical ==
  savePc = "evaluated" /\ key \notin moved => \A t \in Types : got[t] = key

\* The evaluation finds every file of a reloaded entry, whatever was lost.
ReloadsAreComplete ==
  savePc = "evaluated" => \A t \in Types : got[t] # Nothing

\* An entry that can be reloaded is never made unloadable by a later run, be
\* it interrupted: no unit is executed again once it is saved.
SavedOnceForAll ==
  [][\A k \in Images \ moved' : Loads(k) => Loads(k)']_storeVars
=============================================================================
