------------------------------ MODULE FaissIndex ------------------------------
(***************************************************************************)
(* The similarity index of Layer 1 (layer1_detection/faiss_index.py): the  *)
(* embeddings of normal traffic, a list that describes them by position,   *)
(* and the two files that save() writes one after the other.               *)
(*                                                                         *)
(* Embeddings are numbered in the order in which they were ever added, and *)
(* what describes one has its number.  The library may refuse to train an  *)
(* index (too few embeddings) or to read out a flat one (newer versions);  *)
(* its exceptions leave everything as it was and are no step here.         *)
(***************************************************************************)
EXTENDS Integers, FiniteSets, SequencesExt

CONSTANTS UpgradeAt,  \* the size at which add_normal upgrades the flat index
          NList,      \* NLIST
          BulkSizes,  \* the sizes of bulk additions
          MaxVectors  \* bound: embeddings ever added

ASSUME SizesAssumption ==
  /\ {UpgradeAt, NList, MaxVectors} \subseteq Nat \ {0}
  /\ BulkSizes \subseteq Nat \ {0}

VARIABLES
  role,      \* what runs: nothing, a script that builds the index, or the server
  flat,      \* the index is still an IndexFlatL2
  index,     \* its embeddings
  metadata,  \* what describes them
  indexFile, metaFile,
  saving,    \* save() has written the index and not yet the metadata
  added,     \* history: embeddings ever added
  torn,      \* history: a save was cut between its two files
  replaced   \* history: a bulk addition has replaced what the index had

indexVars == <<role, flat, index, metadata, indexFile, metaFile, saving, added, torn, replaced>>

Missing == [there |-> FALSE, flat |-> TRUE, items |-> <<>>, replaced |-> FALSE]
Written(isFlat, items, wasReplaced) ==
  [there |-> TRUE, flat |-> isFlat, items |-> items, replaced |-> wasReplaced]

IndexInit ==
  /\ role = "none"
  /\ flat = TRUE /\ index = <<>> /\ metadata = <<>>
  /\ indexFile = Missing /\ metaFile = Missing
  /\ saving = FALSE
  /\ added = 0
  /\ torn = FALSE /\ replaced = FALSE

\* FAISSIndex(): load() when the index was saved, else an empty flat index.
\* Without the second file load() raises, and nothing starts.
Open(who) ==
  /\ role = "none"
  /\ role' = who
  /\ \/ /\ ~indexFile.there
        /\ flat' = TRUE /\ index' = <<>> /\ metadata' = <<>>
        /\ replaced' = FALSE
     \/ /\ indexFile.there /\ metaFile.there
        /\ flat' = indexFile.flat /\ index' = indexFile.items
        /\ metadata' = metaFile.items
        /\ replaced' = (indexFile.replaced \/ metaFile.replaced)
  /\ UNCHANGED <<indexFile, metaFile, saving, added, torn>>

\* Seeded fault: the upgrade keeps the old embeddings only.
AddNormalForgets ==
  /\ role = "builder" /\ ~saving /\ added < MaxVectors
  /\ added' = added + 1
  /\ LET upgrade == flat /\ Len(index) >= UpgradeAt
     IN /\ flat' = (flat /\ ~upgrade)
        /\ index' = IF upgrade THEN index ELSE Append(index, added)
  /\ metadata' = Append(metadata, added)
  /\ UNCHANGED <<role, indexFile, metaFile, saving, torn, replaced>>
\* add_normal: the upgrade trains with the old embeddings and the new one.
AddNormal ==
  /\ role = "builder" /\ ~saving /\ added < MaxVectors
  /\ added' = added + 1
  /\ flat' = (flat /\ Len(index) < UpgradeAt)
  /\ index' = Append(index, added)
  /\ metadata' = Append(metadata, added)
  /\ UNCHANGED <<role, indexFile, metaFile, saving, torn, replaced>>

\* bulk_add_normal: a flat index is replaced by one trained with the new
\* embeddings alone, while the descriptions are appended.
BulkAddNormal(n) ==
  /\ role = "builder" /\ ~saving /\ added + n <= MaxVectors
  /\ added' = added + n
  /\ LET new == [i \in 1..n |-> added + i - 1]
         upgrade == n >= NList /\ flat
     IN /\ flat' = (flat /\ ~upgrade)
        /\ index' = IF upgrade THEN new ELSE index \o new
        /\ metadata' = metadata \o new
        /\ replaced' = (replaced \/ (upgrade /\ index # <<>>))
  /\ UNCHANGED <<role, indexFile, metaFile, saving, torn>>

\* save(), first file and second file.
SaveIndex ==
  /\ role = "builder" /\ ~saving
  /\ indexFile' = Written(flat, index, replaced)
  /\ saving' = TRUE
  /\ UNCHANGED <<role, flat, index, metadata, metaFile, added, torn, replaced>>
SaveMetadata ==
  /\ role = "builder" /\ saving
  /\ metaFile' = Written(flat, metadata, replaced)
  /\ saving' = FALSE
  /\ UNCHANGED <<role, flat, index, metadata, indexFile, added, torn, replaced>>

\* The process ends or crashes, in the middle of a save too.
Close ==
  /\ role # "none"
  /\ role' = "none"
  /\ flat' = TRUE /\ index' = <<>> /\ metadata' = <<>> /\ replaced' = FALSE
  /\ saving' = FALSE
  /\ torn' = (torn \/ saving)
  /\ UNCHANGED <<indexFile, metaFile, added>>

BuilderNext ==
  \/ Open("builder")
  \/ AddNormal
  \/ \E n \in BulkSizes : BulkAddNormal(n)
  \/ SaveIndex \/ SaveMetadata

\* is_anomalous: far from its neighbours on average.  An empty index answers
\* the distance 999.
FaissAnomalous(far) == index = <<>> \/ far
-----------------------------------------------------------------------------
Vectors == Seq(0..(MaxVectors - 1))
Files == [there : BOOLEAN, flat : BOOLEAN, items : Vectors, replaced : BOOLEAN]

IndexTypeOK ==
  /\ role \in {"none", "builder", "server"}
  /\ flat \in BOOLEAN /\ replaced \in BOOLEAN
  /\ index \in Vectors /\ metadata \in Vectors
  /\ indexFile \in Files /\ metaFile \in Files
  /\ added \in 0..MaxVectors
  /\ saving => role = "builder" /\ indexFile.there
  /\ ~torn /\ ~saving => indexFile.there = metaFile.there

\* metadata[i] describes embedding i, through upgrades, saves, crashes and
\* restarts, unless a save was cut in two or a bulk addition replaced a flat
\* index that was not empty (add_normal, bulk_add_normal, save, load, search).
Aligned == ~torn /\ ~replaced => metadata = index

\* The two files describe the same embeddings between two saves, and during one
\* the first file is that of the index.
FilesAgree ==
  ~torn =>
    /\ saving => indexFile.items = index /\ indexFile.replaced = replaced
    /\ ~saving /\ ~indexFile.replaced /\ ~metaFile.replaced => metaFile.items = indexFile.items

IndexInv == Aligned /\ FilesAgree
=============================================================================
