----------------------------- MODULE ModelBlob -----------------------------
(***************************************************************************)
(* The model_blob column of the registry: BlobWriter, BlobReader and the   *)
(* (de)serialisers of algorithms/pca.cpp and boosted_tree_regressor.cpp.   *)
(*                                                                         *)
(* A blob is the sequence of what was written: numbers, strings and        *)
(* doubles, one item each.  Nothing in it says what an item is: a reader   *)
(* knows only the order of the fields and the counts it has read, so a     *)
(* field out of order makes it take one item for another.  Bytes within an *)
(* item are left out.  The code keeps writers and readers in step by hand, *)
(* so the fields of each are listed for each.                              *)
(***************************************************************************)
EXTENDS Naturals, Sequences, SequencesExt

PCA_MAGIC == "MLPC"
BTR_MAGIC == "MLBT"
BLOB_VERSION == 2

Refused == [refused |-> TRUE]

\* Fields with their shape: one item, a count and as many items, or the two
\* counts of a matrix and their product of items.  "old" is what only blobs of
\* version 1 have, and what the readers skip.
Shape(field) ==
    CASE field = "components" -> "matrix"
      [] field \in {"feature_names", "mean", "var", "singular_values",
                    "explained_variance", "explained_variance_ratio"} -> "list"
      [] OTHER -> "pod"

-----------------------------------------------------------------------------
\* BlobWriter
\* Definitions without a use are changed forms of the one that follows them:
\* what a property must notice.

Written(field, value) ==
    CASE Shape(field) = "pod" -> <<value>>
      [] Shape(field) = "list" -> <<Len(value)>> \o value
      [] Shape(field) = "matrix" -> <<value.rows, value.cols>> \o value.entries

WriteAll(magic, fields, model) ==
    <<magic, BLOB_VERSION>> \o
        FlattenSeq([i \in DOMAIN fields |-> Written(fields[i], model[fields[i]])])

PcaWritesVarFirst ==
    <<"model_type", "whiten", "n_features", "n_components", "n_samples_seen",
      "feature_names", "var", "mean", "singular_values", "explained_variance",
      "explained_variance_ratio", "components">>
PcaWrites ==
    <<"model_type", "whiten", "n_features", "n_components", "n_samples_seen",
      "feature_names", "mean", "var", "singular_values", "explained_variance",
      "explained_variance_ratio", "components">>
BtrWritesLabelLater ==
    <<"model_type", "booster_type", "label", "max_iterations", "feature_names",
      "xgboost_model_blob">>
BtrWrites ==
    <<"model_type", "label", "booster_type", "max_iterations", "feature_names",
      "xgboost_model_blob">>

SerializePcaModel(model) == WriteAll(PCA_MAGIC, PcaWrites, model)
SerializeBoostedTreeRegressorModel(model) == WriteAll(BTR_MAGIC, BtrWrites, model)

\* A blob of version 1.  What wrote it is no longer in the repository; this is the
\* layout that the readers were left with, and must go on reading.
OldPcaWrites ==
    <<"model_type", "whiten", "n_features", "n_components", "n_samples_seen", "old",
      "feature_names", "mean", "var", "singular_values", "explained_variance",
      "explained_variance_ratio", "components">>

OldPcaBlob(model) ==
    <<PCA_MAGIC, 1>> \o
        FlattenSeq([i \in DOMAIN OldPcaWrites |->
            Written(OldPcaWrites[i],
                    IF OldPcaWrites[i] = "old" THEN "old" ELSE model[OldPcaWrites[i]])])

-----------------------------------------------------------------------------
\* BlobReader: offset counts the items read.

Reader(blob) == [blob |-> blob, offset |-> 0, model |-> <<>>, ok |-> TRUE]
Left(r) == Len(r.blob) - r.offset
Item(r, k) == r.blob[r.offset + k]

\* The model read so far, with one more field.
With(model, field, value) ==
    [name \in DOMAIN model \union {field} |-> IF name = field THEN value ELSE model[name]]

\* "truncated payload", "invalid string length"
Take(r, field, size, value) ==
    IF size <= Left(r)
      THEN [r EXCEPT !.offset = @ + size, !.model = With(@, field, value)]
      ELSE [r EXCEPT !.ok = FALSE]

ReadList(r, field) ==
    IF Left(r) = 0 THEN Take(r, field, 1, <<>>)
    ELSE Take(r, field, 1 + Item(r, 1),
              SubSeq(r.blob, r.offset + 2, r.offset + 1 + Item(r, 1)))

ReadMatrix(r, field) ==
    IF Left(r) < 2 THEN Take(r, field, 2, <<>>)
    ELSE Take(r, field, 2 + Item(r, 1) * Item(r, 2),
              [rows |-> Item(r, 1), cols |-> Item(r, 2),
               entries |-> SubSeq(r.blob, r.offset + 3,
                                  r.offset + 2 + Item(r, 1) * Item(r, 2))])

ReadField(r, field) ==
    CASE ~r.ok -> r
      [] r.ok /\ Shape(field) = "list" -> ReadList(r, field)
      [] r.ok /\ Shape(field) = "matrix" -> ReadMatrix(r, field)
      [] r.ok /\ Shape(field) = "pod" ->
            Take(r, field, 1, IF Left(r) = 0 THEN <<>> ELSE Item(r, 1))

\* The fields after magic and version, with those that only version 1 has.
PcaHead == <<"model_type", "whiten", "n_features", "n_components", "n_samples_seen">>
PcaTail == <<"feature_names", "mean", "var", "singular_values", "explained_variance",
             "explained_variance_ratio", "components">>
PcaReads(version) ==
    PcaHead \o (IF version = 1 THEN <<"old">> ELSE <<>>) \o PcaTail

BtrHead == <<"model_type", "label", "booster_type", "max_iterations", "feature_names">>
BtrReads(version) ==
    BtrHead \o (IF version = 1 THEN [i \in 1..6 |-> "old"] ELSE <<>>) \o <<"xgboost_model_blob">>

\* "magic mismatch", "unsupported version", "trailing bytes"
ReadAll(blob, magic) ==
    LET head == FoldLeft(ReadField, Reader(blob), <<"magic", "version">>)
        version == head.model["version"]
        whole == FoldLeft(ReadField, head,
                          IF magic = PCA_MAGIC THEN PcaReads(version) ELSE BtrReads(version))
    IN  IF /\ head.ok
           /\ head.model["magic"] = magic
           /\ version \in {1, BLOB_VERSION}
           /\ whole.ok
           /\ Left(whole) = 0
          THEN whole.model
          ELSE Refused

DeserializePcaModel(blob) == ReadAll(blob, PCA_MAGIC)

DeserializeBoostedTreeRegressorModel(blob) ==
    LET model == ReadAll(blob, BTR_MAGIC)
    IN  IF model # Refused /\ model["model_type"] # "boosted_tree_regressor"
          THEN Refused ELSE model

IsBoostedTreeRegressorModelBlob(blob) == Len(blob) >= 2 /\ blob[1] = BTR_MAGIC

\* How MlPredictBind, MlEvaluateBindWithTable and MlExplainBind load a blob.
LoadModel(blob) ==
    IF IsBoostedTreeRegressorModelBlob(blob)
      THEN DeserializeBoostedTreeRegressorModel(blob)
      ELSE LET model == DeserializePcaModel(blob)
           IN  IF model # Refused /\ model["model_type"] # "pca" THEN Refused ELSE model

-----------------------------------------------------------------------------
\* What reading promises of a stored blob: the model that was written, all of
\* it and nothing else.
ReadsBack(blob, model) ==
    /\ LoadModel(blob) # Refused
    /\ \A field \in DOMAIN model : LoadModel(blob)[field] = model[field]

\* A blob that lost its end, or has grown, is refused and never read as a model.
RefusesDamage(blob) ==
    /\ \A k \in 0..Len(blob) - 1 : LoadModel(SubSeq(blob, 1, k)) = Refused
    /\ LoadModel(Append(blob, "more")) = Refused

=============================================================================
