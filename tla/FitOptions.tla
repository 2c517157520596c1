----------------------------- MODULE FitOptions -----------------------------
(***************************************************************************)
(* The options STRUCT of ml_fit: ParseModelType and                        *)
(* ParseBoostedTreeFitOptions (algorithms/boosted_tree_regressor.cpp) and  *)
(* ParseFitOptions (algorithms/pca.cpp).  The keys are read one by one     *)
(* over the defaults, then the result is validated; the first check that   *)
(* fails throws.                                                           *)
(*                                                                         *)
(* A count is read as a BIGINT and cast to the unsigned idx_t, which in a  *)
(* release build keeps its bits: both are Width bits wide here.  A DOUBLE  *)
(* is a number of hundredths or a NaN, which every comparison calls false. *)
(* A word stands for itself in lower case (the parsers lower every key and *)
(* word before they compare).                                              *)
(***************************************************************************)
EXTENDS Integers, Sequences, SequencesExt

CONSTANTS
    Width,  \* bits of BIGINT and of idx_t
    Inputs  \* the options to explore: functions from keys to values

ASSUME WidthAssumption == Width \in Nat \ {0}

VARIABLES
    given,    \* the STRUCT: a function from its keys to values
    options,  \* BoostedTreeFitOptions or FitOptions being filled in
    verdict   \* "reading", "read", then "accepted" or why it was refused

optionVars == <<given, options, verdict>>

Null == [kind |-> "null"]
Count(k) == [kind |-> "count", value |-> k]
Real(x) == [kind |-> "real", value |-> x]
NaN == [kind |-> "nan"]
Word(w) == [kind |-> "word", value |-> w]

CountKeys == {"num_parallel_tree", "max_tree_depth", "min_child_weight", "max_iterations"}
PositiveKeys == CountKeys \ {"min_child_weight"}
ClosedUnitKeys == {"dropout", "learning_rate"}
OpenUnitKeys == {"colsample_bytree", "colsample_bylevel", "colsample_bynode", "subsample"}
NonNegativeKeys == {"l1_reg", "l2_reg", "min_split_loss"}
RealKeys == ClosedUnitKeys \union OpenUnitKeys \union NonNegativeKeys
WordKeys == {"booster_type", "dart_normalize_type", "tree_method", "regression_objective"}
TreeKeys == CountKeys \union RealKeys \union WordKeys

TreeDefaults == [key \in TreeKeys |->
    CASE key \in PositiveKeys ->
            Count(CASE key = "num_parallel_tree" -> 1 [] key = "max_tree_depth" -> 6 [] OTHER -> 10)
      [] key = "min_child_weight" -> Count(1)
      [] key = "learning_rate" -> Real(30)
      [] key \in OpenUnitKeys \union {"l2_reg"} -> Real(100)
      [] key \in {"dropout", "l1_reg", "min_split_loss"} -> Real(0)
      [] key = "booster_type" -> Word("gbtree")
      [] key = "dart_normalize_type" -> Word("tree")
      [] key = "tree_method" -> Word("hist")
      [] OTHER -> Word("squarederror")]

PcaDefaults == [num_components |-> Count(2)]

ModelType == IF "model_type" \in DOMAIN given THEN given["model_type"] ELSE Null
Boosted == ModelType = Word("boosted_tree_regressor")
Pca == ModelType = Word("pca")

Words(key) ==
    CASE key = "booster_type" -> {"gbtree", "dart"}
      [] key = "dart_normalize_type" -> {"tree", "forest"}
      [] key = "tree_method" -> {"hist", "approx"}
      [] OTHER -> {"squarederror", "squaredlogerror", "logistic", "pseudohubererror",
                   "absoluteerror", "quantileerror"}

\* C++ comparisons: false of a NaN.
Below(x, bound) == x.kind # "nan" /\ x.value < bound
Above(x, bound) == x.kind # "nan" /\ x.value > bound

OptionsInit ==
    /\ given \in Inputs
    /\ options = <<>>
    /\ verdict = "reading"

-----------------------------------------------------------------------------
\* UnsafeNumericCast<idx_t> of a BIGINT.
Cast(v) == IF v.kind = "count" THEN Count(v.value % (2 ^ Width)) ELSE v

IsSet(key) == key \in DOMAIN given /\ given[key] # Null

\* The key loop of ParseBoostedTreeFitOptions.
ReadTreeOptions ==
    /\ verdict = "reading"
    /\ Boosted
    /\ options' = [key \in TreeKeys |-> IF IsSet(key) THEN Cast(given[key]) ELSE TreeDefaults[key]]
    /\ verdict' = "read"
    /\ UNCHANGED given

BadComponents(v) == v.value <= 0

\* ParseFitOptions checks num_components before it casts it.
ReadPcaOptions ==
    /\ verdict = "reading"
    /\ Pca
    /\ \/ /\ ~IsSet("num_components")
          /\ options' = PcaDefaults
          /\ verdict' = "accepted"
       \/ /\ IsSet("num_components")
          /\ ~BadComponents(given["num_components"])
          /\ options' = [num_components |-> Cast(given["num_components"])]
          /\ verdict' = "accepted"
       \/ /\ IsSet("num_components")
          /\ BadComponents(given["num_components"])
          /\ verdict' = "num_components"
          /\ UNCHANGED options
    /\ UNCHANGED given

RefuseModelType ==
    /\ verdict = "reading"
    /\ ~Boosted /\ ~Pca
    /\ verdict' = "model_type"
    /\ UNCHANGED <<given, options>>

\* The checks, in the order they are made; "dart" is that of a dropout given
\* without the booster that has one.
CheckOrder == <<
    "booster_type", "dart_normalize_type", "dart", "tree_method", "regression_objective",
    "num_parallel_tree", "max_tree_depth", "max_iterations",
    "dropout", "l1_reg", "l2_reg", "learning_rate", "min_split_loss",
    "colsample_bytree", "colsample_bylevel", "colsample_bynode", "subsample" >>

DropoutWithoutDart ==
    /\ options["booster_type"] # Word("dart")
    /\ "dropout" \in DOMAIN given
    /\ Above(options["dropout"], 0)

OffClosedUnit(x) == Below(x, 0) \/ Above(x, 100)

\* A changed form of the definition that follows it, without a use: what a
\* property must notice.
OneIsTooMuch(x) == Below(x, 1) \/ (x.kind # "nan" /\ x.value >= 100)
OffOpenUnit(x) == Below(x, 1) \/ Above(x, 100)

\* min_child_weight < 0 is asked of an unsigned number: it never holds.
FailsCheck(check) ==
    CASE check = "dart" -> DropoutWithoutDart
      [] check \in WordKeys -> options[check].value \notin Words(check)
      [] check \in PositiveKeys -> options[check].value < 1
      [] check \in ClosedUnitKeys -> OffClosedUnit(options[check])
      [] check \in OpenUnitKeys -> OffOpenUnit(options[check])
      [] check \in NonNegativeKeys -> Below(options[check], 0)

ValidateTreeOptions ==
    LET first == SelectInSeq(CheckOrder, FailsCheck)
    IN  /\ verdict = "read"
        /\ verdict' = IF first = 0 THEN "accepted" ELSE CheckOrder[first]
        /\ UNCHANGED <<given, options>>

OptionsNext ==
    \/ ReadTreeOptions \/ ReadPcaOptions \/ RefuseModelType
    \/ ValidateTreeOptions

OptionsSpec == OptionsInit /\ [][OptionsNext]_optionVars

-----------------------------------------------------------------------------
Accepted == verdict = "accepted"
Refused == verdict \notin {"reading", "read", "accepted"}

\* The value the user gave a key, in the range its error message states.
InRange(key, v) ==
    CASE key \in PositiveKeys \union {"num_components"} -> v.value >= 1
      [] key = "min_child_weight" -> v.value >= 0
      [] key \in ClosedUnitKeys -> v.kind = "real" /\ v.value \in 0..100
      [] key \in OpenUnitKeys -> v.kind = "real" /\ v.value \in 1..100
      [] key \in NonNegativeKeys -> v.kind = "real" /\ v.value >= 0
      [] OTHER -> v.value \in Words(key)

SetKeys == {key \in DOMAIN given \ {"model_type"} : IsSet(key)}

Negative(v) == v.kind = "count" /\ v.value < 0

\* A dropout that only the dart booster can follow, and whether it was asked for.
WantsDart == "dropout" \in SetKeys /\ Above(given["dropout"], 0)
AsksDart == IsSet("booster_type") /\ given["booster_type"] = Word("dart")

\* The ranges the messages state ("options.%s must be in [0.0, 1.0]", "(0.0, 1.0]",
\* ">= 0.0", ">= 1", "must be one of", "options.dropout requires
\* options.booster_type='dart'") decide, at their ends too and in whatever
\* combination: what is refused has a value out of its range, or a dropout above
\* zero without the booster that has one, and the message names it; nothing else
\* is refused, and apart from a NaN or a negative count (see AcceptedIsInRange)
\* nothing out of range is accepted, nor a dropout that would be ignored.
RangesDecide ==
    /\ Refused /\ verdict # "model_type" =>
          \/ verdict = "dart" /\ WantsDart /\ ~AsksDart
          \/ verdict \in SetKeys /\ ~InRange(verdict, given[verdict])
    /\ Accepted =>
          \A key \in SetKeys :
              \/ InRange(key, given[key])
              \/ given[key] = NaN
              \/ key \in CountKeys /\ Negative(given[key])
    /\ Accepted /\ Boosted /\ WantsDart => AsksDart

\* The ranges of the messages, also "options.%s must be >= 1", of what the user
\* gave, whatever it was, and not of what is left of it after the cast.
AcceptedIsInRange ==
    Accepted => \A key \in SetKeys : InRange(key, given[key])

=============================================================================
