---------------------------- MODULE MCFitOptions ----------------------------
(* Option structs for FitOptions: a model type and one or two other keys.   *)
EXTENDS FitOptions

Counts == {Null} \union {Count(k) : k \in {-8, -1, 0, 1, 7}}
Reals == {Null, NaN} \union {Real(x) : x \in {-1, 0, 1, 100, 101}}
ValuesOf(key) ==
    CASE key \in CountKeys -> Counts
      [] key \in RealKeys -> Reals
      [] OTHER -> {Word(w) : w \in Words(key) \union {"other"}}

TreeInputs ==
    UNION {
        {[key \in {"model_type", k1, k2} |->
            IF key = "model_type" THEN Word("boosted_tree_regressor")
            ELSE IF key = k1 THEN v1 ELSE v2] :
                v1 \in ValuesOf(k1), v2 \in ValuesOf(k2)} :
        k1 \in TreeKeys, k2 \in TreeKeys}

PcaInputs ==
    {[model_type |-> Word("pca")]} \union
    {[model_type |-> Word("pca"), num_components |-> v] : v \in Counts}

NoModel ==
    {[num_components |-> Count(1)], [model_type |-> Null], [model_type |-> Word("other")]}

AllInputs == TreeInputs \union PcaInputs \union NoModel

=============================================================================
