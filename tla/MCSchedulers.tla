---------------------------- MODULE MCSchedulers ----------------------------
(* The modules TLC runs: the five schedulers, or one of them.               *)
EXTENDS Schedulers, TLC

AnyId == Permutations(Ids)

\* The kinds share nothing but the slot, so each is followed by itself.
OneKindInUse ==
  Cardinality({k \in Kinds : enabled[k] \/ last[k] # NoId \/
                 \E p \in Starters : starter[<<k, p>>].pc # "idle"}) <= 1
=============================================================================
