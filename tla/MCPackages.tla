------------------------------ MODULE MCPackages ------------------------------
(* Two parts that share no state, checked in one run: the packages of daily data *)
(* and the fetching of minutes.  A behaviour follows one, while the other stays  *)
(* at one initial state.                                                         *)
EXTENDS StockPackages, MinuteFetch, TLC

VARIABLE part   \* the part that this behaviour follows

Alike == Permutations(Prefetches)

PackagesInit ==
  /\ part \in {"packages", "minutes"}
  /\ Init /\ MinuteInit
  /\ part = "packages" => listed = {}
  /\ part = "minutes" => package = [s \in Stocks |-> NoPackage]

PackagesNext ==
  /\ UNCHANGED part
  /\ \/ part = "packages" /\ Next /\ UNCHANGED minuteVars
     \/ part = "minutes" /\ MinuteNext /\ UNCHANGED vars

PackagesSpec == PackagesInit /\ [][PackagesNext]_<<part, vars, minuteVars>>

\* The types of the two parts.
PackagesTypeOK == TypeOK /\ MinuteTypeOK
=============================================================================
