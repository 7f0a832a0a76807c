------------------------------ MODULE MCHaPair ------------------------------
(* AS_MODE as emg_k8s/configmap.yaml sets it: side 0 active, side 1 standby. *)
EXTENDS HaPair

AS == [s \in Sides |-> IF s = 0 THEN "A" ELSE "S"]
\* The standby side reads the answers: two of them under way, in any order.
UnderWay == [s \in Sides |-> s + 1]
=============================================================================
