------------------------------ MODULE MC_Bucket ------------------------------
(* Two plain keys, and one that goes on with a "#" after the first. *)
EXTENDS Bucket
MCObjectKeys == {"report", "report#2", "other"}
MCUnder == [p \in KeyPrefixes |-> {"report", "report#2"}]
MCAddressed == [k \in MCObjectKeys |-> IF k = "report#2" THEN "report" ELSE k]
=============================================================================
