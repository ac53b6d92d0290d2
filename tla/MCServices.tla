----------------------------- MODULE MCServices -----------------------------
(* Small instances of Usage and of Files, which share no state and no      *)
(* caller: in a behaviour one of the two runs while the other rests.       *)
EXTENDS Usage, Files, TLC

CONSTANTS a1, a2, r1, r2, r3

VARIABLE part

TwoKinds == [p \in Packages |-> IF p = "basic" THEN "without" ELSE "with"]

ServicesInit ==
  /\ UsageInit /\ FilesInit
  /\ \/ /\ part = "usage" /\ \A d \in Docs : doc[d].state = "none"
        /\ config["pro"].feature # endpoint
        /\ config["pro"].endpoint # {} => config["pro"] = [endpoint |-> {2}, feature |-> {0}]
     \/ part = "files" /\ wallet = {} /\ subscription = {} /\ endpoint = {0}
        /\ config = [p \in Packages |-> NoConfig]

ServicesNext ==
  /\ UNCHANGED part
  /\ \/ part = "usage" /\ UsageNext /\ UNCHANGED fileVars
     \/ part = "files" /\ FilesNext /\ UNCHANGED usageVars

ServicesSpec == ServicesInit /\ [][ServicesNext]_<<part, usageVars, fileVars>>

ServicesSymmetry ==
  Permutations(Usages) \cup Permutations(Uploaders)
=============================================================================
