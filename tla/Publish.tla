------------------------------ MODULE Publish ------------------------------
(***************************************************************************)
(* What `apb push` and `apb pull` promise, whatever protocol they use.     *)
(* Every file of the manifest keeps its old content or gets the announced  *)
(* one, in one step; the command reports success only when everything is   *)
(* in place.  A directory is made, a symbolic link is removed and made     *)
(* again, so a link may be lost when making it fails.                      *)
(***************************************************************************)
CONSTANTS Files, Links, Dirs

VARIABLES
  dest,     \* what is at the destination of each entry
  outcome   \* what the command has reported

vars == <<dest, outcome>>

Entries == Files \cup Links \cup Dirs

Init ==
  /\ dest \in [Entries -> {"none", "old", "new"}]
  /\ outcome = "running"

(* may still happen after a failure was reported: the receiver goes on until *)
(* it is told                                                                *)
Place(e) ==
  /\ outcome # "ok"
  /\ dest' = [dest EXCEPT ![e] = "new"]
  /\ UNCHANGED outcome

Lose(l) ==
  /\ outcome # "ok"
  /\ dest' = [dest EXCEPT ![l] = "none"]
  /\ outcome' \in {outcome, "failed"}

Succeed ==
  /\ outcome = "running"
  /\ \A e \in Entries : dest[e] = "new"
  /\ outcome' = "ok"
  /\ UNCHANGED dest

Fail ==
  /\ outcome = "running"
  /\ outcome' = "failed"
  /\ UNCHANGED dest

Next ==
  \/ \E e \in Entries : Place(e)
  \/ \E l \in Links : Lose(l)
  \/ Succeed \/ Fail

Spec == Init /\ [][Next]_vars

(* Success means that the whole manifest is in place, and stays so as far as *)
(* this command is concerned.                                                *)
SuccessMeansPlaced == outcome = "ok" => \A e \in Entries : dest[e] = "new"

(* Only a symbolic link may ever be missing that was there before: a file or *)
(* directory is replaced in one step (rename) or not at all.                 *)
NothingVanishes ==
  [][\A e \in Entries \ Links : dest[e] # "none" => dest'[e] # "none"]_vars

============================================================================
