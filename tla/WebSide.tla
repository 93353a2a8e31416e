-------------------------------- MODULE WebSide --------------------------------
(***************************************************************************)
(* What the web process keeps: the credentials, the badge of the worker    *)
(* and the pages that start jobs, one beside the other.                    *)
(*                                                                         *)
(* The three share no variable, so that their interleavings add no state   *)
(* of any of them: a behaviour is one of the part it is in, among all.     *)
(***************************************************************************)
EXTENDS Credentials, WorkerStatus, DevicePage

VARIABLE part  \* the part that moves

Parts == {"credentials", "badge", "pages"}

webVars == <<part, credentialVars, statusVars, pageVars>>

Init ==
  /\ part \in Parts
  /\ CredentialInit
  /\ StatusInit
  /\ \E world \in IF part = "pages" THEN Worlds ELSE {CHOOSE world \in Worlds : TRUE} :
       PageInitIn(world)

Next ==
  \/ part = "credentials" /\ CredentialNext /\ UNCHANGED <<part, statusVars, pageVars>>
  \/ part = "badge" /\ StatusNext /\ UNCHANGED <<part, credentialVars, pageVars>>
  \/ part = "pages" /\ PageNext /\ UNCHANGED <<part, credentialVars, statusVars>>

Spec == Init /\ [][Next]_webVars
=============================================================================
