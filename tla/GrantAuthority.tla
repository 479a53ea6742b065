--------------------------- MODULE GrantAuthority ---------------------------
(***************************************************************************)
(* What the control plane promises about ONE execution grant, seen from    *)
(* outside: it is issued at most once, its authority (policy, approval)    *)
(* ends at most once and never comes back, at most one executor ever       *)
(* claims it and only while the authority stands, and the recorded outcome *)
(* is an optional "executing" followed by one terminal status that nothing *)
(* follows.  Module ControlPlane implements this for every grant, and      *)
(* module Executor uses the control plane through it.                      *)
(***************************************************************************)
CONSTANTS Executors, Evidence, Terminal, None

VARIABLES stage,    \* "unissued", "live", "ended"
          owner,    \* the executor holding the single-use claim, or None
          opened,   \* "executing" was recorded
          outcome   \* the terminal record [status, evidence], or None

authority == <<stage, owner, opened, outcome>>

Init == stage = "unissued" /\ owner = None /\ opened = FALSE /\ outcome = None

Issue ==
  /\ stage = "unissued"
  /\ stage' = "live"
  /\ UNCHANGED <<owner, opened, outcome>>

\* The policy is replaced or expires, or the approval expires.
End ==
  /\ stage = "live"
  /\ stage' = "ended"
  /\ UNCHANGED <<owner, opened, outcome>>

Claim(e) ==
  /\ stage = "live" /\ owner = None
  /\ owner' = e
  /\ UNCHANGED <<stage, opened, outcome>>

RecordExecuting ==
  /\ owner # None /\ ~opened /\ outcome = None
  /\ opened' = TRUE
  /\ UNCHANGED <<stage, owner, outcome>>

RecordOutcome(status, evidence) ==
  /\ owner # None /\ outcome = None
  /\ outcome' = [status |-> status, evidence |-> evidence]
  /\ UNCHANGED <<stage, owner, opened>>

Next ==
  \/ Issue \/ End \/ RecordExecuting
  \/ \E e \in Executors : Claim(e)
  \/ \E s \in Terminal, v \in Evidence : RecordOutcome(s, v)

Spec == Init /\ [][Next]_authority
=============================================================================
