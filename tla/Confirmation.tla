---------------------------- MODULE Confirmation ----------------------------
(***************************************************************************)
(* What preview and POST /train promise together: a caller that insists on *)
(* the plan it was shown gets that plan trained or none, and every caller  *)
(* gets the plan that was accepted, whatever becomes of the configuration  *)
(* in the meantime.  PlanConfirmation is shown to implement this.          *)
(***************************************************************************)
CONSTANTS Callers, Plans, NoPlan

VARIABLES strict,    \* callers must insist (VALEO_PDM_REQUIRE_TRAIN_PLAN_HASH)
          shown,     \* the plan each caller was shown last
          accepted,  \* the plan accepted for each caller
          trained    \* the plan trained for it

vars == <<strict, shown, accepted, trained>>

Init ==
  /\ strict \in BOOLEAN
  /\ shown = [c \in Callers |-> NoPlan]
  /\ accepted = [c \in Callers |-> NoPlan]
  /\ trained = [c \in Callers |-> NoPlan]

Show(c, p) ==
  /\ accepted[c] = NoPlan
  /\ shown' = [shown EXCEPT ![c] = p]
  /\ UNCHANGED <<strict, accepted, trained>>

\* insist: the caller sent the hash of what it was shown.
Accept(c, p, insist) ==
  /\ accepted[c] = NoPlan
  /\ strict => insist
  /\ insist => p = shown[c]
  /\ accepted' = [accepted EXCEPT ![c] = p]
  /\ UNCHANGED <<strict, shown, trained>>

Train(c) ==
  /\ accepted[c] # NoPlan
  /\ trained[c] = NoPlan
  /\ trained' = [trained EXCEPT ![c] = accepted[c]]
  /\ UNCHANGED <<strict, shown, accepted>>

Next ==
  \E c \in Callers :
    \/ \E p \in Plans : Show(c, p) \/ \E insist \in BOOLEAN : Accept(c, p, insist)
    \/ Train(c)

Spec == Init /\ [][Next]_vars
=============================================================================
