----------------------------- MODULE SamplerSpec -----------------------------
(***************************************************************************)
(* What a metric sampler promises (spec 4.2): Idle -> Running -> Stopping  *)
(* -> Idle.  Samples are appended only while Running or Stopping; once     *)
(* stop has returned (Idle) the series does not grow, and a requested stop *)
(* eventually returns.  The series is represented by its length.           *)
(***************************************************************************)
EXTENDS Naturals

VARIABLES sstate, count

Start ==
  /\ sstate = "idle"
  /\ sstate' = "running"
  /\ UNCHANGED count

Append ==
  /\ sstate \in {"running", "stopping"}
  /\ count' = count + 1
  /\ UNCHANGED sstate

\* stop() may also be called on an idle sampler; it then returns at once.
RequestStop ==
  /\ sstate \in {"idle", "running"}
  /\ sstate' = "stopping"
  /\ UNCHANGED count

Joined ==
  /\ sstate = "stopping"
  /\ sstate' = "idle"
  /\ UNCHANGED count

Init == sstate = "idle" /\ count = 0

Next == Start \/ Append \/ RequestStop \/ Joined

Spec == Init /\ [][Next]_<<sstate, count>> /\ WF_<<sstate, count>>(Joined)

=============================================================================
