-------------------------- MODULE MCTwoPhaseCommit --------------------------
(* Model-checking instances of TwoPhaseCommit. *)
EXTENDS TwoPhaseCommit

CONSTANTS A, B, C

\* What coreSpec can express: A may be silent, B silent or refusing, others vote yes.
PlanOf(crashes, recovers) ==
    [answer : {f \in [Worker -> Answers] : /\ f[A] # "no"
                                           /\ \A w \in Worker \ {A, B} : f[w] = "yes"},
     crash : crashes, recover : recovers]

AnyPlan == PlanOf(Crashes, BOOLEAN)

\* A coordinator that crashed after its decision is recovered.
RecoveredPlan == PlanOf(Crashes, {TRUE})
=============================================================================
