---------------------------- MODULE AtomicCommit ----------------------------
(***************************************************************************)
(* What the two-phase commit of ch5/exp6_bonus promises: one outcome, fixed *)
(* once, that every participant which finishes adopts.  A participant may   *)
(* give up on its own only before it has prepared, and a commit needs all   *)
(* of them prepared.                                                        *)
(***************************************************************************)
CONSTANT Participant

VARIABLES
    outcome,    \* "open" until the decision is on record
    stage       \* what each participant has done: works, prepared, ended

Outcome == {"open", "commit", "abort"}
Stage == {"works", "prepared", "commit", "abort"}

vars == <<outcome, stage>>

Init == outcome = "open" /\ stage = [p \in Participant |-> "works"]

Moves(p, s) == stage' = [stage EXCEPT ![p] = s] /\ UNCHANGED outcome

\* Promise to follow whatever is decided; no longer free to give up.
Prepare(p) == stage[p] = "works" /\ Moves(p, "prepared")

\* Give up without asking anybody.
GiveUp(p) == stage[p] = "works" /\ Moves(p, "abort")

\* Do what was decided.
Obey(p) == stage[p] = "prepared" /\ outcome # "open" /\ Moves(p, outcome)

\* Fix the outcome: abort at any time, commit if everybody is prepared.
Decide(d) ==
    /\ outcome = "open"
    /\ d = "commit" => \A p \in Participant : stage[p] = "prepared"
    /\ outcome' = d
    /\ UNCHANGED stage

Next ==
    \/ \E p \in Participant : Prepare(p) \/ GiveUp(p) \/ Obey(p)
    \/ \E d \in {"commit", "abort"} : Decide(d)

Spec == Init /\ [][Next]_vars
-----------------------------------------------------------------------------
TypeOK == outcome \in Outcome /\ stage \in [Participant -> Stage]

\* Nobody has committed what another participant has rolled back.
Consistent ==
    \A p, q \in Participant : ~ (stage[p] = "commit" /\ stage[q] = "abort")
=============================================================================
