----------------------------- MODULE MCMilestones -----------------------------
(***************************************************************************)
(* Two milestones in a row, two escrows so that one milestone may get two, *)
(* two pages so that a recording may be overtaken, and two freelancers, so *)
(* that one may be taken in place of the other.                            *)
(***************************************************************************)
EXTENDS Milestones, TLC

Symmetry == Permutations(Pages) \cup Permutations(Freelancers)

\* Bound: only the first milestone, whose end matters to another, may have
\* previews.
FirstPreviews ==
    \A m \in Milestones \ {1} : milestones[m].revisionPolicy = "none"

\* Bound: both pages are at work only while the last milestone is not disputed.
OneTrouble ==
    (\A p \in Pages : page[p] # Idle) => disputes[MaxMilestones] # "active"

=============================================================================
