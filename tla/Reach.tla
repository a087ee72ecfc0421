-------------------------------- MODULE Reach --------------------------------
(***************************************************************************)
(* What steps lead to: steps are [node -> the nodes one step further].     *)
(***************************************************************************)
EXTENDS Naturals

\* What is within n steps of root.
Within(steps, root) ==
    LET within[n \in Nat] ==
            IF n = 0 THEN {root} ELSE within[n - 1] \cup UNION {steps[x] : x \in within[n - 1]}
    IN  within

\* What is in every set that holds root and is not left by a step.
Reached(steps, root) ==
    {x \in DOMAIN steps :
        \A s \in SUBSET DOMAIN steps : root \in s /\ (\A y \in s : steps[y] \subseteq s) => x \in s}
=============================================================================
