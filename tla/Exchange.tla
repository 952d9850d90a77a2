------------------------------ MODULE Exchange ------------------------------
(***************************************************************************)
(* What a purchase is to be, whoever runs it: the buyer pays, the upstream *)
(* answers a paid request once, and the buyer accepts a product only when  *)
(* it is the harness's transform of that answer.                           *)
(***************************************************************************)
EXTENDS Harness

CONSTANT Purchases

VARIABLES phase, paid, answer, product
vars == <<phase, paid, answer, product>>

Init ==
    /\ phase = [p \in Purchases |-> "shopping"]
    /\ paid = {}
    /\ answer = [p \in Purchases |-> None]
    /\ product = [p \in Purchases |-> None]

Pay(p) ==
    /\ phase[p] = "shopping" /\ p \notin paid
    /\ paid' = paid \cup {p}
    /\ UNCHANGED <<phase, answer, product>>

\* The upstream may still answer after the buyer has given up.
Answer(p) ==
    /\ p \in paid /\ answer[p] = None
    /\ \E a \in Bodies : answer' = [answer EXCEPT ![p] = Some(a)]
    /\ UNCHANGED <<phase, paid, product>>

Accept(p) ==
    /\ phase[p] = "shopping" /\ p \in paid /\ answer[p] # None
    /\ phase' = [phase EXCEPT ![p] = "verified"]
    /\ product' = [product EXCEPT ![p] = Some(StartsWithYes(answer[p][1]))]
    /\ UNCHANGED <<paid, answer>>

\* A rejection needs a delivered answer to reject; a failure needs nothing.
Reject(p) ==
    /\ phase[p] = "shopping" /\ answer[p] # None
    /\ phase' = [phase EXCEPT ![p] = "rejected"]
    /\ UNCHANGED <<paid, answer, product>>

Fail(p) ==
    /\ phase[p] = "shopping"
    /\ phase' = [phase EXCEPT ![p] = "failed"]
    /\ UNCHANGED <<paid, answer, product>>

Next == \E p \in Purchases :
            Pay(p) \/ Answer(p) \/ Accept(p) \/ Reject(p) \/ Fail(p)
Spec == Init /\ [][Next]_vars
=============================================================================
