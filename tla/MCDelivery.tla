------------------------------ MODULE MCDelivery ------------------------------
(***************************************************************************)
(* Results and sessions for TLC.                                           *)
(***************************************************************************)
EXTENDS DeliveryProperties, TLC

CONSTANTS i1, i2, s1, s2, done, broken

\* Both results are of the first session.
AllOfFirst == [f \in Result |-> s1]

\* The failed one is of the second session.
OneEach == [f \in Result |-> IF f = broken THEN s2 ELSE s1]

Interchangeable == Permutations({i1, i2})
===============================================================================
