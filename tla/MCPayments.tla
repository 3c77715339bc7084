----------------------------- MODULE MCPayments -----------------------------
(* Instances of Payments for TLC.                                          *)
EXTENDS Payments, TLC

CONSTANTS p1, p2, m1, m2, m3, h1, h2

StaffCrash == {"staff", "crash"}
MoneyMix == {"desk", "notfound", "error"}
NotFoundOnly == {"notfound"}
DeskOnly == {"desk"}

Symmetry == Permutations({p1, p2}) \cup Permutations({m1, m2, m3}) \cup Permutations({h1, h2})
=============================================================================
