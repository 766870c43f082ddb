----------------------------- MODULE MCDashboard -----------------------------
(* Finite instances of Dashboard for TLC.                                      *)
EXTENDS Dashboard

CONSTANTS o1, o2, s1, s2, payment

TwoOrders == {o1, o2}
FirstOrder == {o1}
TwoInstances == {s1, s2}
PaymentOnly == {payment}
=============================================================================
