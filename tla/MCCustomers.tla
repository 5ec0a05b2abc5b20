---------------------------- MODULE MCCustomers ----------------------------
(* Customers on a small instance: one quote with the customer's number, and  *)
(* another e-mail beside the one it is addressed to.                         *)
EXTENDS Customers, TLC

CONSTANTS t1, t2, q1, e1, e2, p1, ch1

TwoTasks == {t1, t2}
OneQuote == {q1}
ToFirst == q1 :> e1
WithPhone == q1 :> p1
TwoEmails == {e1, e2}
Second == {e2}
OnePhone == {p1}
OneChat == {ch1}
Symmetry == Permutations(TwoTasks)
=============================================================================
