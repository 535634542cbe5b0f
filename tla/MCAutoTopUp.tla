---------------------------- MODULE MCAutoTopUp ----------------------------
(* Finite instances of AutoTopUp for TLC.                                  *)
EXTENDS AutoTopUp, TLC

CONSTANTS r1, r2

Caps == [n \in Revision |-> IF n = 2 THEN 2 ELSE 1]

About(ops, statuses, attempts, checkouts, months, frozen) ==
  [ops |-> ops, statuses |-> statuses, attempts |-> attempts, checkouts |-> checkouts,
   months |-> months, frozen |-> frozen]

Paid     == {"succeeded"}
Declined == {"succeeded", "requires_payment_method", "canceled"}
Slow     == {"succeeded", "processing", "requires_payment_method"}
Pending  == {"succeeded", "processing", "requires_action"}

\* FALSE: the schema the webhook handlers and the recovery are written for.
Scenarios ==
  { About({}, Pending, 1, 0, 1, TRUE),
    About({"refund"}, Paid, 2, 0, 2, TRUE),
    About({"update"}, Paid, 2, 0, 1, TRUE),
    About({"refund", "update"}, Paid, 1, 0, 1, TRUE),
    About({"setup", "disable"}, Paid, 1, 2, 1, TRUE),
    About({"setup", "update", "disable"}, Paid, 1, 1, 1, TRUE),
    About({"recover"}, Slow, 1, 0, 1, FALSE),
    About({"recover"}, {"processing", "requires_action"}, 1, 0, 1, FALSE),
    About({"recover"}, {"succeeded", "requires_payment_method", "requires_action"}, 1, 0, 1, FALSE),
    About({"recover"}, {"canceled", "requires_payment_method"}, 1, 0, 1, FALSE),
    About({"recover"}, {"canceled", "requires_action"}, 1, 0, 1, FALSE),
    About({"recover"}, {"succeeded", "requires_payment_method"}, 2, 1, 1, FALSE),
    About({"recover", "disable"}, {"succeeded", "requires_payment_method"}, 1, 1, 1, FALSE) }

AsDeployed == {About({}, Declined, 1, 0, 1, TRUE)}
AsWritten  == {About({}, Declined, 1, 0, 1, FALSE)}

Replicas == Permutations(Replica)
=============================================================================
