--------------------------- MODULE MCCreditLedger ---------------------------
\* Instances of CreditLedger for TLC: bots cost two centicredits, a payment
\* brings three and an adjustment one, so that no two ways of losing or
\* repeating a transaction leave the same balance.
EXTENDS CreditLedger, TLC

MCAmount == [j \in Jobs |-> IF j \in Bots THEN -2 ELSE IF j \in Payments THEN 3 ELSE 1]

WorkerSymmetry == Permutations(Workers)
=============================================================================
