--------------------------- MODULE MCRecordedMoney ---------------------------
(***************************************************************************)
(* A small instance of RecordedMoney: receipts that do not all fit         *)
(* together, one sent with two contents, a repayment, and corrections of a *)
(* receipt (twice), of the repayment and of a correction.                  *)
(***************************************************************************)
EXTENDS RecordedMoney, TLC

CONSTANTS w1, w2

Movement(id, kind, amount, occurred) ==
  [id |-> id, kind |-> kind, amount |-> amount, occurred |-> occurred, target |-> None]

Withdraws(id, target) ==
  [id |-> id, kind |-> "correction", amount |-> None, occurred |-> None, target |-> target]

LedgerCommands ==
  {Movement("whole", "receipt", 2, 0), Movement("first", "receipt", 1, 0),
   Movement("second", "receipt", 1, 1), Movement("second", "receipt", 1, 0),
   Movement("back", "repayment", 1, 0),
   Withdraws("not first", "first"), Withdraws("again not first", "first"),
   Withdraws("not back", "back"), Withdraws("not not back", "not back")}

SameCallers == Permutations(Callers)

=============================================================================
