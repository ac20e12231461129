---------------------------- MODULE MCMigration ----------------------------
(***************************************************************************)
(* Small instances of Migration: a payment of two units that is new,       *)
(* authorized, paid, or damaged by a release that did not consume the hold *)
(* of a partial capture.                                                   *)
(***************************************************************************)
EXTENDS Migration, TLC

CONSTANTS t1, t2, o1, o2, x1

Blank ==
  [required |-> 2, captured |-> 0, refunded |-> 0, hold |-> 0, status |-> "new",
   external |-> None, fraud |-> "unknown", remembered |-> {}]

Untouched ==
  [ordered |-> FALSE, authorized |-> FALSE, hold |-> 0, captured |-> 0, refunded |-> 0,
   charging |-> 0, refunding |-> 0]

Held   == [Untouched EXCEPT !.ordered = TRUE, !.authorized = TRUE, !.hold = 2]
Halved == [Held EXCEPT !.hold = 1, !.captured = 1]

AnyOpening ==
  {[row |-> Blank, provider |-> Untouched],
   [row |-> [Blank EXCEPT !.hold = 2, !.status = "pre-auth"], provider |-> Held],
   [row |-> [Blank EXCEPT !.captured = 2, !.status = "paid"],
    provider |-> [Held EXCEPT !.hold = 0, !.captured = 2]],
   [row |-> [Blank EXCEPT !.captured = 1, !.hold = 2, !.status = "partially_paid"],
    provider |-> Halved]}

Names == {EventName(family, total) : family \in {"payment", "refund"}, total \in 0 .. 2}

Wanted(id, type, amount) == [id |-> id, type |-> type, amount |-> amount, target |-> None]

Commands == {Wanted(o1, "charge", 1), Wanted(o1, "start_refund", 1)}

Nothing == {}

SameTasks == Permutations(Tasks)

ASSUME OpeningsKnown == TotalsKnownAtOpening

=============================================================================
