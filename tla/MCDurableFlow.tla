---------------------------- MODULE MCDurableFlow ----------------------------
(***************************************************************************)
(* Small instances of DurableFlow: an authorized payment of two units, of  *)
(* which o1 captures one and o2 whatever is left.                          *)
(***************************************************************************)
EXTENDS DurableFlow, TLC

CONSTANTS o1, o2, w1, w2, sA, sB

Authorized ==
  {[required |-> 2, captured |-> 0, refunded |-> 0, hold |-> 2, status |-> "pre-auth",
    external |-> None, fraud |-> "unknown", reconcile |-> FALSE, conflicts |-> {}]}

Capture(id, amount) == [id |-> id, amount |-> amount, type |-> "charge", target |-> None]

OneCapture  == {Capture(o1, 1)}
TwoCaptures == {Capture(o1, 1), Capture(o2, None)}

Answers == {Bare(s) : s \in EvidenceStates}

Declares(scope, window, lookup) ==
  [scope |-> scope, window |-> window, lookup |-> lookup, restricted |-> FALSE]

(* Retries under keys of one scope, kept for three units and declared to   *)
(* be kept for two or three, or, after a deployment, of another.           *)
RetryCapabilities ==
  {Declares(sA, 2, "unsupported"), Declares(sA, 3, "unsupported"),
   Declares(sB, 3, "authoritative")}

(* No keys: lookups of either kind, or restricted mode. *)
LookupCapabilities ==
  {Declares(None, None, "authoritative"),
   Declares(None, None, "authoritative_including_absence"),
   [Declares(None, None, "unsupported") EXCEPT !.restricted = TRUE]}

(* A provider that can always tell. *)
RecoveryCapabilities == {Declares(sA, 2, "authoritative_including_absence")}

(* A correlated callback and a status poll. *)
Notices ==
  {[NoClaim EXCEPT !.operation = o1, !.outcome = Bare("succeeded")],
   [NoClaim EXCEPT !.paid = 1, !.event = "payment_captured"]}

KeysKept == [s \in Scopes |-> 3]

Nothing == {}

ASSUME OrderlyProvider == WindowsAreHonoured /\ WithoutCancellations

SameWorkers == Permutations(Workers)

=============================================================================
