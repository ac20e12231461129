--------------------------- MODULE CommandContract ---------------------------
(***************************************************************************)
(* What the durable flow promises an application about its commands, as    *)
(* seen from outside: whatever workers, timeouts, retries and crashes do   *)
(* in between, a provider carries a command out at most once, the          *)
(* application learns that it ran only if it ran, learns that it was       *)
(* refused only if it did not run and never will, and no second command is *)
(* let in while one is open.  DurableFlow implements this contract.        *)
(***************************************************************************)
EXTENDS Naturals

CONSTANT Commands

VARIABLES
  runs,    \* how often the provider carried each command out
  known    \* what is on record about each command

Knowledge == {"unasked", "open", "done", "refused"}

Init ==
  /\ runs  = [c \in Commands |-> 0]
  /\ known = [c \in Commands |-> "unasked"]

Learn(c, from, to) ==
  /\ known[c] = from
  /\ known' = [known EXCEPT ![c] = to]
  /\ UNCHANGED runs

Ask(c) ==
  /\ \A other \in Commands : known[other] # "open"
  /\ Learn(c, "unasked", "open")

Run(c) ==
  /\ known[c] = "open"
  /\ runs[c] = 0
  /\ runs' = [runs EXCEPT ![c] = 1]
  /\ UNCHANGED known

Confirm(c) == runs[c] = 1 /\ Learn(c, "open", "done")

Refuse(c) == runs[c] = 0 /\ Learn(c, "open", "refused")

Next == \E c \in Commands : Ask(c) \/ Run(c) \/ Confirm(c) \/ Refuse(c)

Spec == Init /\ [][Next]_<<runs, known>>

=============================================================================
