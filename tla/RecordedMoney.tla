---------------------------- MODULE RecordedMoney ----------------------------
(***************************************************************************)
(* Attributed money recorded outside any provider (recorded_money.py), in  *)
(* a store that commits a plan by compare-and-set and replans it with      *)
(* commit_semantic_transition (durable/repository.py).                     *)
(*                                                                         *)
(* The core holds no storage: the store is what recorded-money.md asks of  *)
(* an adapter.  It reads facts and complete history together, and commits  *)
(* the new entry and the facts together unless another commit came first.  *)
(* Callers may read different clocks, give up at any point and send any    *)
(* command again.                                                          *)
(*                                                                         *)
(* Actors, notes, evidence references and correction reasons are part of a *)
(* command's content that nothing decides on: left out.                    *)
(***************************************************************************)
EXTENDS PaymentFsm, Sequences, FiniteSetsExt

CONSTANTS
  Callers,     \* tasks recording money
  Commands,    \* the commands they may send
  Required,    \* the required amount of the root
  Times,       \* what the integration's clocks may read
  Attempts     \* attempts of commit_semantic_transition

Kinds == {"receipt", "repayment", "correction"}

(* RecordedMoneyCommand: a movement has an amount and a business time, a   *)
(* correction has a target and derives the rest from it.                   *)
WellFormed(c) ==
  /\ c.kind \in Kinds /\ c.id # None
  /\ IF c.kind = "correction"
     THEN c.amount = None /\ c.occurred = None /\ c.target # None
     ELSE c.amount \in Nat \ {0} /\ c.occurred \in Nat /\ c.target = None

ASSUME RecordedInputsTyped ==
  /\ Required \in Nat \ {0} /\ Attempts \in Nat \ {0} /\ Times \subseteq Nat
  /\ \A c \in Commands : WellFormed(c)

VARIABLES
  root,      \* the stored facts
  history,   \* the retained entries, in commit order
  calls      \* what each caller is doing

recordedVars == <<root, history, calls>>

-----------------------------------------------------------------------------
(* Entries *)

Prefix(h, n) == SubSeq(h, 1, n)

Ids(h)         == {h[i].command.id : i \in DOMAIN h}
CorrectedIn(h) == {h[i].command.target : i \in DOMAIN h} \ {None}
EntryOf(h, id) == h[CHOOSE i \in DOMAIN h : h[i].command.id = id]

(* Mutant of CanMake: a movement may be withdrawn twice. *)
CanMakeAgain(h, c, now) ==
  IF c.kind # "correction" THEN c.occurred <= now
  ELSE /\ c.target \in Ids(h)
       /\ EntryOf(h, c.target).command.kind # "correction"
       /\ EntryOf(h, c.target).recorded_at <= now

(* _make_entry: a correction withdraws one earlier movement, once.         *)
CanMake(h, c, now) ==
  IF c.kind # "correction" THEN c.occurred <= now
  ELSE /\ c.target \in Ids(h)
       /\ EntryOf(h, c.target).command.kind # "correction"
       /\ c.target \notin CorrectedIn(h)
       /\ EntryOf(h, c.target).recorded_at <= now

(* Mutant of MakeEntry: a correction takes the time of its command, which  *)
(* has none.                                                               *)
MakeEntryTimeless(h, c, now) ==
  [command      |-> c,
   recorded_at  |-> now,
   signed       |-> CASE c.kind = "receipt"    -> c.amount
                      [] c.kind = "repayment"  -> -c.amount
                      [] c.kind = "correction" -> -EntryOf(h, c.target).signed,
   effective_at |-> c.occurred]

MakeEntry(h, c, now) ==
  [command      |-> c,
   recorded_at  |-> now,
   signed       |-> CASE c.kind = "receipt"    -> c.amount
                      [] c.kind = "repayment"  -> -c.amount
                      [] c.kind = "correction" -> -EntryOf(h, c.target).signed,
   effective_at |-> IF c.kind = "correction" THEN EntryOf(h, c.target).effective_at
                    ELSE c.occurred]

-----------------------------------------------------------------------------
(* project_recorded_money *)

(* The kind of movement an entry makes or withdraws. *)
Moves(h, e) ==
  IF e.command.target = None THEN e.command.kind
  ELSE EntryOf(h, e.command.target).command.kind

Captured(h) == SumFunctionOnSet([i \in DOMAIN h |-> h[i].signed],
                                {i \in DOMAIN h : Moves(h, h[i]) = "receipt"})
Refunded(h) == SumFunctionOnSet([i \in DOMAIN h |-> -h[i].signed],
                                {i \in DOMAIN h : Moves(h, h[i]) = "repayment"})

Funded(h) ==
  /\ Captured(h) \in 0 .. Required
  /\ Refunded(h) \in 0 .. Captured(h)

(* The last entry is what its command makes of the entries before it, and  *)
(* leaves no repayment unfunded.                                           *)
Extends(h) ==
  LET before == Prefix(h, Len(h) - 1)
      last   == h[Len(h)]
  IN  /\ last.command.id \notin Ids(before)
      /\ CanMake(before, last.command, last.recorded_at)
      /\ last = MakeEntry(before, last.command, last.recorded_at)
      /\ Funded(h)

(* Every retained prefix is validated each time. *)
ValidHistory(h) == \A n \in 1 .. Len(h) : Extends(Prefix(h, n))

-----------------------------------------------------------------------------
(* plan_recorded_money *)

RootStatus ==
  {"new", "prepared", "partially_paid", "paid", "partially_refunded", "refunded"}

(* Mutant of Readable: another clock's audit times are taken as they are.  *)
ReadableAnytime(h, now) ==
  /\ ValidHistory(h)
  /\ root.captured = Captured(h) /\ root.refunded = Refunded(h)

(* Summary and history agree, and no entry was recorded in the future of   *)
(* this caller's clock.                                                    *)
Readable(h, now) ==
  /\ ValidHistory(h)
  /\ root.captured = Captured(h) /\ root.refunded = Refunded(h)
  /\ \A i \in DOMAIN h : h[i].recorded_at <= now
  /\ root.status \in RootStatus
  /\ ProjectedStatus(root, FALSE, FALSE) = root.status

NotInFuture(c, now) == c.occurred # None => c.occurred <= now

Replays(h, c) == \E i \in DOMAIN h : h[i].command = c

CanRecord(h, c, now) ==
  /\ Readable(h, now)
  /\ NotInFuture(c, now)
  /\ c.id \notin Ids(h)
  /\ CanMake(h, c, now)
  /\ Extends(Append(h, MakeEntry(h, c, now)))

CanReplay(h, c, now) == Readable(h, now) /\ NotInFuture(c, now) /\ Replays(h, c)

(* Mutant of Summarized: the status of before the commit is kept. *)
SummarizedLate(p, h) == [p EXCEPT !.captured = Captured(h), !.refunded = Refunded(h)]

Summarized(p, h) ==
  LET updated == [p EXCEPT !.captured = Captured(h), !.refunded = Refunded(h)]
  IN  [updated EXCEPT !.status = ProjectedStatus(updated, FALSE, FALSE)]

-----------------------------------------------------------------------------
(* Calls: commit_semantic_transition around read, plan and commit.         *)

Idle == [phase |-> "idle"]

(* A plan is kept as what it was made from: its version is the length of   *)
(* the history that was read.  begun is the version of the first read.     *)
Planned(c, now, left, begun) ==
  [phase |-> "planned", command |-> c, now |-> now, version |-> Len(history),
   left |-> left, begun |-> begun]

RecordedInit ==
  /\ root \in {[required |-> Required, captured |-> 0, refunded |-> 0, hold |-> 0,
                status |-> s] : s \in {"new", "prepared"}}
  /\ history = <<>>
  /\ calls = [w \in Callers |-> Idle]

(* A refusal raises and commits nothing: it is no step. *)
Start(w, c) ==
  /\ calls[w].phase = "idle"
  /\ \E now \in Times :
       /\ CanRecord(history, c, now)
       /\ calls' = [calls EXCEPT ![w] = Planned(c, now, Attempts, Len(history))]
  /\ UNCHANGED <<root, history>>

(* The retained entry is returned; nothing is committed. *)
Replay(w, c) ==
  /\ calls[w].phase = "idle"
  /\ \E now \in Times : CanReplay(history, c, now)
  /\ UNCHANGED recordedVars

(* The plan's entry and facts, from the history it was made for. *)
Commit(w) ==
  LET p == calls[w]
  IN  /\ p.phase = "planned"
      /\ p.version = Len(history)
      /\ history' = Append(history, MakeEntry(history, p.command, p.now))
      /\ root' = Summarized(root, history')
      /\ calls' = [calls EXCEPT ![w] = Idle]

(* Mutant of Replan: the commit is repeated on the state read at first. *)
ReplanWithoutReading(w) ==
  /\ calls' = [calls EXCEPT ![w].left = @ - 1]
  /\ UNCHANGED <<root, history>>

(* Lost to another commit: read, plan and try again, unless the command is *)
(* now replayed or refused.                                                *)
Replan(w) ==
  LET c == calls[w].command
  IN  /\ \E now \in Times :
           calls' = [calls EXCEPT ![w] =
                       IF CanRecord(history, c, now)
                       THEN Planned(c, now, calls[w].left - 1, calls[w].begun) ELSE Idle]
      /\ UNCHANGED <<root, history>>

Conflict(w) ==
  /\ calls[w].phase = "planned"
  /\ calls[w].version # Len(history)
  /\ calls[w].left > 1
  /\ Replan(w)

(* The last conflict is raised.  A caller may also be gone at any time.    *)
Raise(w) ==
  /\ calls[w].phase = "planned"
  /\ calls[w].version # Len(history) /\ calls[w].left = 1
  /\ calls' = [calls EXCEPT ![w] = Idle]
  /\ UNCHANGED <<root, history>>

Abandon(w) ==
  /\ calls[w].phase = "planned"
  /\ calls' = [calls EXCEPT ![w] = Idle]
  /\ UNCHANGED <<root, history>>

RecordedNext ==
  \E w \in Callers :
    \/ \E c \in Commands : Start(w, c) \/ Replay(w, c)
    \/ Commit(w) \/ Conflict(w) \/ Raise(w) \/ Abandon(w)

RecordedSpec == RecordedInit /\ [][RecordedNext]_recordedVars

-----------------------------------------------------------------------------
(* Properties *)

(* Entries, summary and calls have the declared shapes.                    *)
LedgerTypeOK ==
  /\ root \in [required : {Required}, captured : Nat, refunded : Nat, hold : {0},
               status : RootStatus]
  /\ \A i \in DOMAIN history :
       /\ history[i].command \in Commands
       /\ history[i].recorded_at \in Times /\ history[i].effective_at \in Nat
       /\ history[i].signed \in Int \ {0}
  /\ \A w \in Callers : calls[w].phase = "planned" =>
       calls[w].left \in 1 .. Attempts /\ calls[w].version \in 0 .. Len(history)

(* Money counted from the movements alone: those nobody withdrew.          *)
EffectiveSum(h, kind) ==
  SumFunctionOnSet([i \in DOMAIN h |-> h[i].command.amount],
                   {i \in DOMAIN h : h[i].command.kind = kind
                                     /\ h[i].command.id \notin CorrectedIn(h)})

(* At no time was more recorded as repaid than as received, or more as     *)
(* received than is required, and the summary is what the uncorrected      *)
(* movements amount to -- in whatever order entries and corrections came.  *)
LedgerAddsUp ==
  /\ \A n \in 0 .. Len(history) :
       /\ EffectiveSum(Prefix(history, n), "repayment") <= EffectiveSum(Prefix(history, n), "receipt")
       /\ EffectiveSum(Prefix(history, n), "receipt") <= Required
  /\ root.captured = EffectiveSum(history, "receipt")
  /\ root.refunded = EffectiveSum(history, "repayment")

(* The planner never writes what it would refuse to read: every retained   *)
(* command can be replayed by any clock that is not behind.                *)
LedgerStaysReadable ==
  \A now \in Times :
    (\A i \in DOMAIN history : history[i].recorded_at <= now) =>
      \A i \in DOMAIN history : CanReplay(history, history[i].command, now)

(* Audit times follow the commit order although the clocks differ, no      *)
(* money moved after it was recorded, and a correction speaks of the time  *)
(* of the movement it withdraws.                                           *)
AuditTrailIsOrdered ==
  \A i \in DOMAIN history :
    /\ \A j \in 1 .. i : history[j].recorded_at <= history[i].recorded_at
    /\ history[i].effective_at <= history[i].recorded_at
    /\ \A j \in DOMAIN history : history[i].command.target = history[j].command.id =>
         j < i /\ history[i].effective_at = history[j].effective_at

(* A command gives up only to a store that really kept changing: one other *)
(* commit for every attempt that was lost.                                 *)
ConflictsAreReal ==
  \A w \in Callers : calls[w].phase = "planned" =>
    calls[w].version - calls[w].begun >= Attempts - calls[w].left

=============================================================================
