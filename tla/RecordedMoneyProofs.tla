------------------------- MODULE RecordedMoneyProofs -------------------------
(***************************************************************************)
(* RecordedMoney proved, for any callers, commands, clocks and number of   *)
(* attempts: a plan whose version is still current was made from what is   *)
(* stored, so that everything plan_recorded_money refuses on stays true of *)
(* the retained history.                                                   *)
(***************************************************************************)
EXTENDS RecordedMoney, SequenceTheorems, SumTheorems, TLAPS

-----------------------------------------------------------------------------
(* The invariant *)

(* The sums of project_recorded_money, and of the movements nobody         *)
(* withdrew, as sums over positions of the history.                        *)
Movements == {"receipt", "repayment"}

Tally(h, kind) == IF kind = "receipt" THEN Captured(h) ELSE Refunded(h)

Worth(h, kind) == [i \in DOMAIN h |-> IF kind = "receipt" THEN h[i].signed ELSE -h[i].signed]
Asked(h)       == [i \in DOMAIN h |-> h[i].command.amount]

Moving(h, kind)    == {i \in DOMAIN h : Moves(h, h[i]) = kind}
Effective(h, kind) ==
  {i \in DOMAIN h : h[i].command.kind = kind /\ h[i].command.id \notin CorrectedIn(h)}

Entry ==
  [command : Commands, recorded_at : Times, signed : Int \ {0}, effective_at : Nat]

Call ==
  {Idle} \cup [phase : {"planned"}, command : Commands, now : Times, version : Nat,
               left : 1 .. Attempts, begun : Nat]

RecordedTyped ==
  /\ history \in Seq(Entry)
  /\ calls \in [Callers -> Call]
  /\ root \in [required : {Required}, captured : Nat, refunded : Nat, hold : {0},
               status : RootStatus]

(* Facts and history agree, as plan_recorded_money checks of both. *)
Agrees ==
  /\ ValidHistory(history)
  /\ root.captured = Captured(history) /\ root.refunded = Refunded(history)
  /\ ProjectedStatus(root, FALSE, FALSE) = root.status

(* An identity is retained once. *)
IdsDiffer ==
  \A i \in DOMAIN history, j \in DOMAIN history :
    history[i].command.id = history[j].command.id => i = j

(* A movement took effect when its command says. *)
MovementsDated ==
  \A i \in DOMAIN history :
    history[i].command.occurred # None => history[i].effective_at = history[i].command.occurred

(* A correction names an entry that is retained. *)
TargetsRetained ==
  \A i \in DOMAIN history : history[i].command.target # None =>
    \E j \in DOMAIN history : history[j].command.id = history[i].command.target

(* A movement is signed as its kind says. *)
MovementsSigned ==
  \A i \in DOMAIN history :
    /\ history[i].command.kind = "receipt" => history[i].signed = history[i].command.amount
    /\ history[i].command.kind = "repayment" => history[i].signed = -history[i].command.amount

(* The running sums of every retained prefix count its effective movements.*)
TalliesAgree ==
  \A n \in 0 .. Len(history) : \A kind \in Movements :
    Tally(Prefix(history, n), kind) = EffectiveSum(Prefix(history, n), kind)

(* A plan that may still commit would be made again from what is stored.   *)
PlansAreFresh ==
  \A w \in Callers : calls[w].phase = "planned" =>
    /\ calls[w].version <= Len(history)
    /\ calls[w].version = Len(history) =>
         CanRecord(history, calls[w].command, calls[w].now)

RecordedInv ==
  /\ RecordedTyped /\ Agrees /\ IdsDiffer /\ MovementsDated /\ MovementsSigned
  /\ TargetsRetained /\ TalliesAgree /\ PlansAreFresh /\ AuditTrailIsOrdered /\ ConflictsAreReal

-----------------------------------------------------------------------------
(* Lemmas about commands, entries and sums *)

LEMMA CommandsTyped ==
  /\ Required \in Nat /\ Required > 0 /\ Attempts \in Nat /\ Attempts > 0
  /\ \A t \in Times : t \in Nat
  /\ \A c \in Commands : WellFormed(c)
BY RecordedInputsTyped

LEMMA LedgerSums ==
  ASSUME NEW h, NEW kind \in Movements
  PROVE  /\ Tally(h, kind) = SumFunctionOnSet(Worth(h, kind), Moving(h, kind))
         /\ EffectiveSum(h, kind) = SumFunctionOnSet(Asked(h), Effective(h, kind))
BY DEF Tally, Captured, Refunded, EffectiveSum, Worth, Asked, Moving, Effective, Movements

LEMMA NothingMoved ==
  /\ Captured(<<>>) = 0 /\ Refunded(<<>>) = 0
  /\ \A kind \in Movements : EffectiveSum(<<>>, kind) = 0
<1>1. DOMAIN <<>> = {}
  OBVIOUS
<1>2. \A kind \in Movements : Moving(<<>>, kind) = {} /\ Effective(<<>>, kind) = {}
  BY <1>1 DEF Moving, Effective
<1>3. \A kind \in Movements : Tally(<<>>, kind) = 0 /\ EffectiveSum(<<>>, kind) = 0
  BY <1>2, LedgerSums, SumEmpty
<1> QED
  BY <1>3 DEF Tally, Movements

-----------------------------------------------------------------------------
(* Histories *)

LEMMA PrefixesOfLonger ==
  ASSUME NEW S, NEW h \in Seq(S), NEW e \in S
  PROVE  /\ Append(h, e) \in Seq(S) /\ Len(Append(h, e)) = Len(h) + 1
         /\ DOMAIN Append(h, e) = 1 .. Len(h) + 1 /\ DOMAIN h = 1 .. Len(h)
         /\ Len(h) \in Nat
         /\ \A i \in 1 .. Len(h) : Append(h, e)[i] = h[i]
         /\ Append(h, e)[Len(h) + 1] = e
         /\ \A n \in 0 .. Len(h) : Prefix(Append(h, e), n) = Prefix(h, n)
         /\ Prefix(Append(h, e), Len(h) + 1) = Append(h, e)
<1> DEFINE g == Append(h, e)
<1>1. /\ g \in Seq(S) /\ Len(g) = Len(h) + 1 /\ Len(h) \in Nat
      /\ DOMAIN g = 1 .. Len(h) + 1 /\ DOMAIN h = 1 .. Len(h)
      /\ \A i \in 1 .. Len(h) : g[i] = h[i]
      /\ g[Len(h) + 1] = e
  BY AppendProperties
<1>2. Prefix(g, Len(h) + 1) = g
  BY <1>1, SubSeqFull DEF Prefix
<1>3. ASSUME NEW n \in 0 .. Len(h) PROVE Prefix(g, n) = Prefix(h, n)
  <2> HIDE DEF g
  <2>1. n \in 0 .. Len(g)
    BY <1>1
  <2>2. SubSeq(g, 1, n) = Restrict(g, 1 .. n) /\ SubSeq(h, 1, n) = Restrict(h, 1 .. n)
    BY <1>1, <2>1, SubSeqRestrict
  <2>3. \A i \in 1 .. n : g[i] = h[i]
    BY <1>1
  <2> QED
    BY <2>2, <2>3 DEF Restrict, Prefix
<1> QED
  BY <1>1, <1>2, <1>3

(* The retained entry of an identity, and the identity of an entry. *)
LEMMA EntryFound ==
  ASSUME NEW h, NEW id \in Ids(h)
  PROVE  \E j \in DOMAIN h : h[j].command.id = id /\ EntryOf(h, id) = h[j]
BY DEF Ids, EntryOf

(* What _make_entry makes of a command that plan_recorded_money accepts. *)
LEMMA EntriesFit ==
  ASSUME RecordedInv, NEW c \in Commands, NEW now \in Times, CanRecord(history, c, now),
         NEW e, e = MakeEntry(history, c, now)
  PROVE  /\ e \in Entry /\ e.command = c /\ e.recorded_at = now /\ e.effective_at <= now
         /\ c.occurred # None => e.effective_at = c.occurred
         /\ c.kind = "receipt" => e.signed = c.amount
         /\ c.kind = "repayment" => e.signed = -c.amount
         /\ c.target # None =>
              \E j \in DOMAIN history :
                /\ history[j].command.id = c.target
                /\ e.effective_at = history[j].effective_at /\ e.signed = -history[j].signed
<1>1. /\ WellFormed(c) /\ now \in Nat /\ CanMake(history, c, now)
      /\ \A i \in DOMAIN history : history[i] \in Entry
  BY CommandsTyped DEF CanRecord, RecordedInv, RecordedTyped
<1>2. CASE c.kind = "correction"
  <2>1. PICK j \in DOMAIN history :
          history[j].command.id = c.target /\ EntryOf(history, c.target) = history[j]
    BY <1>1, <1>2, EntryFound DEF CanMake
  <2>2. e = [command |-> c, recorded_at |-> now, signed |-> -history[j].signed,
             effective_at |-> history[j].effective_at]
    BY <1>2, <2>1 DEF MakeEntry
  <2>3. history[j].effective_at <= history[j].recorded_at /\ history[j].recorded_at <= now
    BY <2>1 DEF RecordedInv, AuditTrailIsOrdered, CanRecord, Readable
  <2>4. history[j] \in Entry /\ history[j].recorded_at \in Nat
    BY <1>1, <2>1, CommandsTyped DEF Entry
  <2>5. -history[j].signed \in Int \ {0} /\ history[j].effective_at \in Nat
    BY <2>4 DEF Entry
  <2>6. e \in Entry
    BY <2>2, <2>5 DEF Entry
  <2> QED
    BY <1>1, <1>2, <2>1, <2>2, <2>3, <2>4, <2>5, <2>6 DEF WellFormed
<1>3. CASE c.kind # "correction"
  <2>1. c.occurred <= now /\ c.occurred \in Nat /\ c.amount \in Nat \ {0} /\ c.target = None
    BY <1>1, <1>3 DEF CanMake, WellFormed
  <2>2. CASE c.kind = "receipt"
    <3>1. e = [command |-> c, recorded_at |-> now, signed |-> c.amount,
               effective_at |-> c.occurred]
      BY <2>2 DEF MakeEntry
    <3> QED
      BY <2>1, <2>2, <3>1 DEF Entry
  <2>3. CASE c.kind = "repayment"
    <3>1. e = [command |-> c, recorded_at |-> now, signed |-> -c.amount,
               effective_at |-> c.occurred]
      BY <2>3 DEF MakeEntry
    <3> QED
      BY <2>1, <2>3, <3>1 DEF Entry
  <2> QED
    BY <1>1, <1>3, <2>2, <2>3 DEF WellFormed, Kinds
<1> QED
  BY <1>2, <1>3

(* One entry more changes the running sum of a kind as it changes the sum  *)
(* of its effective movements: a movement adds its amount to both, and a   *)
(* correction takes the amount of the one it withdraws from both.          *)
LEMMA TallyGrows ==
  ASSUME RecordedInv, NEW c \in Commands, NEW now \in Times, CanRecord(history, c, now),
         NEW kind \in Movements
  PROVE  LET g == Append(history, MakeEntry(history, c, now))
         IN  Tally(g, kind) = EffectiveSum(g, kind)
<1> DEFINE h == history
           e == MakeEntry(h, c, now)
           g == Append(h, e)
           n == Len(h)
<1> USE DEF Movements
<1>1. /\ e \in Entry /\ e.command = c
      /\ c.kind = "receipt" => e.signed = c.amount
      /\ c.kind = "repayment" => e.signed = -c.amount
      /\ c.target # None => \E j \in DOMAIN h : h[j].command.id = c.target
                                                /\ e.signed = -h[j].signed
  BY EntriesFit
<1>2. /\ h \in Seq(Entry) /\ n \in Nat /\ WellFormed(c)
      /\ CanMake(h, c, now) /\ c.id \notin Ids(h)
  BY CommandsTyped DEF RecordedInv, RecordedTyped, CanRecord
<1> HIDE DEF e
<1>3. /\ g \in Seq(Entry) /\ DOMAIN g = 1 .. n + 1 /\ DOMAIN h = 1 .. n
      /\ \A i \in 1 .. n : g[i] = h[i] /\ g[n + 1] = e
      /\ g = Append(h, e)
  BY <1>1, <1>2, PrefixesOfLonger
<1> HIDE DEF g
<1>4. Tally(h, kind) = EffectiveSum(h, kind)
  <2>1. Prefix(h, n) = h
    BY <1>2, SubSeqFull DEF Prefix
  <2> QED
    BY <1>2, <2>1 DEF RecordedInv, TalliesAgree
<1>5. \A i \in 1 .. n : /\ h[i] \in Entry /\ WellFormed(h[i].command)
                        /\ h[i].command.id # None /\ h[i].command.id \in Ids(h)
  <2>1. \A i \in 1 .. n : h[i] \in Entry /\ h[i].command.id \in Ids(h)
    BY <1>2, <1>3 DEF Ids
  <2> QED
    BY <2>1, CommandsTyped DEF Entry, WellFormed
(* What older entries move and withdraw is as before. *)
<1>6. \A j \in 1 .. n : /\ EntryOf(h, h[j].command.id) = h[j]
                        /\ EntryOf(g, h[j].command.id) = h[j]
  <2> SUFFICES ASSUME NEW j \in 1 .. n
               PROVE  /\ EntryOf(h, h[j].command.id) = h[j]
                      /\ EntryOf(g, h[j].command.id) = h[j]
    OBVIOUS
  <2>1. \A i \in 1 .. n : h[i].command.id = h[j].command.id => i = j
    BY <1>3 DEF RecordedInv, IdsDiffer
  <2>2. \A i \in 1 .. n + 1 : g[i].command.id = h[j].command.id => i = j
    BY <1>1, <1>2, <1>3, <1>5, <2>1
  <2>3. (CHOOSE i \in DOMAIN h : h[i].command.id = h[j].command.id) = j
    BY <1>3, <2>1
  <2>4. (CHOOSE i \in DOMAIN g : g[i].command.id = h[j].command.id) = j
    BY <1>2, <1>3, <2>2
  <2> QED
    BY <1>3, <2>3, <2>4 DEF EntryOf
<1>7. \A i \in 1 .. n : Moves(g, g[i]) = Moves(h, h[i])
  <2> SUFFICES ASSUME NEW i \in 1 .. n PROVE Moves(g, h[i]) = Moves(h, h[i])
    BY <1>3
  <2>1. CASE h[i].command.target = None
    BY <2>1 DEF Moves
  <2>2. CASE h[i].command.target # None
    <3>1. PICK j \in 1 .. n : h[j].command.id = h[i].command.target
      BY <1>3, <2>2 DEF RecordedInv, TargetsRetained
    <3> QED
      BY <1>6, <2>2, <3>1 DEF Moves
  <2> QED
    BY <2>1, <2>2
<1>8. Moving(g, kind) = Moving(h, kind) \cup (IF Moves(g, e) = kind THEN {n + 1} ELSE {})
  BY <1>2, <1>3, <1>7 DEF Moving
<1>9. CorrectedIn(g) = CorrectedIn(h) \cup ({c.target} \ {None})
  BY <1>1, <1>2, <1>3 DEF CorrectedIn
<1>10. CorrectedIn(h) \subseteq Ids(h)
  BY <1>3, <1>5 DEF CorrectedIn, RecordedInv, TargetsRetained
(* The sums of older entries are as before. *)
<1>11. /\ IsFiniteSet(Moving(h, kind)) /\ IsFiniteSet(Effective(h, kind))
       /\ Moving(h, kind) \subseteq 1 .. n /\ Effective(h, kind) \subseteq 1 .. n
  <2>1. IsFiniteSet(1 .. n)
    BY <1>2, FS_Interval
  <2>2. Moving(h, kind) \in SUBSET (1 .. n) /\ Effective(h, kind) \in SUBSET (1 .. n)
    BY <1>3 DEF Moving, Effective
  <2> QED
    BY <2>1, <2>2, FS_Subset
<1>12. /\ \A i \in 1 .. n : /\ Worth(g, kind)[i] = Worth(h, kind)[i]
                            /\ Worth(h, kind)[i] \in Int
                            /\ Asked(g)[i] = Asked(h)[i] /\ Asked(h)[i] = h[i].command.amount
       /\ Worth(g, kind)[n + 1] = (IF kind = "receipt" THEN e.signed ELSE -e.signed)
       /\ Worth(g, kind)[n + 1] \in Int /\ Asked(g)[n + 1] = c.amount
  <2>1. e.signed \in Int /\ \A i \in 1 .. n : h[i].signed \in Int
    BY <1>1, <1>5 DEF Entry
  <2> QED
    BY <1>1, <1>2, <1>3, <2>1 DEF Worth, Asked
<1>13. /\ SumFunctionOnSet(Worth(g, kind), Moving(h, kind)) = Tally(h, kind)
       /\ SumFunctionOnSet(Asked(g), Effective(h, kind)) = EffectiveSum(h, kind)
       /\ Tally(h, kind) \in Int
  <2>1. /\ \A i \in Moving(h, kind) : Worth(g, kind)[i] = Worth(h, kind)[i]
        /\ \A i \in Effective(h, kind) : Asked(g)[i] = Asked(h)[i]
        /\ \A i \in Moving(h, kind) : Worth(h, kind)[i] \in Int
    BY <1>11, <1>12
  <2>2. SumFunctionOnSet(Worth(g, kind), Moving(h, kind))
        = SumFunctionOnSet(Worth(h, kind), Moving(h, kind))
    BY <1>11, <2>1, SumsOfTheSame
  <2>3. SumFunctionOnSet(Asked(g), Effective(h, kind))
        = SumFunctionOnSet(Asked(h), Effective(h, kind))
    BY <1>11, <2>1, SumsOfTheSame
  <2>4. SumFunctionOnSet(Worth(h, kind), Moving(h, kind)) \in Int
    BY <1>11, <2>1, SumsAreIntegers
  <2> QED
    BY <2>2, <2>3, <2>4, LedgerSums
<1>14. \A i \in Effective(h, kind) : Asked(g)[i] \in Int
  BY <1>5, <1>11, <1>12 DEF Effective, WellFormed
<1>15. \A i \in 1 .. n + 1 :
         i \in Effective(g, kind) <=>
           IF i = n + 1 THEN c.kind = kind
           ELSE i \in Effective(h, kind) /\ (c.target # None => h[i].command.id # c.target)
  <2>1. c.id \notin CorrectedIn(g)
    <3>1. c.target # None => c.target \in Ids(h)
      BY <1>1 DEF Ids
    <3> QED
      BY <1>2, <1>9, <1>10, <3>1
  <2>2. g[n + 1].command = c /\ \A i \in 1 .. n : g[i] = h[i]
    BY <1>1, <1>3
  <2> SUFFICES ASSUME NEW i \in 1 .. n + 1
               PROVE  i \in Effective(g, kind) <=>
                        IF i = n + 1 THEN c.kind = kind
                        ELSE /\ i \in Effective(h, kind)
                             /\ c.target # None => h[i].command.id # c.target
    OBVIOUS
  <2>3. CASE i = n + 1
    BY <1>3, <2>1, <2>2, <2>3 DEF Effective
  <2>4. CASE i # n + 1
    <3>1. i \in 1 .. n
      BY <1>2, <2>4
    <3> QED
      BY <1>3, <1>5, <1>9, <2>2, <2>4, <3>1 DEF Effective
  <2> QED
    BY <2>3, <2>4
<1>16. Effective(g, kind) \subseteq 1 .. n + 1 /\ n + 1 \notin 1 .. n
  BY <1>2, <1>3 DEF Effective
<1>17. c.target = None => c.kind \in Movements /\ Moves(g, e) = c.kind
  BY <1>1, <1>2 DEF WellFormed, Kinds, Moves
<1>18. CASE c.target = None /\ c.kind # kind
  <2>1. Moving(g, kind) = Moving(h, kind)
    BY <1>8, <1>17, <1>18
  <2>2. Effective(g, kind) = Effective(h, kind)
    <3>1. \A i \in 1 .. n + 1 : i \in Effective(g, kind) <=> i \in Effective(h, kind)
      BY <1>11, <1>15, <1>16, <1>18
    <3>2. Effective(h, kind) \subseteq 1 .. n + 1
      BY <1>2, <1>11
    <3> QED
      BY <1>16, <3>1, <3>2
  <2> QED
    BY <1>4, <1>13, <2>1, <2>2, LedgerSums DEF g, e
<1>19. CASE c.target = None /\ c.kind = kind
  <2>1. /\ Moving(g, kind) = Moving(h, kind) \cup {n + 1}
        /\ Effective(g, kind) = Effective(h, kind) \cup {n + 1}
    BY <1>8, <1>11, <1>15, <1>16, <1>17, <1>19
  <2>2. Worth(g, kind)[n + 1] = c.amount /\ c.amount \in Int
    BY <1>1, <1>2, <1>12, <1>19 DEF WellFormed
  <2>3. SumFunctionOnSet(Worth(g, kind), Moving(h, kind) \cup {n + 1})
        = SumFunctionOnSet(Worth(g, kind), Moving(h, kind)) + c.amount
    <3>1. \A i \in Moving(h, kind) \cup {n + 1} : Worth(g, kind)[i] \in Int
      BY <1>11, <1>12
    <3>2. n + 1 \notin Moving(h, kind)
      BY <1>11, <1>16
    <3> QED
      BY <1>11, <2>2, <3>1, <3>2, SumWith
  <2>4. SumFunctionOnSet(Asked(g), Effective(h, kind) \cup {n + 1})
        = SumFunctionOnSet(Asked(g), Effective(h, kind)) + c.amount
    <3>1. \A i \in Effective(h, kind) \cup {n + 1} : Asked(g)[i] \in Int
      BY <1>12, <1>14, <2>2
    <3>2. n + 1 \notin Effective(h, kind)
      BY <1>11, <1>16
    <3> QED
      BY <1>11, <1>12, <3>1, <3>2, SumWith
  <2> QED
    BY <1>4, <1>13, <2>1, <2>3, <2>4, LedgerSums DEF g, e
<1>20. CASE c.target # None
  <2>1. PICK j \in 1 .. n : h[j].command.id = c.target /\ e.signed = -h[j].signed
    BY <1>1, <1>3, <1>20
  <2>2. /\ c.kind = "correction" /\ EntryOf(h, c.target) = h[j] /\ EntryOf(g, c.target) = h[j]
        /\ h[j].command.kind \in Movements /\ c.target \notin CorrectedIn(h)
    BY <1>2, <1>5, <1>6, <1>20, <2>1 DEF CanMake, WellFormed, Kinds
  <2>3. Moves(g, e) = h[j].command.kind
    BY <1>1, <1>20, <2>2 DEF Moves
  <2>4. \A i \in 1 .. n : h[i].command.id = c.target <=> i = j
    BY <1>3, <2>1 DEF RecordedInv, IdsDiffer
  <2>5. j \in Effective(h, kind) <=> h[j].command.kind = kind
    BY <1>3, <2>1, <2>2 DEF Effective
  <2>6. Effective(g, kind) = Effective(h, kind) \ {j}
    BY <1>11, <1>15, <1>16, <1>20, <2>2, <2>4
  <2>7. CASE h[j].command.kind # kind
    <3>1. Moving(g, kind) = Moving(h, kind) /\ Effective(g, kind) = Effective(h, kind)
      BY <1>8, <2>3, <2>5, <2>6, <2>7
    <3> QED
      BY <1>4, <1>13, <3>1, LedgerSums DEF g, e
  <2>8. CASE h[j].command.kind = kind
    <3>1. Moving(g, kind) = Moving(h, kind) \cup {n + 1}
      BY <1>8, <2>3, <2>8
    <3> DEFINE a == h[j].command.amount
    <3>2. a \in Int /\ Worth(g, kind)[n + 1] = -a /\ Asked(g)[j] = a
      <4>1. a \in Int
        BY <1>5, <2>1, <2>8 DEF WellFormed
      <4>2. h[j].signed = IF kind = "receipt" THEN a ELSE -a
        BY <1>3, <2>1, <2>8 DEF RecordedInv, MovementsSigned
      <4> QED
        BY <1>12, <2>1, <4>1, <4>2
    <3> HIDE DEF a
    <3>3. SumFunctionOnSet(Worth(g, kind), Moving(h, kind) \cup {n + 1})
          = SumFunctionOnSet(Worth(g, kind), Moving(h, kind)) + (-a)
      <4>1. \A i \in Moving(h, kind) \cup {n + 1} : Worth(g, kind)[i] \in Int
        BY <1>11, <1>12
      <4>2. n + 1 \notin Moving(h, kind)
        BY <1>11, <1>16
      <4> QED
        BY <1>11, <3>2, <4>1, <4>2, SumWith
    <3>4. SumFunctionOnSet(Asked(g), Effective(h, kind))
          = a + SumFunctionOnSet(Asked(g), Effective(h, kind) \ {j})
      BY <1>11, <1>14, <2>5, <2>8, <3>2, SumWithout
    <3>5. SumFunctionOnSet(Asked(g), Effective(h, kind) \ {j}) \in Int
      <4>1. IsFiniteSet(Effective(h, kind) \ {j})
        BY <1>11, FS_RemoveElement
      <4> QED
        BY <1>14, <4>1, SumsAreIntegers
    <3>6. Tally(g, kind) = Tally(h, kind) + (-a)
      BY <1>13, <3>1, <3>3, LedgerSums
    <3>7. EffectiveSum(h, kind) = a + EffectiveSum(g, kind) /\ EffectiveSum(g, kind) \in Int
      BY <1>13, <2>6, <3>4, <3>5, LedgerSums
    <3>8. Tally(g, kind) = EffectiveSum(g, kind)
      BY <1>4, <1>13, <3>2, <3>6, <3>7
    <3> QED
      BY <3>8 DEF g, e
  <2> QED
    BY <2>7, <2>8
<1> QED
  BY <1>18, <1>19, <1>20

(* The facts of a plan: project_payment_status of the sums. *)
LEMMA SummaryAgrees ==
  ASSUME RecordedTyped, NEW h, Funded(h)
  PROVE  /\ Summarized(root, h) \in [required : {Required}, captured : Nat, refunded : Nat,
                                     hold : {0}, status : RootStatus]
         /\ Summarized(root, h).captured = Captured(h)
         /\ Summarized(root, h).refunded = Refunded(h)
         /\ ProjectedStatus(Summarized(root, h), FALSE, FALSE) = Summarized(root, h).status
<1> DEFINE r == [root EXCEPT !.captured = Captured(h), !.refunded = Refunded(h)]
           s == ProjectedStatus(r, FALSE, FALSE)
           t == Summarized(root, h)
<1>1. Required \in Nat /\ Required > 0 /\ Captured(h) \in Nat /\ Refunded(h) \in Nat
      /\ Captured(h) <= Required /\ Refunded(h) <= Captured(h)
  BY CommandsTyped DEF Funded
<1>0. /\ root.required = Required /\ root.hold = 0 /\ root.status \in RootStatus
      /\ root = [required |-> Required, captured |-> root.captured,
                 refunded |-> root.refunded, hold |-> 0, status |-> root.status]
  BY DEF RecordedTyped
<1>2. /\ r.required = Required /\ r.captured = Captured(h) /\ r.refunded = Refunded(h)
      /\ r.hold = 0 /\ r.status = root.status /\ root.status \in RootStatus
  BY <1>0
<1>3. t = [r EXCEPT !.status = s] /\ r = [root EXCEPT !.captured = Captured(h), !.refunded = Refunded(h)]
  BY DEF Summarized
<1>4. s \in RootStatus
  BY <1>1, <1>2 DEF ProjectedStatus, RootStatus, SettlementStatus
<1>5. t = [required |-> Required, captured |-> Captured(h), refunded |-> Refunded(h),
           hold |-> 0, status |-> s]
  <2> HIDE DEF r, s, t
  <2> QED
    BY <1>0, <1>3
<1>6. ProjectedStatus(t, FALSE, FALSE) = s
  BY <1>1, <1>2, <1>5 DEF ProjectedStatus, RootStatus, SettlementStatus
<1> HIDE DEF r, s, t
<1>7. /\ t \in [required : {Required}, captured : Nat, refunded : Nat, hold : {0},
                status : RootStatus]
      /\ t.captured = Captured(h) /\ t.refunded = Refunded(h) /\ t.status = s
  BY <1>1, <1>4, <1>5
<1> QED
  BY <1>6, <1>7 DEF t

-----------------------------------------------------------------------------
(* Steps *)

(* A step that reads and plans: at most one call changes, and a new plan   *)
(* was made from what is stored and lost one attempt per commit it missed. *)
LEMMA PlanningKeeps ==
  ASSUME RecordedInv, UNCHANGED <<root, history>>, NEW w \in Callers, NEW r \in Call,
         calls' = [calls EXCEPT ![w] = r],
         r.phase = "planned" =>
           /\ r.version = Len(history) /\ CanRecord(history, r.command, r.now)
           /\ r.version - r.begun >= Attempts - r.left
  PROVE  RecordedInv'
<1>1. /\ RecordedTyped' /\ Agrees' /\ IdsDiffer' /\ MovementsDated' /\ MovementsSigned'
      /\ TargetsRetained' /\ TalliesAgree' /\ AuditTrailIsOrdered'
  <2>1. RecordedTyped'
    BY DEF RecordedInv, RecordedTyped
  <2>2. Agrees' /\ IdsDiffer' /\ MovementsDated' /\ MovementsSigned' /\ TalliesAgree'
    BY DEF RecordedInv, Agrees, IdsDiffer, MovementsDated, MovementsSigned, TalliesAgree
  <2>3. TargetsRetained' /\ AuditTrailIsOrdered'
    BY DEF RecordedInv, TargetsRetained, AuditTrailIsOrdered
  <2> QED
    BY <2>1, <2>2, <2>3
<1>2. \A v \in Callers : calls'[v] = r \/ calls'[v] = calls[v]
  BY DEF RecordedInv, RecordedTyped
<1>3. Len(history) \in Nat /\ calls' \in [Callers -> Call] /\ Idle.phase # "planned"
  BY DEF RecordedInv, RecordedTyped, Idle
<1>4. PlansAreFresh'
  <2> SUFFICES ASSUME NEW v \in Callers, calls'[v].phase = "planned"
               PROVE  /\ calls'[v].version <= Len(history)
                      /\ calls'[v].version = Len(history) =>
                           CanRecord(history, calls'[v].command, calls'[v].now)
    BY DEF PlansAreFresh, CanRecord, Readable
  <2>1. CASE calls'[v] = r
    BY <1>3, <2>1
  <2>2. CASE calls'[v] = calls[v]
    BY <2>2 DEF RecordedInv, PlansAreFresh
  <2> QED
    BY <1>2, <2>1, <2>2
<1>5. ConflictsAreReal'
  BY <1>2, <1>3 DEF RecordedInv, ConflictsAreReal
<1> QED
  BY <1>1, <1>4, <1>5 DEF RecordedInv

LEMMA PlanTyped ==
  ASSUME RecordedTyped, NEW c \in Commands, NEW now \in Times, NEW left \in 1 .. Attempts,
         NEW begun \in Nat
  PROVE  Planned(c, now, left, begun) \in Call
BY DEF RecordedTyped, Planned, Call

LEMMA StartKeeps ==
  ASSUME RecordedInv, NEW w \in Callers, NEW c \in Commands, Start(w, c)
  PROVE  RecordedInv'
<1> DEFINE p(now) == Planned(c, now, Attempts, Len(history))
<1>1. PICK now \in Times : CanRecord(history, c, now) /\ calls' = [calls EXCEPT ![w] = p(now)]
  BY DEF Start
<1>2. Len(history) \in Nat /\ Attempts \in 1 .. Attempts /\ Attempts \in Nat
  BY CommandsTyped DEF RecordedInv, RecordedTyped
<1>3. p(now) \in Call
  BY <1>2, PlanTyped DEF RecordedInv
<1>4. /\ p(now).version = Len(history) /\ p(now).command = c /\ p(now).now = now
      /\ p(now).begun = Len(history) /\ p(now).left = Attempts
  BY DEF Planned
<1>5. UNCHANGED <<root, history>>
  BY DEF Start
<1> HIDE DEF p
<1>6. p(now).version - p(now).begun >= Attempts - p(now).left
  BY <1>2, <1>4
<1> QED
  BY <1>1, <1>3, <1>4, <1>5, <1>6, PlanningKeeps

LEMMA ConflictKeeps ==
  ASSUME RecordedInv, NEW w \in Callers, Conflict(w)
  PROVE  RecordedInv'
<1> DEFINE c == calls[w].command
           p(now) == Planned(c, now, calls[w].left - 1, calls[w].begun)
           r(now) == IF CanRecord(history, c, now) THEN p(now) ELSE Idle
<1>1. PICK now \in Times : calls' = [calls EXCEPT ![w] = r(now)]
  BY DEF Conflict, Replan
<1>2. /\ calls[w] \in Call /\ calls[w].phase = "planned" /\ calls[w].left > 1
      /\ calls[w].version # Len(history) /\ calls[w].version <= Len(history)
      /\ calls[w].version - calls[w].begun >= Attempts - calls[w].left
  BY DEF RecordedInv, RecordedTyped, PlansAreFresh, ConflictsAreReal, Conflict
<1>3. /\ c \in Commands /\ calls[w].version \in Nat /\ calls[w].begun \in Nat
      /\ calls[w].left \in 1 .. Attempts /\ Attempts \in Nat /\ Len(history) \in Nat
  BY <1>2, CommandsTyped DEF Call, Idle, RecordedInv, RecordedTyped
<1>4. calls[w].left - 1 \in 1 .. Attempts
  BY <1>2, <1>3
<1>5. p(now) \in Call
  BY <1>3, <1>4, PlanTyped DEF RecordedInv
<1>6. /\ p(now).version = Len(history) /\ p(now).command = c /\ p(now).now = now
      /\ p(now).begun = calls[w].begun /\ p(now).left = calls[w].left - 1
  BY DEF Planned
<1>7. Len(history) - calls[w].begun >= Attempts - (calls[w].left - 1)
  <2>1. calls[w].left \in Nat
    BY <1>3
  <2>2. \A n, v, b, a, l \in Nat :
          v # n /\ v <= n /\ v - b >= a - l => n - b >= a - (l - 1)
    OBVIOUS
  <2>3. /\ calls[w].version # Len(history) /\ calls[w].version <= Len(history)
        /\ calls[w].version - calls[w].begun >= Attempts - calls[w].left
    BY <1>2
  <2>4. /\ calls[w].version \in Nat /\ calls[w].begun \in Nat
        /\ Attempts \in Nat /\ Len(history) \in Nat
    BY <1>3
  <2> QED
    BY <2>1, <2>2, <2>3, <2>4
<1>8. Idle \in Call /\ Idle.phase # "planned"
  BY DEF Call, Idle
<1>9. UNCHANGED <<root, history>>
  BY DEF Conflict, Replan
<1> HIDE DEF p
<1>10. /\ r(now) \in Call
       /\ r(now).phase = "planned" =>
            /\ r(now).version = Len(history) /\ CanRecord(history, r(now).command, r(now).now)
            /\ r(now).version - r(now).begun >= Attempts - r(now).left
  BY <1>5, <1>6, <1>7, <1>8
<1> HIDE DEF r
<1> QED
  BY <1>1, <1>9, <1>10, PlanningKeeps

LEMMA LeavingKeeps ==
  ASSUME RecordedInv, NEW w \in Callers, Raise(w) \/ Abandon(w)
  PROVE  RecordedInv'
<1>1. Idle \in Call /\ Idle.phase # "planned"
  BY DEF Call, Idle
<1>2. UNCHANGED <<root, history>> /\ calls' = [calls EXCEPT ![w] = Idle]
  BY DEF Raise, Abandon
<1> QED
  BY <1>1, <1>2, PlanningKeeps

LEMMA NothingKeeps ==
  ASSUME RecordedInv, UNCHANGED recordedVars
  PROVE  RecordedInv'
<1> UNCHANGED <<root, history, calls>>
  BY DEF recordedVars
<1>1. RecordedTyped' /\ Agrees'
  BY DEF RecordedInv, RecordedTyped, Agrees
<1>2. IdsDiffer' /\ MovementsDated' /\ MovementsSigned' /\ TargetsRetained' /\ TalliesAgree'
  BY DEF RecordedInv, IdsDiffer, MovementsDated, MovementsSigned, TargetsRetained, TalliesAgree
<1>3. AuditTrailIsOrdered' /\ ConflictsAreReal'
  BY DEF RecordedInv, AuditTrailIsOrdered, ConflictsAreReal
<1>4. PlansAreFresh'
  BY DEF RecordedInv, PlansAreFresh, CanRecord, Readable
<1> QED
  BY <1>1, <1>2, <1>3, <1>4 DEF RecordedInv

LEMMA CommitKeeps ==
  ASSUME RecordedInv, NEW w \in Callers, Commit(w)
  PROVE  RecordedInv'
<1> DEFINE c == calls[w].command
           now == calls[w].now
           e == MakeEntry(history, c, now)
           n == Len(history)
<1>1. /\ calls[w] \in Call /\ calls[w].phase = "planned" /\ calls[w].version = n
      /\ history' = Append(history, e) /\ root' = Summarized(root, history')
      /\ calls' = [calls EXCEPT ![w] = Idle]
  BY DEF RecordedInv, RecordedTyped, Commit
<1>2. c \in Commands /\ now \in Times /\ CanRecord(history, c, now)
  BY <1>1 DEF Call, Idle, RecordedInv, PlansAreFresh
<1>3. /\ e \in Entry /\ e.command = c /\ e.recorded_at = now /\ e.effective_at <= now
      /\ c.occurred # None => e.effective_at = c.occurred
      /\ c.target # None =>
           \E j \in DOMAIN history : history[j].command.id = c.target
                                     /\ e.effective_at = history[j].effective_at
      /\ c.kind = "receipt" => e.signed = c.amount
      /\ c.kind = "repayment" => e.signed = -c.amount
  BY <1>2, EntriesFit
<1> HIDE DEF e
<1>4. history \in Seq(Entry) /\ calls \in [Callers -> Call]
  BY DEF RecordedInv, RecordedTyped
<1>5. /\ history' \in Seq(Entry) /\ Len(history') = n + 1
      /\ DOMAIN history' = 1 .. n + 1 /\ DOMAIN history = 1 .. n /\ n \in Nat
      /\ \A i \in 1 .. n : history'[i] = history[i]
      /\ history'[n + 1] = e
      /\ \A k \in 0 .. n : Prefix(history', k) = Prefix(history, k)
      /\ Prefix(history', n + 1) = history'
  <2> HIDE DEF n
  <2> QED
    BY <1>1, <1>3, <1>4, PrefixesOfLonger DEF n
<1>6. Extends(history') /\ Funded(history')
  BY <1>1, <1>2 DEF CanRecord, Extends, e
<1>7. RecordedTyped' /\ Agrees'
  <2>1. /\ root' \in [required : {Required}, captured : Nat, refunded : Nat, hold : {0},
                      status : RootStatus]
        /\ root'.captured = Captured(history') /\ root'.refunded = Refunded(history')
        /\ ProjectedStatus(root', FALSE, FALSE) = root'.status
    BY <1>1, <1>6, SummaryAgrees DEF RecordedInv
  <2>2. calls' \in [Callers -> Call]
    BY <1>1, <1>4 DEF Call
  <2>3. ValidHistory(history')
    <3> SUFFICES ASSUME NEW k \in 1 .. n + 1 PROVE Extends(Prefix(history', k))
      BY <1>5 DEF ValidHistory
    <3>1. CASE k = n + 1
      BY <1>5, <1>6, <3>1
    <3>2. CASE k # n + 1
      <4>1. k \in 1 .. n
        BY <1>5, <3>2
      <4> QED
        BY <1>5, <4>1 DEF RecordedInv, Agrees, ValidHistory
    <3> QED
      BY <3>1, <3>2
  <2> QED
    BY <1>5, <2>1, <2>2, <2>3 DEF RecordedTyped, Agrees
<1>8. c.id \notin Ids(history)
  BY <1>2 DEF CanRecord
<1>9. IdsDiffer'
  <2>1. \A i \in 1 .. n : history'[i].command.id # c.id
    BY <1>5, <1>8 DEF Ids
  <2> SUFFICES ASSUME NEW i \in 1 .. n + 1, NEW j \in 1 .. n + 1,
                      history'[i].command.id = history'[j].command.id
               PROVE  i = j
    BY <1>5 DEF IdsDiffer
  <2>2. CASE i = n + 1
    BY <1>3, <1>5, <2>1, <2>2
  <2>3. CASE j = n + 1
    BY <1>3, <1>5, <2>1, <2>3
  <2>4. CASE i \in 1 .. n /\ j \in 1 .. n
    BY <1>5, <2>4 DEF RecordedInv, IdsDiffer
  <2> QED
    BY <1>5, <2>2, <2>3, <2>4
<1>10. MovementsDated'
  <2> SUFFICES ASSUME NEW i \in 1 .. n + 1, history'[i].command.occurred # None
               PROVE  history'[i].effective_at = history'[i].command.occurred
    BY <1>5 DEF MovementsDated
  <2>1. CASE i = n + 1
    BY <1>3, <1>5, <2>1
  <2>2. CASE i \in 1 .. n
    BY <1>5, <2>2 DEF RecordedInv, MovementsDated
  <2> QED
    BY <1>5, <2>1, <2>2
<1>11. PlansAreFresh' /\ ConflictsAreReal'
  <2>1. \A v \in Callers : calls'[v].phase = "planned" =>
          calls'[v] = calls[v] /\ calls[v].version < n + 1 /\ calls[v].version \in Nat
    BY <1>1, <1>4, <1>5 DEF Idle, RecordedInv, PlansAreFresh, Call
  <2>2. PlansAreFresh'
    <3> SUFFICES ASSUME NEW v \in Callers, calls'[v].phase = "planned"
                 PROVE  calls'[v].version < Len(history')
      BY <1>5, <2>1 DEF PlansAreFresh, Call
    <3> QED
      BY <1>5, <2>1
  <2> QED
    BY <2>1, <2>2 DEF RecordedInv, ConflictsAreReal
<1>12. AuditTrailIsOrdered'
  <2> SUFFICES ASSUME NEW i \in 1 .. n + 1
               PROVE  /\ \A j \in 1 .. i : history'[j].recorded_at <= history'[i].recorded_at
                      /\ history'[i].effective_at <= history'[i].recorded_at
                      /\ \A j \in 1 .. n + 1 :
                           history'[i].command.target = history'[j].command.id =>
                             j < i /\ history'[i].effective_at = history'[j].effective_at
    BY <1>5 DEF AuditTrailIsOrdered
  <2>1. c.id # None /\ now \in Nat
    BY <1>2, CommandsTyped DEF WellFormed
  <2>2. CASE i \in 1 .. n
    <3>1. history'[i] = history[i] /\ i \in DOMAIN history
      BY <1>5, <2>2
    <3>2. \A j \in 1 .. i : j \in 1 .. n /\ history'[j] = history[j]
      BY <1>5, <2>2
    <3>3. history[i].command.target # c.id
      BY <1>8, <2>1, <3>1 DEF RecordedInv, TargetsRetained, Ids
    <3>4. \A j \in 1 .. n + 1 : j \in 1 .. n \/ history'[j].command.id = c.id
      BY <1>3, <1>5
    <3> QED
      BY <1>5, <3>1, <3>2, <3>3, <3>4 DEF RecordedInv, AuditTrailIsOrdered
  <2>3. CASE i = n + 1
    <3>1. history'[i] = e
      BY <1>5, <2>3
    <3>2. \A j \in 1 .. n + 1 : history'[j].recorded_at <= now
      <4>1. \A j \in 1 .. n : history[j].recorded_at <= now
        BY <1>2, <1>5 DEF CanRecord, Readable
      <4>2. history'[n + 1].recorded_at <= now
        BY <1>3, <1>5, <2>1
      <4> QED
        BY <1>5, <4>1, <4>2
    <3>3. ASSUME NEW j \in 1 .. n + 1, c.target = history'[j].command.id
          PROVE  j \in 1 .. n /\ e.effective_at = history[j].effective_at
      <4>0. history'[j] \in Entry
        BY <1>5
      <4>1. history'[j].command.id # None
        BY <4>0, CommandsTyped DEF Entry, WellFormed
      <4>2. PICK k \in 1 .. n : history[k].command.id = c.target
                                /\ e.effective_at = history[k].effective_at
        BY <1>3, <1>5, <3>3, <4>1
      <4>3. j # n + 1
        BY <1>3, <1>5, <1>8, <3>3, <4>2 DEF Ids
      <4>4. j \in 1 .. n /\ history[j].command.id = history[k].command.id
        BY <1>5, <3>3, <4>2, <4>3
      <4> QED
        BY <1>5, <4>2, <4>4 DEF RecordedInv, IdsDiffer
    <3> QED
      BY <1>3, <1>5, <2>3, <3>1, <3>2, <3>3
  <2> QED
    BY <1>5, <2>2, <2>3
<1>13. TargetsRetained'
  <2>1. \A id \in Ids(history) : \E j \in 1 .. n : history'[j].command.id = id
    BY <1>5 DEF Ids
  <2>2. \A i \in 1 .. n + 1 : history'[i].command.target # None =>
          history'[i].command.target \in Ids(history)
    BY <1>3, <1>5 DEF Ids, RecordedInv, TargetsRetained
  <2> QED
    BY <1>5, <2>1, <2>2 DEF TargetsRetained
<1>14. MovementsSigned'
  <2> SUFFICES ASSUME NEW i \in 1 .. n + 1
               PROVE  LET f == history'[i]
                      IN  /\ f.command.kind = "receipt" => f.signed = f.command.amount
                          /\ f.command.kind = "repayment" => f.signed = -f.command.amount
    BY <1>5 DEF MovementsSigned
  <2>1. CASE i = n + 1
    BY <1>3, <1>5, <2>1
  <2>2. CASE i \in 1 .. n
    BY <1>5, <2>2 DEF RecordedInv, MovementsSigned
  <2> QED
    BY <1>5, <2>1, <2>2
<1>15. TalliesAgree'
  <2> SUFFICES ASSUME NEW k \in 0 .. n + 1, NEW kind \in Movements
               PROVE  Tally(Prefix(history', k), kind) = EffectiveSum(Prefix(history', k), kind)
    BY <1>5 DEF TalliesAgree
  <2>1. CASE k = n + 1
    BY <1>1, <1>2, <1>5, <2>1, TallyGrows DEF e
  <2>2. CASE k \in 0 .. n
    BY <1>5, <2>2 DEF RecordedInv, TalliesAgree
  <2> QED
    BY <1>5, <2>1, <2>2
<1> QED
  BY <1>7, <1>9, <1>10, <1>11, <1>12, <1>13, <1>14, <1>15 DEF RecordedInv

LEMMA RecordedStarts == RecordedInit => RecordedInv
<1> SUFFICES ASSUME RecordedInit PROVE RecordedInv
  OBVIOUS
<1> USE DEF RecordedInit
<1>1. DOMAIN history = {} /\ Len(history) = 0 /\ history \in Seq(Entry)
  OBVIOUS
<1>2. Captured(history) = 0 /\ Refunded(history) = 0
  BY NothingMoved
<1>3. PICK s \in {"new", "prepared"} :
        root = [required |-> Required, captured |-> 0, refunded |-> 0, hold |-> 0, status |-> s]
  OBVIOUS
<1>4. RecordedTyped
  BY <1>1, <1>3 DEF RecordedTyped, Call, RootStatus
<1>5. Agrees
  BY <1>1, <1>2, <1>3, CommandsTyped DEF Agrees, ValidHistory, ProjectedStatus, SettlementStatus
<1>6. \A w \in Callers : calls[w].phase # "planned"
  BY DEF Idle
<1>7. TalliesAgree
  <2>1. \A k \in 0 .. Len(history) : Prefix(history, k) = <<>>
    BY <1>1, SubSeqEmpty DEF Prefix
  <2> QED
    BY <2>1, NothingMoved DEF TalliesAgree, Tally
<1> QED
  BY <1>1, <1>4, <1>5, <1>6, <1>7 DEF RecordedInv, IdsDiffer, MovementsDated, MovementsSigned,
     TargetsRetained, PlansAreFresh, AuditTrailIsOrdered, ConflictsAreReal

LEMMA RecordedStays == RecordedInv /\ [RecordedNext]_recordedVars => RecordedInv'
<1> SUFFICES ASSUME RecordedInv, [RecordedNext]_recordedVars PROVE RecordedInv'
  OBVIOUS
<1>1. ASSUME NEW w \in Callers, NEW c \in Commands, Start(w, c) \/ Replay(w, c)
      PROVE  RecordedInv'
  BY <1>1, StartKeeps, NothingKeeps DEF Replay
<1>2. ASSUME NEW w \in Callers, Commit(w) \/ Conflict(w) \/ Raise(w) \/ Abandon(w)
      PROVE  RecordedInv'
  BY <1>2, CommitKeeps, ConflictKeeps, LeavingKeeps
<1> QED
  BY <1>1, <1>2, NothingKeeps DEF RecordedNext

LEMMA RecordedSafe == RecordedSpec => []RecordedInv
BY RecordedStarts, RecordedStays, PTL DEF RecordedSpec

-----------------------------------------------------------------------------
(* The promises *)

(* LedgerTypeOK: what recorded_money.py derives of commands and earlier    *)
(* entries has the shapes RecordedMoneyEntry and PaymentFacts declare.     *)
THEOREM LedgerTypeCorrect == RecordedSpec => []LedgerTypeOK
<1>1. RecordedInv => LedgerTypeOK
  <2> SUFFICES ASSUME RecordedInv PROVE LedgerTypeOK
    OBVIOUS
  <2>1. \A i \in DOMAIN history : history[i] \in Entry
    BY DEF RecordedInv, RecordedTyped
  <2>2. \A w \in Callers : calls[w].phase = "planned" =>
          calls[w].left \in 1 .. Attempts /\ calls[w].version \in 0 .. Len(history)
    BY DEF RecordedInv, RecordedTyped, PlansAreFresh, Call, Idle
  <2> QED
    BY <2>1, <2>2 DEF LedgerTypeOK, RecordedInv, RecordedTyped, Entry
<1> QED
  BY <1>1, RecordedSafe, PTL

(* LedgerAddsUp: the running sums of project_recorded_money count exactly  *)
(* the movements that nobody withdrew, for any history and any order of    *)
(* corrections, so that the bounds it checks bound what they amount to.    *)
THEOREM RecordedMoneyAddsUp == RecordedSpec => []LedgerAddsUp
<1>1. RecordedInv => LedgerAddsUp
  <2> SUFFICES ASSUME RecordedInv PROVE LedgerAddsUp
    OBVIOUS
  <2>1. history \in Seq(Entry) /\ Len(history) \in Nat /\ Prefix(history, Len(history)) = history
    BY SubSeqFull DEF RecordedInv, RecordedTyped, Prefix
  <2>2. \A n \in 0 .. Len(history) :
          /\ Captured(Prefix(history, n)) = EffectiveSum(Prefix(history, n), "receipt")
          /\ Refunded(Prefix(history, n)) = EffectiveSum(Prefix(history, n), "repayment")
    BY DEF RecordedInv, TalliesAgree, Tally, Movements
  <2>3. \A n \in 0 .. Len(history) : Funded(Prefix(history, n))
    <3>1. \A n \in 1 .. Len(history) : Funded(Prefix(history, n))
      BY DEF RecordedInv, Agrees, ValidHistory, Extends
    <3>2. Prefix(history, 0) = <<>>
      BY SubSeqEmpty DEF Prefix
    <3>3. Funded(<<>>)
      BY NothingMoved, CommandsTyped DEF Funded
    <3> QED
      BY <2>1, <3>1, <3>2, <3>3
  <2>4. /\ root.captured = EffectiveSum(history, "receipt")
        /\ root.refunded = EffectiveSum(history, "repayment")
    BY <2>1, <2>2 DEF RecordedInv, Agrees
  <2>5. \A n \in 0 .. Len(history) :
          /\ EffectiveSum(Prefix(history, n), "repayment")
             <= EffectiveSum(Prefix(history, n), "receipt")
          /\ EffectiveSum(Prefix(history, n), "receipt") <= Required
    BY <2>2, <2>3 DEF Funded
  <2> QED
    BY <2>4, <2>5 DEF LedgerAddsUp
<1> QED
  BY <1>1, RecordedSafe, PTL

(* LedgerStaysReadable: a history that was written by the planner is never *)
(* refused by it, but for a clock behind its last entry.                   *)
THEOREM HistoryStaysReadable == RecordedSpec => []LedgerStaysReadable
<1>1. RecordedInv => LedgerStaysReadable
  <2> SUFFICES ASSUME RecordedInv, NEW now \in Times,
                      \A i \in DOMAIN history : history[i].recorded_at <= now,
                      NEW i \in DOMAIN history
               PROVE  CanReplay(history, history[i].command, now)
    BY DEF LedgerStaysReadable
  <2>1. Readable(history, now)
    BY DEF RecordedInv, RecordedTyped, Agrees, Readable
  <2>2. history[i] \in Entry
    BY DEF RecordedInv, RecordedTyped
  <2>3. history[i].effective_at <= history[i].recorded_at /\ history[i].recorded_at <= now
    BY DEF RecordedInv, AuditTrailIsOrdered
  <2>4. /\ history[i].recorded_at \in Nat /\ now \in Nat /\ history[i].effective_at \in Nat
    BY <2>2, CommandsTyped DEF Entry
  <2>5. NotInFuture(history[i].command, now)
    BY <2>3, <2>4 DEF RecordedInv, MovementsDated, NotInFuture
  <2> QED
    BY <2>1, <2>5 DEF CanReplay, Replays
<1> QED
  BY <1>1, RecordedSafe, PTL

(* AuditTrailIsOrdered: no integration's clock can write into the past of  *)
(* what another one recorded, and corrections keep their business time.    *)
THEOREM AuditTrailStaysOrdered == RecordedSpec => []AuditTrailIsOrdered
<1>1. RecordedInv => AuditTrailIsOrdered
  BY DEF RecordedInv
<1> QED
  BY <1>1, RecordedSafe, PTL

(* ConflictsAreReal: commit_semantic_transition spends an attempt only on  *)
(* a commit that really came between.                                      *)
THEOREM AttemptsAreLostToCommits == RecordedSpec => []ConflictsAreReal
<1>1. RecordedInv => ConflictsAreReal
  BY DEF RecordedInv
<1> QED
  BY <1>1, RecordedSafe, PTL

=============================================================================
