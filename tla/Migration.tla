------------------------------ MODULE Migration ------------------------------
(***************************************************************************)
(* The cutover of durable-storage.md: every task of the released flow is   *)
(* stopped, the stored payment is mapped to durable facts by               *)
(* durable/migration.py, and from then on only the durable repository      *)
(* writes.  The provider knows nothing of it: it settles what was in       *)
(* flight and redelivers any notice it ever sent.                          *)
(***************************************************************************)
EXTENDS PaymentFlow, DurableRepository

allVars == <<legacyVars, vars>>

-----------------------------------------------------------------------------
(* plan_migration *)

LegacyPendingStatuses == {"charge_started", "refund_started"}

(* _financial_record_is_ambiguous *)
Ambiguous(p) == p.status \notin PaymentStatus \/ ~ValidAmounts(p)

Findings(p) ==
  {finding \in {"ambiguous", "pending", "event_history"} :
     \/ finding = "ambiguous"     /\ Ambiguous(p)
     \/ finding = "pending"       /\ p.status \in LegacyPendingStatuses
     \/ finding = "event_history" /\ p.remembered # {}}

BlockingFindings == {"ambiguous", "pending"}

(* Mutant of MigratedFacts: sound balances are all that is asked for. *)
MigratedIfAddingUp(p) ==
  [required |-> p.required, captured |-> p.captured, refunded |-> p.refunded,
   hold |-> p.hold, status |-> p.status, external |-> p.external, fraud |-> p.fraud,
   reconcile |-> Ambiguous(p), conflicts |-> {}]

(* Balances, status and handles exactly as stored; no replay and operation *)
(* records; the history of events stays readable and is trusted by nobody. *)
MigratedFacts(p) ==
  [required |-> p.required, captured |-> p.captured, refunded |-> p.refunded,
   hold |-> p.hold, status |-> p.status, external |-> p.external, fraud |-> p.fraud,
   reconcile |-> Findings(p) \cap BlockingFindings # {}, conflicts |-> {}]

-----------------------------------------------------------------------------
(* Types *)

Row ==
  [required : Nat, captured : Nat, refunded : Nat, hold : Nat, status : PaymentStatus,
   external : Optional(ExternalIds), fraud : FraudStatus, remembered : SUBSET EventId]

Update ==
  [event : Optional(PaymentEvent), fraud_event : {None}, paid : Optional(Nat),
   refunded : Optional(Nat), locked : Optional(Nat), external : Optional(ExternalIds),
   event_id : Optional(EventId)]

ProviderRecord ==
  [ordered : BOOLEAN, authorized : BOOLEAN, hold : Nat, captured : Nat, refunded : Nat,
   charging : Nat, refunding : Nat]

(* What the provider of a payment of the required amount may have moved,   *)
(* may still move, and is about to.                                        *)
Funds(p, required) ==
  /\ p \in ProviderRecord
  /\ p.captured + p.hold <= required
  /\ p.charging <= p.hold
  /\ p.refunded + p.refunding <= p.captured
  /\ ~p.authorized => p.captured + p.hold = 0

(* An event is remembered because its total was applied. *)
Booked(p) ==
  \A total \in 0 .. p.required :
    /\ EventName("payment", total) \in p.remembered => total <= p.captured
    /\ EventName("refund", total) \in p.remembered => total <= p.refunded

(* What a deployment may be found in: the stored payment may be damaged,   *)
(* but its totals do not claim more than the provider moved.               *)
ASSUME OpeningsTyped ==
  /\ OrderIds \subseteq ExternalIds
  /\ MaxCalls \in Nat
  /\ \A opening \in Openings :
       /\ opening.row \in Row /\ Booked(opening.row)
       /\ Funds(opening.provider, opening.row.required)
       /\ opening.row.captured <= opening.provider.captured
       /\ opening.row.refunded <= opening.provider.refunded
       /\ \A family \in {"payment", "refund"}, total \in 0 .. opening.row.required :
            EventName(family, total) \in EventId

ASSUME NoneIsNoRecord == None \notin PaymentFacts /\ None \notin Update

(* Nothing the provider moved before is missing from the stored totals. *)
TotalsKnownAtOpening ==
  \A opening \in Openings :
    /\ opening.provider.captured <= opening.row.captured
    /\ opening.provider.refunded <= opening.row.refunded

-----------------------------------------------------------------------------
Migrated == facts # None

MigrationInit ==
  /\ LegacyInit
  /\ facts  = None
  /\ ops    = [id \in OpId |-> Absent]
  /\ replay = [e \in EventId |-> None]
  /\ review = [w \in Reviewers |-> None]

Cutover ==
  /\ ~Migrated
  /\ \A t \in Tasks : tasks[t].phase = "idle"
  /\ facts' = MigratedFacts(row)
  /\ UNCHANGED <<legacyVars, ops, replay, review>>

(* A notice as the durable flow reads it. *)
Claimed(u) == [field \in DOMAIN NoClaim |-> IF field \in DOMAIN u THEN u[field] ELSE NoClaim[field]]

HearDurably(u) ==
  /\ Migrated
  /\ Observe(Claimed(u)) \/ ObserveAgain(Claimed(u)) \/ ObserveImpossible(Claimed(u))
  /\ UNCHANGED legacyVars

(* A command is reserved; what becomes of it is DurableFlow's subject. *)
Command(i) == Migrated /\ Reserve(i) /\ UNCHANGED legacyVars

MigrationNext ==
  \/ ~Migrated /\ LegacyNext /\ UNCHANGED vars
  \/ Cutover
  \/ Migrated /\ Provider /\ UNCHANGED vars
  \/ \E u \in sent : HearDurably(u)
  \/ \E i \in Intents : Command(i)

MigrationSpec == MigrationInit /\ [][MigrationNext]_allVars

-----------------------------------------------------------------------------
(* Properties *)

(* The stored payment, every task and the provider have the shape declared *)
(* and, whatever interleaves, no balance that did not come in damaged      *)
(* becomes impossible.                                                     *)
LegacyTypeOK ==
  /\ row \in Row
  /\ ValidAmounts(row) \/ \E opening \in Openings : row = opening.row
  /\ \A t \in Tasks :
       /\ tasks[t].phase \in {"idle", "calling", "answered"}
       /\ tasks[t].call \in Optional(CallType)
       /\ tasks[t].payment \in Optional(Row)
  /\ trouble \subseteq {"overlap", "alarm", "failure", "abandoned", "mixed"}
  /\ calls \in 0 .. MaxCalls
  /\ Migrated => facts \in PaymentFacts

(* What core believes of the payment's money. *)
Books == IF Migrated THEN facts ELSE row

(* Workers overwrite each other, answers get lost, notices repeat: money   *)
(* may be missing from the books, but none is in them that the provider    *)
(* did not move.                                                           *)
BooksNeverOverstate ==
  /\ Books.captured <= provider.captured
  /\ Books.refunded <= provider.refunded

(* Whether the books would still take the notice. *)
Open(u) ==
  IF Migrated THEN replay[u.event_id] = None ELSE ~Remembers(row, u)

(* While calls do not overlap, no call is abandoned and nobody was told to *)
(* reconcile -- whatever else fails --, money the provider moved is on its *)
(* way into the books: in an answer being recorded, or in a notice that    *)
(* is not taken for a repetition.                                          *)
MovedMoneyIsKnown ==
  trouble \subseteq {"failure"} =>
    /\ provider.captured > Books.captured =>
         \/ \E t \in Tasks : tasks[t].phase = "answered" /\ tasks[t].call = "charge"
         \/ CapturedNotice(provider.captured) \in sent /\ Open(CapturedNotice(provider.captured))
    /\ provider.refunded > Books.refunded =>
         RefundedNotice(provider.refunded) \in sent /\ Open(RefundedNotice(provider.refunded))

(* durable-storage.md: a notice the released flow applied is applied again *)
(* after the migration, harmlessly to the totals.                          *)
RedeliveryIsHarmless ==
  [][\A u \in sent :
       Remembers(row, u) /\ HearDurably(u) =>
         facts'.captured = facts.captured /\ facts'.refunded = facts.refunded]_allVars

(* A payment whose record was ambiguous or mid-operation takes no command, *)
(* whatever the provider reports about it afterwards.                      *)
UnsettledRowsTakeNoCommands ==
  Migrated /\ (Ambiguous(row) \/ row.status \in LegacyPendingStatuses) => Reserved(ops) = {}

(* migration.py: "A record [...] which was left in the middle of a         *)
(* money-moving operation, migrates readable but mutation-blocked".        *)
InFlightMigratesBlocked ==
  Migrated /\ trouble = {} /\ (provider.charging > 0 \/ provider.refunding > 0) =>
    facts.reconcile

=============================================================================
