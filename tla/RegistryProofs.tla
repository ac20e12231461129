---------------------------- MODULE RegistryProofs ----------------------------
(***************************************************************************)
(* PluginRegistry proved, for any number of threads, calls, backends and   *)
(* entry points: whoever fills the dictionary holds the lock, and what it  *)
(* found free stays free until it is placed.                               *)
(***************************************************************************)
EXTENDS Registry, TLAPS

-----------------------------------------------------------------------------
(* The invariant *)

Queries  == {"query", "lookup"}
Requests == Queries \cup {"discover", "register", "unregister"}
Loadable == [slug : Slugs, class : Classes]

(* The phases of a thread that holds the lock. *)
Critical == {"checking", "loading", "registering", "removing", "placing"}

Thread ==
  [phase : Critical \cup {"outside", "asking", "waiting", "reading"},
   call : Requests \cup {None}, plugin : Plugin \cup {None}, at : Nat]

RegistryTyped ==
  /\ backends \in [Slugs -> Classes \cup {None}]
  /\ discovered \in BOOLEAN
  /\ threads \in [Threads -> Thread]

LockIsHeld == \A t \in Threads : threads[t].phase \in Critical => lock = t

(* What a thread carries from one step to the next. *)
Carries(r) ==
  /\ r.phase = "waiting" => r.call \in Requests
  /\ r.phase = "waiting" /\ r.call \in {"register", "unregister"} => r.plugin \in ByHand
  /\ r.phase \in {"registering", "removing"} => r.plugin \in ByHand
  /\ r.phase = "registering" => r.call = "register"
  /\ r.phase \in {"asking", "checking"} => r.call \in Queries
  /\ r.phase \in {"asking", "waiting", "checking"} => r.at = 0
  /\ r.phase = "loading" => r.call \in Queries \cup {"discover"}
  /\ r.phase = "placing" => r.plugin \in Loadable /\ r.call \in Queries \cup {"discover", "register"}

(* The entry points a thread has passed are in the dictionary, or about to *)
(* be.                                                                     *)
Loaded(r, b) ==
  /\ r.at <= Len(EntryPoints)
  /\ \A i \in 1 .. r.at : EntryPoints[i].class # None =>
       \/ b[EntryPoints[i].slug] # None
       \/ r.phase = "placing" /\ r.plugin.slug = EntryPoints[i].slug

(* What it has found out, of the backends b and of whether they are        *)
(* discovered, is still so.                                                *)
UpToDate(r, b, d) ==
  /\ r.phase = "placing" => b[r.plugin.slug] \in {None, r.plugin.class}
  /\ r.phase \in {"loading", "placing"} /\ r.call # "register" => Loaded(r, b)
  /\ r.phase \in {"loading", "placing"} /\ r.call \in Queries => ~d
  /\ r.phase = "reading" => d

DiscoveryIsComplete ==
  discovered => \A i \in DOMAIN EntryPoints :
                  EntryPoints[i].class # None => EntryPoints[i].slug \in Known \cup withdrawn

RegistryInv ==
  /\ RegistryTyped /\ LockIsHeld /\ DiscoveryIsComplete
  /\ \A t \in Threads : Carries(threads[t]) /\ UpToDate(threads[t], backends, discovered)

-----------------------------------------------------------------------------
(* Steps *)

(* A step of t that leaves t as r.  A thread outside the lock leaves the   *)
(* dictionary alone.                                                       *)
StepsTo(t, r) ==
  /\ Becomes(t, r)
  /\ r \in Thread /\ Carries(r) /\ UpToDate(r, backends', discovered')
  /\ r.phase \in Critical => lock' = t
  /\ discovered => discovered'
  /\ \/ threads[t].phase \in Critical /\ lock' \in {t, None}
     \/ lock = None /\ UNCHANGED <<backends, discovered>>
     \/ UNCHANGED <<backends, discovered, lock>>

LEMMA StepKeeps ==
  ASSUME RegistryInv, NEW t \in Threads, NEW r, StepsTo(t, r)
  PROVE  /\ threads' \in [Threads -> Thread] /\ LockIsHeld'
         /\ \A v \in Threads : Carries(threads'[v]) /\ UpToDate(threads'[v], backends', discovered')
<1>1. /\ threads' = [threads EXCEPT ![t] = r]
      /\ threads \in [Threads -> Thread]
      /\ r \in Thread
  BY DEF StepsTo, Becomes, RegistryInv, RegistryTyped
<1>2. threads'[t] = r /\ \A v \in Threads \ {t} : threads'[v] = threads[v]
  BY <1>1
<1>3. ASSUME NEW v \in Threads, v # t, threads[v].phase \in Critical
      PROVE  UNCHANGED <<backends, discovered, lock>>
  <2>1. lock = v /\ (threads[t].phase \in Critical => lock = t)
    BY <1>3 DEF RegistryInv, LockIsHeld
  <2>2. lock # None /\ lock # t
    BY <1>3, <2>1, RegistryInputsTyped
  <2> QED
    BY <2>1, <2>2 DEF StepsTo
<1>4. LockIsHeld'
  BY <1>2, <1>3 DEF LockIsHeld, StepsTo, RegistryInv
<1>5. ASSUME NEW v \in Threads, v # t
      PROVE  Carries(threads'[v]) /\ UpToDate(threads'[v], backends', discovered')
  <2>1. threads'[v] = threads[v] /\ Carries(threads[v]) /\ UpToDate(threads[v], backends, discovered)
    BY <1>2, <1>5 DEF RegistryInv
  <2>2. CASE threads[v].phase \in Critical
    BY <1>3, <1>5, <2>1, <2>2
  <2>3. CASE threads[v].phase \notin Critical
    BY <2>1, <2>3 DEF UpToDate, Critical, StepsTo
  <2> QED
    BY <2>2, <2>3
<1> QED
  BY <1>1, <1>2, <1>4, <1>5 DEF StepsTo

(* A step that neither completes a discovery nor removes a backend. *)
LEMMA StillComplete ==
  ASSUME RegistryInv, UNCHANGED <<discovered, withdrawn>>,
         \A s \in Slugs : backends[s] # None => backends'[s] # None
  PROVE  DiscoveryIsComplete'
BY DEF RegistryInv, DiscoveryIsComplete, Known

(* Returning, and going on in another phase. *)
LEMMA OutsideIsIdle ==
  /\ Outside \in Thread /\ Outside.phase = "outside" /\ Carries(Outside)
  /\ \A b, d : UpToDate(Outside, b, d)
BY DEF Outside, Thread, Carries, UpToDate, Critical

LEMMA ReturnsOutside ==
  ASSUME RegistryInv, NEW t \in Threads, Becomes(t, Outside), discovered => discovered',
         \/ threads[t].phase \in Critical /\ lock' \in {t, None}
         \/ UNCHANGED <<backends, discovered, lock>>
  PROVE  StepsTo(t, Outside)
BY OutsideIsIdle DEF StepsTo, Critical

LEMMA EntersPhase ==
  ASSUME RegistryInv, NEW t \in Threads, NEW p,
         p \in Critical \cup {"outside", "asking", "waiting", "reading"}
  PROVE  LET r == [threads[t] EXCEPT !.phase = p]
         IN  /\ r \in Thread /\ r.phase = p /\ r.call = threads[t].call
             /\ r.plugin = threads[t].plugin /\ r.at = threads[t].at
BY DEF RegistryInv, RegistryTyped, Thread

-----------------------------------------------------------------------------
(* Every action keeps the invariant *)

LEMMA BeginKeeps ==
  ASSUME RegistryInv, NEW t \in Threads, Anything(t) \/ Ask(t) \/ Answer(t)
  PROVE  RegistryInv'
<1>1. threads[t] \in Thread /\ Carries(threads[t]) /\ UpToDate(threads[t], backends, discovered)
  BY DEF RegistryInv, RegistryTyped
<1>2. ASSUME NEW r, StepsTo(t, r), UNCHANGED <<backends, discovered, withdrawn>>
      PROVE  RegistryInv'
  <2>1. DiscoveryIsComplete'
    BY <1>2, StillComplete
  <2> QED
    BY <1>2, <2>1, StepKeeps DEF RegistryInv, RegistryTyped
<1>3. ASSUME NEW call \in Requests, NEW plugin \in Plugin \cup {None}, Call(t, call, plugin),
             call \in {"register", "unregister"} => plugin \in ByHand
      PROVE  RegistryInv'
  <2> DEFINE p == IF call \in {"query", "lookup"} THEN "asking" ELSE "waiting"
             r == [Outside EXCEPT !.phase = p, !.call = call, !.plugin = plugin]
  <2>1. r \in Thread /\ r.phase = p /\ r.call = call /\ r.plugin = plugin /\ r.at = 0
    BY DEF Outside, Thread
  <2>2. Becomes(t, r) /\ UNCHANGED <<backends, discovered, lock, withdrawn>>
    BY <1>3 DEF Call
  <2> HIDE DEF r
  <2>3. StepsTo(t, r)
    BY <1>3, <2>1, <2>2 DEF StepsTo, Carries, UpToDate, Critical, Queries
  <2> QED
    BY <1>2, <2>2, <2>3
<1>4. CASE Anything(t)
  <2>1. ByHand \subseteq Plugin
    BY RegistryInputsTyped DEF Plugin
  <2> QED
    BY <1>3, <1>4, <2>1 DEF Anything, Requests, Queries
<1>5. CASE Ask(t)
  <2> DEFINE p == IF discovered THEN "reading" ELSE "waiting"
             r == [threads[t] EXCEPT !.phase = p]
  <2>1. /\ r \in Thread /\ r.phase = p /\ r.call = threads[t].call /\ r.at = threads[t].at
        /\ Becomes(t, r) /\ UNCHANGED <<backends, discovered, lock, withdrawn>>
    BY <1>5, EntersPhase DEF Ask, Enters
  <2> HIDE DEF r
  <2>2. StepsTo(t, r)
    BY <1>1, <1>5, <2>1 DEF Ask, StepsTo, Carries, UpToDate, Critical, Queries, Requests
  <2> QED
    BY <1>2, <2>1, <2>2
<1>6. CASE Answer(t)
  BY <1>2, <1>6, ReturnsOutside DEF Answer
<1> QED
  BY <1>4, <1>5, <1>6

LEMMA LockKeeps ==
  ASSUME RegistryInv, NEW t \in Threads, Acquire(t) \/ Check(t) \/ Register(t)
  PROVE  RegistryInv'
<1>1. threads[t] \in Thread /\ Carries(threads[t]) /\ UpToDate(threads[t], backends, discovered)
  BY DEF RegistryInv, RegistryTyped
<1>2. ASSUME NEW r, StepsTo(t, r) PROVE RegistryInv'
  <2>1. UNCHANGED <<backends, discovered, withdrawn>>
    BY DEF Acquire, Check, Register
  <2>2. DiscoveryIsComplete'
    BY <2>1, StillComplete
  <2> QED
    BY <1>2, <2>1, <2>2, StepKeeps DEF RegistryInv, RegistryTyped
<1>3. CASE Acquire(t)
  <2> DEFINE p == CASE threads[t].call \in {"query", "lookup"} -> "checking"
                    [] threads[t].call = "discover"            -> "loading"
                    [] threads[t].call = "register"            -> "registering"
                    [] threads[t].call = "unregister"          -> "removing"
             r == [threads[t] EXCEPT !.phase = p]
  <2>1. /\ threads[t].phase = "waiting" /\ threads[t].call \in Requests /\ threads[t].at = 0
        /\ threads[t].call \in {"register", "unregister"} => threads[t].plugin \in ByHand
    BY <1>1, <1>3 DEF Acquire, Carries
  <2>2. /\ p \in {"checking", "loading", "registering", "removing"}
        /\ p = "checking"    => threads[t].call \in Queries
        /\ p = "loading"     => threads[t].call = "discover"
        /\ p = "registering" => threads[t].call = "register"
        /\ p = "removing"    => threads[t].call = "unregister"
    BY <2>1 DEF Requests, Queries
  <2>3. Becomes(t, r)
    BY <1>3 DEF Acquire, Enters
  <2> HIDE DEF p
  <2>4. /\ r \in Thread /\ r.phase = p /\ r.call = threads[t].call
        /\ r.plugin = threads[t].plugin /\ r.at = threads[t].at
    BY <2>2, EntersPhase DEF Critical
  <2> HIDE DEF r
  <2>5. UNCHANGED <<backends, discovered>> /\ lock = None /\ lock' = t
    BY <1>3 DEF Acquire, Available
  <2>6. Loaded(r, backends)
    <3>1. Len(EntryPoints) \in Nat
      BY RegistryInputsTyped
    <3> QED
      BY <2>1, <2>4, <3>1 DEF Loaded
  <2>7. Carries(r)
    BY <2>1, <2>2, <2>4 DEF Carries
  <2>8. UpToDate(r, backends', discovered')
    BY <2>2, <2>4, <2>5, <2>6 DEF UpToDate, Queries
  <2>9. StepsTo(t, r)
    BY <2>3, <2>4, <2>5, <2>7, <2>8 DEF StepsTo
  <2> QED
    BY <1>2, <2>9
<1>4. CASE Check(t)
  <2>1. /\ threads[t].phase = "checking" /\ threads[t].call \in Queries /\ threads[t].at = 0
        /\ lock = t
    BY <1>1, <1>4 DEF Check, Carries, RegistryInv, LockIsHeld, Critical
  <2>2. PICK p \in {"reading", "loading"} :
          /\ Enters(t, p) /\ UNCHANGED <<backends, discovered>>
          /\ p = "reading" => discovered /\ lock' = None
          /\ p = "loading" => ~discovered /\ lock' = lock
    BY <1>4 DEF Check, Recheck
  <2> DEFINE r == [threads[t] EXCEPT !.phase = p]
  <2>3. /\ r \in Thread /\ r.phase = p /\ r.call = threads[t].call /\ r.at = threads[t].at
        /\ Becomes(t, r)
    BY <2>2, EntersPhase DEF Enters, Critical
  <2> HIDE DEF r
  <2>4. Loaded(r, backends)
    <3>1. Len(EntryPoints) \in Nat
      BY RegistryInputsTyped
    <3> QED
      BY <2>1, <2>3, <3>1 DEF Loaded
  <2>5. Carries(r)
    BY <2>1, <2>2, <2>3 DEF Carries
  <2>6. UpToDate(r, backends', discovered')
    BY <2>2, <2>3, <2>4 DEF UpToDate
  <2>7. StepsTo(t, r)
    BY <2>1, <2>2, <2>3, <2>5, <2>6 DEF StepsTo, Critical
  <2> QED
    BY <1>2, <2>7
<1>5. CASE Register(t)
  <2>1. /\ threads[t].phase = "registering" /\ threads[t].call = "register"
        /\ threads[t].plugin \in ByHand /\ lock = t /\ UNCHANGED <<backends, discovered>>
    BY <1>1, <1>5 DEF Register, Carries, RegistryInv, LockIsHeld, Critical
  <2>2. CASE Raise(t)
    <3>1. StepsTo(t, Outside)
      BY <2>1, <2>2, ReturnsOutside DEF Raise, Critical
    <3> QED
      BY <1>2, <3>1
  <2>3. CASE Free(threads[t].plugin) /\ Enters(t, "placing") /\ UNCHANGED lock
    <3> DEFINE r == [threads[t] EXCEPT !.phase = "placing"]
    <3>1. /\ r \in Thread /\ r.phase = "placing" /\ r.call = "register"
          /\ r.plugin = threads[t].plugin /\ Becomes(t, r)
      BY <2>1, <2>3, EntersPhase DEF Enters, Critical
    <3> HIDE DEF r
    <3>2. Carries(r)
      BY <2>1, <3>1, RegistryInputsTyped DEF Carries, Loadable
    <3>3. UpToDate(r, backends', discovered')
      BY <2>1, <2>3, <3>1 DEF UpToDate, Free, Queries
    <3>4. StepsTo(t, r)
      BY <2>1, <2>3, <3>1, <3>2, <3>3 DEF StepsTo, Critical
    <3> QED
      BY <1>2, <3>4
  <2> QED
    BY <1>5, <2>2, <2>3 DEF Register
<1> QED
  BY <1>3, <1>4, <1>5

LEMMA LoadKeeps ==
  ASSUME RegistryInv, NEW t \in Threads, Load(t)
  PROVE  RegistryInv'
<1> DEFINE next  == threads[t].at + 1
           found == EntryPoints[next]
<1>1. /\ threads[t] \in Thread /\ Carries(threads[t])
      /\ UpToDate(threads[t], backends, discovered)
      /\ threads[t].phase = "loading" /\ next <= Len(EntryPoints)
      /\ lock = t /\ UNCHANGED <<backends, discovered, withdrawn>>
  BY DEF RegistryInv, RegistryTyped, LockIsHeld, Critical, Load
<1>2. /\ threads[t].at \in Nat /\ next \in 1 .. Len(EntryPoints)
      /\ found \in Plugin
  <2>1. EntryPoints \in Seq(Plugin)
    BY RegistryInputsTyped
  <2>2. threads[t].at \in Nat
    BY <1>1 DEF Thread
  <2> QED
    BY <1>1, <2>1, <2>2
<1>3. /\ threads[t].call \in Queries \cup {"discover"} /\ Loaded(threads[t], backends)
      /\ threads[t].call \in Queries => ~discovered
  BY <1>1 DEF Carries, UpToDate, Queries
<1>4. ASSUME NEW r, StepsTo(t, r) PROVE RegistryInv'
  <2>1. DiscoveryIsComplete'
    BY <1>1, StillComplete
  <2> QED
    BY <1>1, <1>4, <2>1, StepKeeps DEF RegistryInv, RegistryTyped
<1>5. \A i \in 1 .. next : i \in 1 .. threads[t].at \/ i = next
  BY <1>2
<1>6. CASE /\ found.class = None /\ UNCHANGED lock
           /\ Becomes(t, [threads[t] EXCEPT !.at = next])
  <2> DEFINE r == [threads[t] EXCEPT !.at = next]
  <2>1. /\ r \in Thread /\ r.phase = "loading" /\ r.call = threads[t].call /\ r.at = next
    BY <1>1, <1>2 DEF Thread
  <2>2. Becomes(t, r)
    BY <1>6
  <2> HIDE DEF r
  <2>3. Loaded(r, backends)
    <3> HIDE DEF next
    <3> QED
      BY <1>1, <1>3, <1>5, <1>6, <2>1 DEF Loaded
  <2>4. Carries(r) /\ UpToDate(r, backends', discovered')
    BY <1>1, <1>3, <2>1, <2>3 DEF Carries, UpToDate
  <2>5. StepsTo(t, r)
    BY <1>1, <1>6, <2>1, <2>2, <2>4 DEF StepsTo, Critical
  <2> QED
    BY <1>4, <2>5
<1>7. CASE /\ found.class # None /\ Free(found) /\ UNCHANGED lock
           /\ Becomes(t, [threads[t] EXCEPT !.at = next, !.plugin = found, !.phase = "placing"])
  <2> DEFINE r == [threads[t] EXCEPT !.at = next, !.plugin = found, !.phase = "placing"]
  <2>1. /\ r.phase = "placing" /\ r.call = threads[t].call /\ r.at = next /\ r.plugin = found
    BY <1>1, <1>2 DEF Thread
  <2>2. r \in Thread
    <3>1. next \in Nat /\ found \in Plugin
      BY <1>2
    <3> HIDE DEF next, found
    <3> QED
      BY <1>1, <3>1 DEF Thread, Critical
  <2>3. Becomes(t, r)
    BY <1>7
  <2> HIDE DEF r
  <2>4. Loaded(r, backends)
    <3> HIDE DEF next
    <3> QED
      BY <1>1, <1>3, <1>5, <2>1 DEF Loaded
  <2>5. Carries(r)
    <3>1. found \in Loadable
      BY <1>2, <1>7 DEF Plugin, Loadable
    <3> QED
      BY <1>3, <2>1, <3>1 DEF Carries
  <2>6. UpToDate(r, backends', discovered')
    BY <1>1, <1>3, <1>7, <2>1, <2>4 DEF UpToDate, Free
  <2>7. StepsTo(t, r)
    BY <1>1, <1>7, <2>1, <2>2, <2>3, <2>5, <2>6 DEF StepsTo, Critical
  <2> QED
    BY <1>4, <2>7
<1>8. CASE Raise(t)
  <2>1. StepsTo(t, Outside)
    BY <1>1, <1>8, ReturnsOutside DEF Raise, Critical
  <2> QED
    BY <1>4, <2>1
<1> QED
  BY <1>6, <1>7, <1>8 DEF Load

LEMMA PlaceKeeps ==
  ASSUME RegistryInv, NEW t \in Threads, Place(t)
  PROVE  RegistryInv'
<1> DEFINE plugin == threads[t].plugin
<1>1. /\ threads[t] \in Thread /\ Carries(threads[t])
      /\ UpToDate(threads[t], backends, discovered)
      /\ threads[t].phase = "placing" /\ lock = t /\ UNCHANGED <<discovered, withdrawn>>
      /\ backends \in [Slugs -> Classes \cup {None}]
      /\ backends' = [backends EXCEPT ![plugin.slug] = plugin.class]
  BY DEF RegistryInv, RegistryTyped, LockIsHeld, Critical, Place
<1>2. plugin.slug \in Slugs /\ plugin.class \in Classes /\ plugin.class # None
  BY <1>1, RegistryInputsTyped DEF Carries, Loadable
<1>3. /\ backends' \in [Slugs -> Classes \cup {None}]
      /\ \A s \in Slugs : backends[s] # None => backends'[s] # None
      /\ backends'[plugin.slug] # None
  BY <1>1, <1>2
<1>4. DiscoveryIsComplete'
  BY <1>1, <1>3, StillComplete
<1>5. ASSUME NEW r, StepsTo(t, r) PROVE RegistryInv'
  BY <1>1, <1>3, <1>4, <1>5, StepKeeps DEF RegistryInv, RegistryTyped
<1>6. CASE threads[t].call = "register"
  <2>1. StepsTo(t, Outside)
    BY <1>1, <1>6, ReturnsOutside DEF Place, Critical
  <2> QED
    BY <1>5, <2>1
<1>7. CASE threads[t].call # "register"
  <2> DEFINE r == [threads[t] EXCEPT !.phase = "loading"]
  <2>1. /\ r \in Thread /\ r.phase = "loading" /\ r.call = threads[t].call
        /\ r.at = threads[t].at
    BY <1>1, EntersPhase DEF Critical
  <2>2. Becomes(t, r) /\ UNCHANGED lock
    BY <1>7 DEF Place, Enters
  <2> HIDE DEF r
  <2>3. Loaded(threads[t], backends) /\ (threads[t].call \in Queries => ~discovered)
    BY <1>1, <1>7 DEF UpToDate
  <2>4. Loaded(r, backends')
    <3>1. \A i \in 1 .. r.at : EntryPoints[i].slug \in Slugs
      <4>1. EntryPoints \in Seq(Plugin)
        BY RegistryInputsTyped
      <4>2. r.at \in Nat /\ r.at <= Len(EntryPoints)
        BY <1>1, <2>1, <2>3 DEF Loaded, Thread
      <4>3. \A i \in 1 .. r.at : EntryPoints[i] \in Plugin
        BY <4>1, <4>2
      <4> QED
        BY <4>3 DEF Plugin
    <3> QED
      BY <1>1, <1>3, <2>1, <2>3, <3>1 DEF Loaded
  <2>5. Carries(r)
    BY <1>1, <1>7, <2>1 DEF Carries
  <2>6. UpToDate(r, backends', discovered')
    BY <1>1, <2>1, <2>3, <2>4 DEF UpToDate
  <2>7. StepsTo(t, r)
    BY <1>1, <2>1, <2>2, <2>5, <2>6 DEF StepsTo, Critical
  <2> QED
    BY <1>5, <2>7
<1> QED
  BY <1>6, <1>7

(* The last entry point was passed: all of them are there. *)
LEMMA FinishKeeps ==
  ASSUME RegistryInv, NEW t \in Threads, FinishDiscovery(t)
  PROVE  RegistryInv'
<1>1. /\ threads[t] \in Thread /\ Carries(threads[t])
      /\ UpToDate(threads[t], backends, discovered)
      /\ threads[t].phase = "loading" /\ threads[t].at = Len(EntryPoints)
      /\ lock = t /\ lock' = None /\ discovered' = TRUE /\ UNCHANGED backends
      /\ discovered \in BOOLEAN
  BY DEF RegistryInv, RegistryTyped, LockIsHeld, Critical, FinishDiscovery
<1>2. Loaded(threads[t], backends)
  BY <1>1 DEF Carries, UpToDate, Queries
<1>3. DiscoveryIsComplete'
  <2>1. /\ DOMAIN EntryPoints = 1 .. Len(EntryPoints)
        /\ \A i \in DOMAIN EntryPoints : EntryPoints[i].slug \in Slugs
    <3>1. EntryPoints \in Seq(Plugin)
      BY RegistryInputsTyped
    <3>2. \A i \in DOMAIN EntryPoints : EntryPoints[i] \in Plugin
      BY <3>1
    <3> QED
      BY <3>1, <3>2 DEF Plugin
  <2>2. \A i \in DOMAIN EntryPoints :
          EntryPoints[i].class # None => backends[EntryPoints[i].slug] # None
    BY <1>1, <1>2, <2>1 DEF Loaded
  <2> QED
    BY <1>1, <2>1, <2>2 DEF DiscoveryIsComplete, Known
<1>4. PICK r \in {Outside, [threads[t] EXCEPT !.phase = "reading"]} : Becomes(t, r)
  BY DEF FinishDiscovery, Enters
<1>5. StepsTo(t, r)
  <2>1. CASE r = Outside
    BY <1>1, <1>4, <2>1, ReturnsOutside DEF Critical
  <2>2. CASE r = [threads[t] EXCEPT !.phase = "reading"]
    <3>1. r \in Thread /\ r.phase = "reading"
      BY <1>1, <2>2, EntersPhase
    <3> QED
      BY <1>1, <1>4, <3>1 DEF StepsTo, Carries, UpToDate, Critical
  <2> QED
    BY <2>1, <2>2
<1> QED
  BY <1>1, <1>3, <1>5, StepKeeps DEF RegistryInv, RegistryTyped

LEMMA RemoveKeeps ==
  ASSUME RegistryInv, NEW t \in Threads, Remove(t)
  PROVE  RegistryInv'
<1> DEFINE s == threads[t].plugin.slug
<1>1. /\ threads[t] \in Thread /\ Carries(threads[t])
      /\ threads[t].phase = "removing" /\ lock = t /\ lock' = None
      /\ backends \in [Slugs -> Classes \cup {None}] /\ UNCHANGED discovered
      /\ backends' = [backends EXCEPT ![s] = None] /\ withdrawn' = withdrawn \cup {s}
      /\ Becomes(t, Outside)
  BY DEF RegistryInv, RegistryTyped, LockIsHeld, Critical, Remove
<1>2. s \in Slugs
  BY <1>1, RegistryInputsTyped DEF Carries
<1>3. DiscoveryIsComplete'
  BY <1>1, <1>2 DEF RegistryInv, DiscoveryIsComplete, Known
<1>4. StepsTo(t, Outside)
  BY <1>1, ReturnsOutside DEF Critical
<1> QED
  BY <1>1, <1>2, <1>3, <1>4, StepKeeps DEF RegistryInv, RegistryTyped

LEMMA RegistryStarts == RegistryInit => RegistryInv
<1> SUFFICES ASSUME RegistryInit PROVE RegistryInv
  OBVIOUS
<1> USE DEF RegistryInit
<1>1. RegistryTyped
  BY OutsideIsIdle DEF RegistryTyped
<1>2. LockIsHeld /\ DiscoveryIsComplete
  BY OutsideIsIdle DEF LockIsHeld, DiscoveryIsComplete, Critical
<1> QED
  BY <1>1, <1>2, OutsideIsIdle DEF RegistryInv

LEMMA RegistryStays == RegistryInv /\ [RegistryNext]_registryVars => RegistryInv'
<1>1. ASSUME RegistryInv, NEW t \in Threads, Anything(t) \/ Proceed(t) PROVE RegistryInv'
  BY <1>1, BeginKeeps, LockKeeps, LoadKeeps, PlaceKeeps, FinishKeeps, RemoveKeeps DEF Proceed
<1>2. ASSUME RegistryInv, UNCHANGED registryVars PROVE RegistryInv'
  BY <1>2 DEF registryVars, RegistryInv, RegistryTyped, LockIsHeld, DiscoveryIsComplete, Known
<1> QED
  BY <1>1, <1>2 DEF RegistryNext

LEMMA RegistrySafe == RegistrySpec => []RegistryInv
BY RegistryStarts, RegistryStays, PTL DEF RegistrySpec

-----------------------------------------------------------------------------
(* The promises *)

(* Only the owner of the lock writes: it places what it found free, or     *)
(* removes.                                                                *)
LEMMA Writers ==
  ASSUME RegistryInv, [RegistryNext]_registryVars, NEW s \in Slugs,
         backends'[s] # backends[s]
  PROVE  \/ backends'[s] = None
         \/ \E t \in Threads : Place(t) /\ threads[t].plugin.slug = s /\ backends[s] = None
<1>1. PICK t \in Threads : Place(t) \/ Remove(t)
  BY DEF RegistryNext, Anything, Call, Proceed, Ask, Acquire, Check, Register, Load,
         FinishDiscovery, Answer, registryVars
<1>2. backends \in [Slugs -> Classes \cup {None}]
  BY DEF RegistryInv, RegistryTyped
<1>3. CASE Remove(t)
  BY <1>2, <1>3 DEF Remove
<1>4. CASE Place(t)
  <2>1. backends[threads[t].plugin.slug] \in {None, threads[t].plugin.class}
    BY <1>4 DEF RegistryInv, UpToDate, Place
  <2> QED
    BY <1>2, <1>4, <2>1 DEF Place
<1> QED
  BY <1>1, <1>3, <1>4

(* NobodyIsReplaced holds for any number of threads and plugins: a class   *)
(* found free by _register_backend is still free when it is placed.        *)
THEOREM BackendsAreNotReplaced == RegistrySpec => NobodyIsReplaced
<1>1. RegistryInv /\ [RegistryNext]_registryVars =>
        \A s \in Slugs : backends[s] # None /\ backends'[s] # None => backends'[s] = backends[s]
  BY Writers
<1>2. UNCHANGED registryVars =>
        \A s \in Slugs : backends[s] # None /\ backends'[s] # None => backends'[s] = backends[s]
  BY DEF registryVars
<1> QED
  BY <1>1, <1>2, RegistrySafe, PTL DEF NobodyIsReplaced, RegistrySpec

(* UnregisteredStaysAway: a query that loses the race for the lock looks   *)
(* again, so that it never loads plugins a second time.                    *)
THEOREM LateQueriesBringNothingBack == RegistrySpec => UnregisteredStaysAway
<1>1. RegistryInv /\ [RegistryNext]_registryVars =>
        \A s \in Slugs :
          discovered /\ backends[s] = None /\ backends'[s] # None =>
            \E t \in Threads : threads[t].phase = "placing"
                             /\ threads[t].call \in {"register", "discover"}
  <2> SUFFICES ASSUME RegistryInv, [RegistryNext]_registryVars, NEW s \in Slugs,
                      discovered, backends[s] = None, backends'[s] # None
               PROVE  \E t \in Threads : threads[t].phase = "placing"
                                       /\ threads[t].call \in {"register", "discover"}
    OBVIOUS
  <2>1. PICK t \in Threads : Place(t)
    BY Writers
  <2>2. threads[t].phase = "placing" /\ threads[t].call \notin Queries
    BY <2>1 DEF Place, RegistryInv, UpToDate
  <2>3. threads[t].call \in {"register", "discover"}
    BY <2>2 DEF RegistryInv, Carries, Queries
  <2> QED
    BY <2>2, <2>3
<1>2. UNCHANGED registryVars =>
        \A s \in Slugs :
          discovered /\ backends[s] = None /\ backends'[s] # None =>
            \E t \in Threads : threads[t].phase = "placing"
                             /\ threads[t].call \in {"register", "discover"}
  BY DEF registryVars
<1> QED
  BY <1>1, <1>2, RegistrySafe, PTL DEF UnregisteredStaysAway, RegistrySpec

(* AnswersAreComplete: _discovered is set only once every entry point was  *)
(* passed, and a query answers only after it was.                          *)
THEOREM AnswersNameEveryPlugin == RegistrySpec => AnswersAreComplete
<1>1. RegistryInv =>
        \A t \in Threads :
          threads[t].phase = "reading" /\ threads'[t].phase = "outside" =>
            \A i \in DOMAIN EntryPoints :
              EntryPoints[i].class # None => EntryPoints[i].slug \in Known \cup withdrawn
  BY DEF RegistryInv, UpToDate, DiscoveryIsComplete
<1> QED
  BY <1>1, RegistrySafe, PTL DEF AnswersAreComplete, RegistrySpec

=============================================================================
