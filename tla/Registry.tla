------------------------------- MODULE Registry -------------------------------
(***************************************************************************)
(* PluginRegistry (registry.py): the backends an application knows, filled *)
(* from entry points by the first query and changed at any time by any     *)
(* thread.  A thread may be preempted between any two steps.  The lock is  *)
(* re-entrant, and a thread only nests it: its owner says all about it.    *)
(*                                                                         *)
(* An entry point whose plugin cannot be imported, or is no BaseProcessor, *)
(* has class None.  A plugin does not call the registry while it is being  *)
(* imported, and its slug is not empty.                                    *)
(***************************************************************************)
EXTENDS Integers, Sequences

CONSTANTS
  Threads,
  EntryPoints,   \* the entry points, in the order they are found
  ByHand,        \* the backends the application registers itself
  Slugs,
  Classes,
  MaxCalls,      \* bound: calls made by each thread
  None

Plugin == [slug : Slugs, class : Classes \cup {None}]

ASSUME RegistryInputsTyped ==
  /\ EntryPoints \in Seq(Plugin) /\ ByHand \subseteq [slug : Slugs, class : Classes]
  /\ None \notin Threads \cup Slugs \cup Classes /\ MaxCalls \in Nat

VARIABLES
  backends,     \* _backends
  discovered,   \* _discovered
  lock,         \* the thread that holds _lock
  threads,      \* the call each thread is in
  calls,        \* how many calls each thread has made
  withdrawn     \* slugs unregistered since a discovery was last completed

registryVars == <<backends, discovered, lock, threads, calls, withdrawn>>

Outside == [phase |-> "outside", call |-> None, plugin |-> None, at |-> 0]

RegistryInit ==
  /\ backends   = [s \in Slugs |-> None]
  /\ discovered = FALSE
  /\ lock       = None
  /\ threads    = [t \in Threads |-> Outside]
  /\ calls      = [t \in Threads |-> 0]
  /\ withdrawn  = {}

Becomes(t, thread) == threads' = [threads EXCEPT ![t] = thread]
Enters(t, phase)   == Becomes(t, [threads[t] EXCEPT !.phase = phase])

-----------------------------------------------------------------------------
(* Calls and the lock *)

(* query stands for get_for_currency, get_choices and get_all_currencies,  *)
(* which all work on a snapshot; lookup is get_by_slug.                    *)
Call(t, call, plugin) ==
  /\ threads[t].phase = "outside"
  /\ calls[t] < MaxCalls
  /\ calls' = [calls EXCEPT ![t] = @ + 1]
  /\ Becomes(t, [Outside EXCEPT !.phase  = IF call \in {"query", "lookup"} THEN "asking" ELSE "waiting",
                                !.call   = call,
                                !.plugin = plugin])
  /\ UNCHANGED <<backends, discovered, lock, withdrawn>>

(* _ensure_discovered first looks without the lock. *)
Ask(t) ==
  /\ threads[t].phase = "asking"
  /\ Enters(t, IF discovered THEN "reading" ELSE "waiting")
  /\ UNCHANGED <<backends, discovered, lock, calls, withdrawn>>

(* Mutant of Available: there is no lock. *)
AvailableAlways(t) == TRUE

Available(t) == lock = None

Acquire(t) ==
  /\ threads[t].phase = "waiting"
  /\ Available(t)
  /\ lock' = t
  /\ Enters(t, CASE threads[t].call \in {"query", "lookup"} -> "checking"
                 [] threads[t].call = "discover"            -> "loading"
                 [] threads[t].call = "register"            -> "registering"
                 [] threads[t].call = "unregister"          -> "removing")
  /\ UNCHANGED <<backends, discovered, calls, withdrawn>>

(* Mutant of Recheck: what was seen without the lock is still taken for true. *)
RecheckNothing(t) == Enters(t, "loading") /\ UNCHANGED lock

(* Another thread may have discovered the plugins in the meantime. *)
Recheck(t) ==
  IF discovered THEN Enters(t, "reading") /\ lock' = None
  ELSE Enters(t, "loading") /\ UNCHANGED lock

Check(t) ==
  /\ threads[t].phase = "checking"
  /\ Recheck(t)
  /\ UNCHANGED <<backends, discovered, calls, withdrawn>>

-----------------------------------------------------------------------------
(* discover and _register_backend *)

(* A slug belongs to one class. *)
Free(plugin) == backends[plugin.slug] \in {None, plugin.class}

(* Mutant of Raise: the error leaves without giving the lock back. *)
RaiseHoldingLock(t) == Becomes(t, Outside) /\ UNCHANGED lock

(* ValueError: whatever was registered before it stays registered. *)
Raise(t) == Becomes(t, Outside) /\ lock' = None

Register(t) ==
  /\ threads[t].phase = "registering"
  /\ \/ Free(threads[t].plugin) /\ Enters(t, "placing") /\ UNCHANGED lock
     \/ ~Free(threads[t].plugin) /\ Raise(t)
  /\ UNCHANGED <<backends, discovered, calls, withdrawn>>

(* One entry point: skipped, refused, or checked and then placed. *)
Load(t) ==
  LET next  == threads[t].at + 1
      found == EntryPoints[next]
  IN  /\ threads[t].phase = "loading"
      /\ next <= Len(EntryPoints)
      /\ \/ /\ found.class = None
            /\ Becomes(t, [threads[t] EXCEPT !.at = next])
            /\ UNCHANGED lock
         \/ /\ found.class # None /\ Free(found)
            /\ Becomes(t, [threads[t] EXCEPT !.at = next, !.plugin = found, !.phase = "placing"])
            /\ UNCHANGED lock
         \/ found.class # None /\ ~Free(found) /\ Raise(t)
      /\ UNCHANGED <<backends, discovered, calls, withdrawn>>

Place(t) ==
  LET plugin == threads[t].plugin
  IN  /\ threads[t].phase = "placing"
      /\ backends' = [backends EXCEPT ![plugin.slug] = plugin.class]
      /\ IF threads[t].call = "register"
         THEN Becomes(t, Outside) /\ lock' = None
         ELSE Enters(t, "loading") /\ UNCHANGED lock
      /\ UNCHANGED <<discovered, calls, withdrawn>>

FinishDiscovery(t) ==
  /\ threads[t].phase = "loading"
  /\ threads[t].at = Len(EntryPoints)
  /\ discovered' = TRUE
  /\ withdrawn'  = {}
  /\ IF threads[t].call = "discover" THEN Becomes(t, Outside) ELSE Enters(t, "reading")
  /\ lock' = None
  /\ UNCHANGED <<backends, calls>>

Remove(t) ==
  /\ threads[t].phase = "removing"
  /\ backends'  = [backends EXCEPT ![threads[t].plugin.slug] = None]
  /\ withdrawn' = withdrawn \cup {threads[t].plugin.slug}
  /\ Becomes(t, Outside) /\ lock' = None
  /\ UNCHANGED <<discovered, calls>>

-----------------------------------------------------------------------------
(* Answers: _snapshot takes the lock, get_by_slug reads without it.        *)

Known == {s \in Slugs : backends[s] # None}

Answer(t) ==
  /\ threads[t].phase = "reading"
  /\ threads[t].call = "query" => lock = None
  /\ Becomes(t, Outside)
  /\ UNCHANGED <<backends, discovered, lock, calls, withdrawn>>

Proceed(t) ==
  \/ Ask(t) \/ Acquire(t) \/ Check(t)
  \/ Register(t) \/ Load(t) \/ Place(t) \/ FinishDiscovery(t) \/ Remove(t)
  \/ Answer(t)

Anything(t) ==
  \/ \E call \in {"query", "lookup", "discover"} : Call(t, call, None)
  \/ \E plugin \in ByHand : Call(t, "register", plugin) \/ Call(t, "unregister", plugin)

RegistryNext == \E t \in Threads : Anything(t) \/ Proceed(t)

(* The interpreter runs every thread that can run.  No thread makes calls  *)
(* forever, so a waiting one gets the lock in the end.                     *)
RegistrySpec ==
  /\ RegistryInit /\ [][RegistryNext]_registryVars
  /\ \A t \in Threads : WF_registryVars(Proceed(t))

-----------------------------------------------------------------------------
(* Properties *)

(* No half-filled view: an answer knows every plugin that can be loaded,   *)
(* but for those unregistered since, although the dictionary is filled     *)
(* while other threads look at it.                                         *)
AnswersAreComplete ==
  [][\A t \in Threads :
       threads[t].phase = "reading" /\ threads'[t].phase = "outside" =>
         \A i \in DOMAIN EntryPoints :
           EntryPoints[i].class # None =>
             EntryPoints[i].slug \in Known \cup withdrawn]_registryVars

(* After discovery a backend only appears because somebody registered it   *)
(* or asked for discovery: a query that was late does not bring back what  *)
(* was unregistered.                                                       *)
UnregisteredStaysAway ==
  [][\A s \in Slugs :
       discovered /\ backends[s] = None /\ backends'[s] # None =>
         \E t \in Threads : threads[t].phase = "placing"
                            /\ threads[t].call \in {"register", "discover"}]_registryVars

(* Two registrations of one slug never both go through, whoever makes them:*)
(* the class behind a slug changes only by unregistering it.               *)
NobodyIsReplaced ==
  [][\A s \in Slugs :
       backends[s] # None /\ backends'[s] # None => backends'[s] = backends[s]]_registryVars

(* Every call returns, with an answer or an error, and leaves no lock.     *)
CallsReturn ==
  \A t \in Threads : threads[t].phase # "outside" ~> threads[t].phase = "outside" /\ lock # t

=============================================================================
