----------------------------- MODULE PanicHook -----------------------------
(***************************************************************************)
(* SilencePanicHook (rust/src/pipeline.rs): a run replaces the process's   *)
(* panic hook by a no-op and restores it on the way out.  Several threads  *)
(* of one process may run captures at once, so the guard counts the runs   *)
(* in flight: the first one in saves the hook, the last one out restores   *)
(* it.  One action per atomic step of install and drop.                    *)
(*                                                                         *)
(* take_hook and set_hook are the standard library's, each atomic;         *)
(* take_hook leaves the default hook behind.                               *)
(***************************************************************************)
EXTENDS Integers, FiniteSets

CONSTANTS
  Threads,       (* the threads that call pcapracer                        *)
  RunsPerThread  (* bound on the runs of one thread                        *)

ASSUME HookAssumption == IsFiniteSet(Threads) /\ RunsPerThread \in Nat

VARIABLES
  depth,  (* HOOK_DEPTH                                                    *)
  hook,   (* the process's panic hook                                      *)
  saved,  (* SAVED_HOOK: an Option, the set of its at most one value       *)
  lock,   (* the threads that hold SAVED_HOOK's mutex                      *)
  prev,   (* per thread, install's or drop's local prev                    *)
  pc,     (* per thread, where it is                                       *)
  runs,   (* per thread, runs started                                      *)
  raced   (* some install began while the last drop was still restoring    *)

hookVars == <<depth, hook, saved, lock, prev, pc, runs, raced>>

(* "user" is the hook the process had installed before any run.            *)
Hook == {"user", "default", "noop"}

PC == {"idle", "take", "save", "set", "running", "restore", "put_back"}

HookInit ==
  /\ depth = 0
  /\ hook = "user"
  /\ saved = {}
  /\ lock = {}
  /\ prev = [t \in Threads |-> "user"]
  /\ pc = [t \in Threads |-> "idle"]
  /\ runs = [t \in Threads |-> 0]
  /\ raced = FALSE

At(t, l) == pc[t] = l

Goto(t, l) == pc' = [pc EXCEPT ![t] = l]

(* A seeded fault: every run that enters saves the hook it finds.          *)
EnterSaving(t) ==
  /\ At(t, "idle")
  /\ runs[t] < RunsPerThread
  /\ runs' = [runs EXCEPT ![t] = @ + 1]
  /\ depth' = depth + 1
  /\ Goto(t, "take")
  /\ raced' = (raced \/ \E u \in Threads : pc[u] \in {"restore", "put_back"})
  /\ UNCHANGED <<hook, saved, lock, prev>>

(* HOOK_DEPTH.fetch_add(1): only the first run in touches the hook.        *)
Enter(t) ==
  /\ At(t, "idle")
  /\ runs[t] < RunsPerThread
  /\ runs' = [runs EXCEPT ![t] = @ + 1]
  /\ depth' = depth + 1
  /\ Goto(t, IF depth = 0 THEN "take" ELSE "running")
  /\ raced' = (raced \/ \E u \in Threads : pc[u] \in {"restore", "put_back"})
  /\ UNCHANGED <<hook, saved, lock, prev>>

TakeHook(t) ==
  /\ At(t, "take")
  /\ prev' = [prev EXCEPT ![t] = hook]
  /\ hook' = "default"
  /\ Goto(t, "save")
  /\ UNCHANGED <<depth, saved, lock, runs, raced>>

(* The mutex is held for this one assignment.                              *)
SaveHook(t) ==
  /\ At(t, "save")
  /\ lock = {}
  /\ saved' = {prev[t]}
  /\ Goto(t, "set")
  /\ UNCHANGED <<depth, hook, lock, prev, runs, raced>>

SetNoop(t) ==
  /\ At(t, "set")
  /\ hook' = "noop"
  /\ Goto(t, "running")
  /\ UNCHANGED <<depth, saved, lock, prev, runs, raced>>

(* A seeded fault: every run restores the hook as it leaves.               *)
LeaveRestoring(t) ==
  /\ At(t, "running")
  /\ depth' = depth - 1
  /\ Goto(t, "restore")
  /\ UNCHANGED <<hook, saved, lock, prev, runs, raced>>

(* HOOK_DEPTH.fetch_sub(1): only the last run out restores.                *)
Leave(t) ==
  /\ At(t, "running")
  /\ depth' = depth - 1
  /\ Goto(t, IF depth = 1 THEN "restore" ELSE "idle")
  /\ UNCHANGED <<hook, saved, lock, prev, runs, raced>>

(* SAVED_HOOK.lock().take(): the guard lives to the end of the if-let, so  *)
(* the mutex stays locked until the hook is back.                          *)
TakeSaved(t) ==
  /\ At(t, "restore")
  /\ lock = {}
  /\ saved' = {}
  /\ \/ /\ saved = {}
        /\ Goto(t, "idle")
        /\ UNCHANGED <<lock, prev>>
     \/ /\ \E h \in saved : prev' = [prev EXCEPT ![t] = h]
        /\ lock' = {t}
        /\ Goto(t, "put_back")
  /\ UNCHANGED <<depth, hook, runs, raced>>

(* A seeded fault: the mutex is not released.                              *)
PutBackLocked(t) ==
  /\ At(t, "put_back")
  /\ hook' = prev[t]
  /\ Goto(t, "idle")
  /\ UNCHANGED <<depth, saved, lock, prev, runs, raced>>

PutBack(t) ==
  /\ At(t, "put_back")
  /\ hook' = prev[t]
  /\ lock' = {}
  /\ Goto(t, "idle")
  /\ UNCHANGED <<depth, saved, prev, runs, raced>>

(* What a thread does once it has begun a run.                             *)
Step(t) ==
  \/ TakeHook(t)
  \/ SaveHook(t)
  \/ SetNoop(t)
  \/ Leave(t)
  \/ TakeSaved(t)
  \/ PutBack(t)

HookNext == \E t \in Threads : Enter(t) \/ Step(t)

(* A thread that has begun a run gets on with it; starting one is the      *)
(* application's choice.                                                   *)
HookSpec == HookInit /\ [][HookNext]_hookVars /\ \A t \in Threads : WF_hookVars(Step(t))

----------------------------------------------------------------------------
(* Every variable has its type.                                            *)
HookTypeOK ==
  /\ depth \in Nat
  /\ hook \in Hook
  /\ saved \in SUBSET Hook /\ Cardinality(saved) <= 1
  /\ lock \in SUBSET Threads
  /\ prev \in [Threads -> Hook]
  /\ pc \in [Threads -> PC]
  /\ runs \in [Threads -> Nat]
  /\ raced \in BOOLEAN

Quiet == \A t \in Threads : At(t, "idle")

(* Overlapping runs leave the process as they found it, as long as no run  *)
(* began while the last one out was still putting the hook back.           *)
RestoredUnlessRaced == Quiet /\ ~ raced => hook = "user"

(* A run in flight is silenced: outside the few steps of an install, no    *)
(* hook but the no-op is in place, however entering and leaving runs       *)
(* interleave ("do not restore a stale hook while another run is still in  *)
(* flight", pipeline.rs).                                                  *)
SilencedInFlight ==
  (\E t \in Threads : At(t, "running")) =>
    hook = "noop" \/ \E t \in Threads : pc[t] \in {"take", "save", "set"}

(* Every run that begins ends, and leaves the mutex free behind it.        *)
RunsEnd == \A t \in Threads : ~ At(t, "idle") ~> At(t, "idle") /\ lock # {t}

============================================================================
