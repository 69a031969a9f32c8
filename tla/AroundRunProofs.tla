-------------------------- MODULE AroundRunProofs --------------------------
(***************************************************************************)
(* What stands around a run, for every value of the constants: the panic   *)
(* hook it silences (PanicHook), the iterator that hands its batches to    *)
(* the caller (IterBatches) and the directory it fills (ParquetOutput).    *)
(* Each part has an inductive invariant, one lemma per action, and then    *)
(* the theorems that follow from it.                                       *)
(***************************************************************************)
EXTENDS PanicHook, IterBatches, ParquetOutput, FiniteSetTheorems, SequenceTheorems, TLAPS

(***************************************************************************)
(* The panic hook: any number of threads and of runs.  A run in flight is  *)
(* silenced, and the hook found is put back unless a run began while it    *)
(* was being put back.                                                     *)
(***************************************************************************)

(* The threads counted in HOOK_DEPTH, and those of them still installing.  *)
InFlight == {t \in Threads : pc[t] \in {"take", "save", "set", "running"}}
Installing == {t \in Threads : pc[t] \in {"take", "save", "set"}}

Some(l) == \E t \in Threads : At(t, l)

(* HOOK_DEPTH counts the runs in flight, one run installs at a time, and   *)
(* the mutex is held exactly by a thread that puts the hook back.          *)
Counted ==
  /\ depth = Cardinality(InFlight)
  /\ \A t, u \in Installing : t = u
  /\ lock = {t \in Threads : At(t, "put_back")}
  /\ \A t, u \in lock : t = u

(* Races of installs and restores can lose the hook of the user, but never *)
(* put anything but the no-op in the place of the no-op of another run.    *)
NoopStays ==
  /\ Some("running") /\ Installing = {} => hook = "noop"
  /\ Some("restore") /\ ~ Some("save") /\ ~ Some("set") => hook = "noop"
  /\ \A t \in Threads : At(t, "save") /\ Some("restore") => prev[t] = "noop"
  /\ \A t \in Threads :
       At(t, "restore") =>
         \/ saved \subseteq {"noop"}
         \/ /\ \A u \in Threads : At(u, "restore") => u = t
            /\ ~ (Some("running") /\ Installing = {})
            /\ ~ Some("set")
  /\ \A t \in Threads :
       At(t, "put_back") =>
         \/ prev[t] = "noop"
         \/ /\ ~ Some("restore")
            /\ ~ (Some("running") /\ Installing = {})
            /\ ~ Some("set")

(* Where the hook of the user is while runs come and go without a race.    *)
UserKept ==
  ~ raced =>
    /\ \A t \in Threads : pc[t] \in {"restore", "put_back"} =>
                            \A u \in Threads : u # t => At(u, "idle")
    /\ (\A t \in Threads : At(t, "idle")) => hook = "user"
    /\ Some("take") => hook = "user"
    /\ \A t \in Threads : pc[t] \in {"save", "put_back"} => prev[t] = "user"
    /\ Some("set") \/ Some("restore") => saved = {"user"}
    /\ Some("running") /\ ~ Some("take") /\ ~ Some("save") => saved = {"user"}

HookInv == HookTypeOK /\ Counted /\ NoopStays /\ UserKept

----------------------------------------------------------------------------
(* HOOK_DEPTH as a count: what the tests of install and drop learn from    *)
(* it.                                                                     *)
LEMMA DepthIsCount ==
  ASSUME HookTypeOK, Counted
  PROVE  /\ IsFiniteSet(InFlight)
         /\ depth = 0 <=> InFlight = {}
         /\ depth = 1 => \A t, u \in InFlight : t = u
<1>1. IsFiniteSet(InFlight)
  BY HookAssumption, FS_Subset DEF InFlight
<1>2. depth = 0 <=> InFlight = {}
  BY <1>1, FS_EmptySet DEF Counted
<1>3. ASSUME depth = 1 PROVE \A t, u \in InFlight : t = u
  <2>1. PICK x : InFlight = {x}
    BY <1>1, <1>3, FS_Singleton DEF Counted
  <2> QED
    BY <2>1
<1> QED
  BY <1>1, <1>2, <1>3

(* Before the first run nothing is saved and the hook is the user's.       *)
LEMMA HookInitInv == HookInit => HookInv
<1> SUFFICES ASSUME HookInit PROVE HookInv
  OBVIOUS
<1>1. HookTypeOK
  <2>1. Cardinality({}) <= 1
    BY FS_EmptySet
  <2>2. raced \in BOOLEAN
    BY Zenon DEF HookInit
  <2> QED
    BY <2>1, <2>2 DEF HookInit, HookTypeOK, Hook, PC
<1>2. Counted
  <2>1. InFlight = {} /\ Installing = {} /\ \A t \in Threads : ~ At(t, "put_back")
    BY DEF HookInit, InFlight, Installing, At
  <2> QED
    BY <2>1, FS_EmptySet DEF HookInit, Counted
<1>3. NoopStays /\ UserKept
  BY DEF HookInit, NoopStays, UserKept, At, Some
<1> QED
  BY <1>1, <1>2, <1>3 DEF HookInv

(* A thread that moves on without entering or leaving.                     *)
LEMMA SameCount ==
  ASSUME HookTypeOK, Counted, NEW t \in Threads, NEW l \in PC, Goto(t, l), UNCHANGED depth,
         t \in InFlight <=> l \in {"take", "save", "set", "running"}
  PROVE  depth' = Cardinality(InFlight)'
<1>1. InFlight' = InFlight
  BY DEF InFlight, Goto, HookTypeOK
<1> QED
  BY <1>1 DEF Counted

----------------------------------------------------------------------------
LEMMA EnterInv ==
  ASSUME HookInv, NEW t \in Threads, Enter(t)
  PROVE  HookInv'
<1> USE DEF HookInv
<1>1. /\ t \notin InFlight
      /\ InFlight' = InFlight \cup {t}
  BY DEF Enter, At, Goto, InFlight, HookTypeOK
<1>2. depth' = Cardinality(InFlight') /\ depth' \in Nat
  BY <1>1, DepthIsCount, FS_AddElement, FS_CardinalityType DEF Enter, Counted
<1>3. HookTypeOK'
  <2>1. raced' \in BOOLEAN
    BY Zenon DEF Enter
  <2> QED
    BY <1>2, <2>1 DEF Enter, HookTypeOK, Goto, PC
<1>4. Counted'
  BY <1>2, DepthIsCount DEF Enter, Counted, HookTypeOK, Goto, At, InFlight, Installing
<1>5. NoopStays'
  BY DepthIsCount DEF Enter, NoopStays, Counted, HookTypeOK, Goto, At, InFlight, Installing, Some
<1>6. UserKept'
  <2> SUFFICES ASSUME ~ raced' PROVE UserKept'
    BY Zenon DEF UserKept
  <2>1. ~ raced /\ \A u \in Threads : pc[u] \notin {"restore", "put_back"}
    BY Zenon DEF Enter
  <2>2. CASE depth = 0
    BY <2>1, <2>2, DepthIsCount
       DEF Enter, UserKept, HookTypeOK, PC, Goto, At, InFlight, Some
  <2>3. CASE depth # 0
    BY <2>1, <2>3, DepthIsCount
       DEF Enter, UserKept, HookTypeOK, PC, Goto, At, InFlight, Some
  <2> QED
    BY <2>2, <2>3
<1> QED
  BY <1>3, <1>4, <1>5, <1>6

LEMMA InstallInv ==
  ASSUME HookInv, NEW t \in Threads, TakeHook(t) \/ SaveHook(t) \/ SetNoop(t)
  PROVE  HookInv'
<1> USE DEF HookInv
<1>1. CASE TakeHook(t)
  <2>1. HookTypeOK'
    BY <1>1 DEF TakeHook, HookTypeOK, Goto, PC, Hook
  <2>2. Counted'
    BY <1>1, SameCount DEF TakeHook, Counted, HookTypeOK, Goto, At, InFlight, Installing, PC
  <2>3. NoopStays'
    BY <1>1 DEF TakeHook, NoopStays, Counted, HookTypeOK, Goto, At, Installing, Some
  <2>4. UserKept'
    BY <1>1 DEF TakeHook, UserKept, Counted, HookTypeOK, Goto, At, Installing, Some
  <2> QED
    BY <2>1, <2>2, <2>3, <2>4
<1>2. CASE SaveHook(t)
  <2>1. HookTypeOK'
    <3>1. Cardinality({prev[t]}) = 1
      BY FS_Singleton, Zenon
    <3> QED
      BY <1>2, <3>1 DEF SaveHook, HookTypeOK, Goto, PC, Hook
  <2>2. Counted'
    BY <1>2, SameCount DEF SaveHook, Counted, HookTypeOK, Goto, At, InFlight, Installing, PC
  <2>3. NoopStays'
    BY <1>2 DEF SaveHook, NoopStays, Counted, HookTypeOK, Goto, At, Installing, Some
  <2>4. UserKept'
    BY <1>2 DEF SaveHook, UserKept, Counted, HookTypeOK, Goto, At, Installing, Some
  <2> QED
    BY <2>1, <2>2, <2>3, <2>4
<1>3. CASE SetNoop(t)
  <2>1. HookTypeOK'
    BY <1>3 DEF SetNoop, HookTypeOK, Goto, PC, Hook
  <2>2. Counted'
    BY <1>3, SameCount DEF SetNoop, Counted, HookTypeOK, Goto, At, InFlight, Installing, PC
  <2>3. NoopStays'
    BY <1>3 DEF SetNoop, NoopStays, Counted, HookTypeOK, Goto, At, Installing, Some
  <2>4. UserKept'
    BY <1>3 DEF SetNoop, UserKept, Counted, HookTypeOK, Goto, At, Installing, Some
  <2> QED
    BY <2>1, <2>2, <2>3, <2>4
<1> QED
  BY <1>1, <1>2, <1>3

LEMMA LeaveInv ==
  ASSUME HookInv, NEW t \in Threads, Leave(t)
  PROVE  HookInv'
<1> USE DEF HookInv
<1>1. /\ t \in InFlight
      /\ InFlight' = InFlight \ {t}
  BY DEF Leave, At, Goto, InFlight, HookTypeOK
<1>2. depth' = Cardinality(InFlight') /\ depth' \in Nat
  BY <1>1, DepthIsCount, FS_RemoveElement, FS_CardinalityType DEF Leave, Counted
<1>3. HookTypeOK'
  BY <1>2 DEF Leave, HookTypeOK, Goto, PC
<1>4. Counted'
  BY <1>2 DEF Leave, Counted, HookTypeOK, Goto, At, Installing
<1>5. depth = 1 => \A u \in Threads : u # t => u \notin InFlight
  BY <1>1, DepthIsCount
<1>6. depth # 1 => \E u \in Threads : u # t /\ u \in InFlight
  <2>1. ASSUME \A u \in Threads : u # t => u \notin InFlight PROVE depth = 1
    <3>1. InFlight = {t}
      BY <1>1, <2>1 DEF InFlight
    <3> QED
      BY <3>1, FS_Singleton DEF Counted
  <2> QED
    BY <2>1
<1>7. NoopStays'
  BY <1>5, <1>6 DEF Leave, NoopStays, HookTypeOK, Goto, At, InFlight, Installing, Some
<1>8. UserKept'
  <2>1. CASE depth = 1
    BY <1>5, <2>1 DEF Leave, UserKept, HookTypeOK, PC, Goto, At, InFlight, Some
  <2>2. CASE depth # 1
    BY <1>6, <2>2 DEF Leave, UserKept, HookTypeOK, PC, Goto, At, InFlight, Some
  <2> QED
    BY <2>1, <2>2
<1> QED
  BY <1>3, <1>4, <1>7, <1>8

LEMMA RestoreInv ==
  ASSUME HookInv, NEW t \in Threads, TakeSaved(t) \/ PutBack(t)
  PROVE  HookInv'
<1> USE DEF HookInv
<1>1. CASE TakeSaved(t)
  <2>1. HookTypeOK'
    BY <1>1, FS_EmptySet DEF TakeSaved, HookTypeOK, Goto, PC, Hook
  <2>2. Counted'
    BY <1>1, SameCount DEF TakeSaved, Counted, HookTypeOK, Goto, At, InFlight, Installing, PC
  <2>3. NoopStays'
    BY <1>1 DEF TakeSaved, NoopStays, Counted, HookTypeOK, Goto, At, Installing, Some
  <2>4. UserKept'
    BY <1>1 DEF TakeSaved, UserKept, Counted, HookTypeOK, Goto, At, Installing, Some
  <2> QED
    BY <2>1, <2>2, <2>3, <2>4
<1>2. CASE PutBack(t)
  <2>1. HookTypeOK'
    BY <1>2 DEF PutBack, HookTypeOK, Goto, PC, Hook
  <2>2. Counted'
    <3>1. \A u \in Threads : At(u, "put_back") => u = t
      BY <1>2 DEF PutBack, Counted, At
    <3>2. lock' = {u \in Threads : At(u, "put_back")'}
      BY <1>2, <3>1 DEF PutBack, HookTypeOK, Goto, At
    <3>3. depth' = Cardinality(InFlight)'
      BY <1>2, SameCount DEF PutBack, At, InFlight, PC
    <3> QED
      BY <1>2, <3>2, <3>3 DEF PutBack, Counted, HookTypeOK, Goto, Installing
  <2>3. NoopStays'
    BY <1>2 DEF PutBack, NoopStays, Counted, HookTypeOK, Goto, At, Installing, Some
  <2>4. UserKept'
    BY <1>2 DEF PutBack, UserKept, Counted, HookTypeOK, Goto, At, Installing, Some
  <2> QED
    BY <2>1, <2>2, <2>3, <2>4
<1> QED
  BY <1>1, <1>2

LEMMA HookNextInv == HookInv /\ [HookNext]_hookVars => HookInv'
<1> SUFFICES ASSUME HookInv, [HookNext]_hookVars PROVE HookInv'
  OBVIOUS
<1>1. CASE UNCHANGED hookVars
  BY <1>1 DEF hookVars, HookInv, HookTypeOK, Counted, NoopStays, UserKept, At, Some, InFlight, Installing
<1>2. CASE HookNext
  BY <1>2, EnterInv, InstallInv, LeaveInv, RestoreInv DEF HookNext, Step
<1> QED
  BY <1>1, <1>2

LEMMA HookInvariance == HookSpec => []HookInv
<1> QED
  BY HookInitInv, HookNextInv, PTL DEF HookSpec

----------------------------------------------------------------------------
(* The variables of the guard keep their types, and SAVED_HOOK holds at    *)
(* most one hook.                                                          *)
THEOREM HookTypeCorrect == HookSpec => []HookTypeOK
<1>1. HookInv => HookTypeOK
  BY DEF HookInv
<1> QED
  BY <1>1, HookInvariance, PTL

(* However many threads run captures and however their installs and drops  *)
(* interleave, a run in flight finds the no-op hook in place, but for the  *)
(* few steps of an install.                                                *)
THEOREM HookSilencedInFlight == HookSpec => []SilencedInFlight
<1>1. HookInv => SilencedInFlight
  BY DEF HookInv, NoopStays, SilencedInFlight, Some, Installing
<1> QED
  BY <1>1, HookInvariance, PTL

(* The process gets back the hook it had, whatever overlaps, unless a run  *)
(* began between the count's return to zero and the hook's return.         *)
THEOREM HookRestoredUnlessRaced == HookSpec => []RestoredUnlessRaced
<1>1. HookInv => RestoredUnlessRaced
  BY DEF HookInv, UserKept, RestoredUnlessRaced, Quiet
<1> QED
  BY <1>1, HookInvariance, PTL

(***************************************************************************)
(* iter_batches: a capture of any length and a queue of any size.          *)
(***************************************************************************)

Terminals == {Done, Exc}

(* Batches that have left the worker's hands, if q holds no terminal item. *)
Sent == Len(got) + Len(q)

(* The queue continues where the caller is, and a terminal item is the     *)
(* last one, put as the worker ended.                                      *)
QueueContinues ==
  \A i \in 1..Len(q) :
    IF q[i] \in Terminals
    THEN i = Len(q) /\ wpc = "end" /\ q[i] = last
    ELSE q[i] = Len(got) + i

(* The event is set exactly when the generator has left its loop.          *)
StopMeansLeft ==
  /\ stop <=> cpc \in {"join", "end"}
  /\ outcome = "open" <=> ~ stop

(* Where every batch made is, by where the worker is.                      *)
BatchesAccounted ==
  /\ made <= Sent + 1
  /\ wpc = "dissect" => made = Sent
  /\ wpc \in {"poll", "put"} => made = Sent + 1
  /\ wpc = "skim" => stop
  /\ wpc = "finish" /\ ~ stop => made = Sent /\ (last = Done => made = NBatches)
  /\ wpc = "end" /\ ~ stop => /\ q # <<>>
                              /\ q[Len(q)] = last
                              /\ made = Sent - 1
                              /\ last = Done => made = NBatches

(* The caller met a terminal item: the worker had ended.                   *)
EndedBefore == outcome \in {"done", "raised"} => wpc = "end"

IterInv ==
  /\ IterTypeOK
  /\ InOrder
  /\ NoSilentTruncation
  /\ Bounded
  /\ QueueContinues
  /\ StopMeansLeft
  /\ BatchesAccounted
  /\ EndedBefore

----------------------------------------------------------------------------
(* A terminal item at the head of the queue is alone in it.                *)
LEMMA TerminalIsLast ==
  ASSUME IterInv, q # <<>>, Head(q) \in Terminals
  PROVE  Len(q) = 1 /\ wpc = "end" /\ Head(q) = last /\ Tail(q) = <<>>
<1>1. q \in Seq(Item)
  BY DEF IterInv, IterTypeOK
<1>2. Len(q) \in Nat /\ 1 \in 1..Len(q) /\ q[1] = Head(q)
  BY <1>1
<1>3. 1 = Len(q) /\ wpc = "end" /\ Head(q) = last
  BY <1>2 DEF IterInv, QueueContinues
<1>4. Tail(q) \in Seq(Item) /\ Len(Tail(q)) = 0
  BY <1>1, <1>3
<1>5. Tail(q) = <<>>
  BY <1>4, EmptySeq, Zenon
<1> QED
  BY <1>3, <1>5

(* A generator that has just started its worker satisfies the invariant.   *)
LEMMA IterInitInv == IterInit => IterInv
<1> SUFFICES ASSUME IterInit PROVE IterInv
  OBVIOUS
<1>1. q = <<>> /\ got = <<>> /\ Len(q) = 0 /\ Len(got) = 0
  BY DEF IterInit
<1>2. IterTypeOK
  <2>1. q \in Seq(Item) /\ got \in Seq(1..NBatches)
    BY <1>1
  <2>2. made \in 0..NBatches
    BY IterAssumption DEF IterInit
  <2> QED
    BY <2>1, <2>2 DEF IterInit, IterTypeOK, WPC, CPC
<1>3. InOrder /\ QueueContinues /\ NoSilentTruncation /\ StopMeansLeft /\ EndedBefore
  BY <1>1 DEF IterInit, InOrder, QueueContinues, NoSilentTruncation, StopMeansLeft, EndedBefore
<1>4. Bounded /\ BatchesAccounted
  BY <1>1, IterAssumption DEF IterInit, Bounded, HeldBatches, BatchesAccounted, Sent
<1> QED
  BY <1>2, <1>3, <1>4 DEF IterInv

(* The worker's steps that leave the queue alone: they start before it has *)
(* put a terminal item.                                                    *)
LEMMA WorkerLocal ==
  ASSUME IterInv, NextBatch \/ RunDone \/ RunFails \/ Poll \/ PutTimesOut \/ Skim
  PROVE  IterInv'
<1> USE IterAssumption
<1>1. /\ wpc # "end"
      /\ UNCHANGED <<q, stop, cpc, got, outcome>>
  BY DEF NextBatch, RunDone, RunFails, Poll, PutTimesOut, Skim
<1>2. IterTypeOK'
  BY DEF IterInv, IterTypeOK, WPC, NextBatch, RunDone, RunFails, Poll, PutTimesOut, Skim
<1>3. InOrder' /\ StopMeansLeft'
  BY <1>1 DEF IterInv, InOrder, StopMeansLeft
<1>4. QueueContinues'
  <2>1. \A i \in 1..Len(q) : q[i] \notin Terminals /\ q[i] = Len(got) + i
    BY <1>1 DEF IterInv, QueueContinues
  <2> QED
    BY <1>1, <2>1 DEF QueueContinues
<1>5. BatchesAccounted'
  <2> USE DEF IterInv, IterTypeOK, BatchesAccounted, Sent
  <2>1. CASE NextBatch
    BY <2>1 DEF NextBatch
  <2>2. CASE RunDone
    BY <2>2 DEF RunDone
  <2>3. CASE RunFails
    BY <2>3 DEF RunFails, Done, Exc
  <2>4. CASE Poll
    BY <2>4 DEF Poll
  <2>5. CASE PutTimesOut
    BY <2>5 DEF PutTimesOut
  <2>6. CASE Skim
    BY <2>6 DEF Skim
  <2> QED
    BY <2>1, <2>2, <2>3, <2>4, <2>5, <2>6
<1>6. Bounded'
  BY DEF IterInv, IterTypeOK, Bounded, HeldBatches, BatchesAccounted, Sent,
         NextBatch, RunDone, RunFails, Poll, PutTimesOut, Skim
<1>7. EndedBefore' /\ NoSilentTruncation'
  BY <1>1 DEF IterInv, EndedBefore, NoSilentTruncation
<1> QED
  BY <1>2, <1>3, <1>4, <1>5, <1>6, <1>7 DEF IterInv

(* Appending to the queue.                                                 *)
LEMMA AppendFacts ==
  ASSUME IterInv, NEW x \in Item, q' = Append(q, x), HasRoom
  PROVE  /\ q' \in Seq(Item)
         /\ Len(q') = Len(q) + 1
         /\ Len(q') <= QueueSize
         /\ \A i \in 1..Len(q) : q'[i] = q[i]
         /\ q'[Len(q) + 1] = x
         /\ q' # <<>>
  BY IterAssumption DEF IterInv, IterTypeOK, HasRoom

(* A batch put on the queue keeps the queue a run of consecutive batches.  *)
LEMMA EmitInv ==
  ASSUME IterInv, Emit
  PROVE  IterInv'
<1>1. /\ made \in Nat
      /\ made = Sent + 1
      /\ made \in 1..NBatches
      /\ Len(q) \in Nat
      /\ Len(got) \in Nat
  BY IterAssumption DEF IterInv, IterTypeOK, Emit, BatchesAccounted, Sent
<1>2. /\ q' = Append(q, made)
      /\ HasRoom
      /\ wpc = "put"
      /\ wpc' = "dissect"
      /\ UNCHANGED <<stop, made, last, cpc, got, outcome>>
  BY DEF Emit
<1>3. /\ q' \in Seq(Item)
      /\ Len(q') = Len(q) + 1
      /\ Len(q') <= QueueSize
      /\ \A i \in 1..Len(q) : q'[i] = q[i]
      /\ q'[Len(q) + 1] = made
  BY <1>1, <1>2, AppendFacts DEF Item
<1>4. IterTypeOK'
  BY <1>2, <1>3 DEF IterInv, IterTypeOK, WPC
<1>5. QueueContinues'
  <2>1. \A i \in 1..Len(q) : q[i] \notin Terminals /\ q[i] = Len(got) + i
    BY <1>2 DEF IterInv, QueueContinues
  <2>2. made = Len(got) + (Len(q) + 1) /\ made \notin Terminals
    BY <1>1 DEF Sent, Terminals, Done, Exc
  <2>3. \A i \in 1..Len(q') : i \in 1..Len(q) \/ i = Len(q) + 1
    BY <1>1, <1>3
  <2> QED
    BY <1>2, <1>3, <2>1, <2>2, <2>3 DEF QueueContinues
<1>6. InOrder' /\ StopMeansLeft' /\ EndedBefore' /\ NoSilentTruncation'
  BY <1>2 DEF IterInv, InOrder, StopMeansLeft, EndedBefore, NoSilentTruncation
<1>7. BatchesAccounted' /\ Bounded'
  BY <1>1, <1>2, <1>3, IterAssumption DEF IterInv, BatchesAccounted, Bounded, HeldBatches, Sent
<1> QED
  BY <1>4, <1>5, <1>6, <1>7 DEF IterInv

(* The terminal item goes behind every batch, once.                        *)
LEMMA FinishInv ==
  ASSUME IterInv, Finish
  PROVE  IterInv'
<1>1. /\ last \in Terminals
      /\ last \in Item
      /\ Len(q) \in Nat
      /\ Len(got) \in Nat
      /\ made \in Nat
      /\ stop \in BOOLEAN
  BY IterAssumption DEF IterInv, IterTypeOK, Item, Terminals
<1>2. /\ q' = Append(q, last)
      /\ HasRoom
      /\ wpc = "finish"
      /\ wpc' = "end"
      /\ UNCHANGED <<stop, made, last, cpc, got, outcome>>
  BY DEF Finish
<1>3. /\ q' \in Seq(Item)
      /\ Len(q') = Len(q) + 1
      /\ Len(q') <= QueueSize
      /\ \A i \in 1..Len(q) : q'[i] = q[i]
      /\ q'[Len(q) + 1] = last
      /\ q' # <<>>
  BY <1>1, <1>2, AppendFacts
<1>4. IterTypeOK'
  BY <1>2, <1>3 DEF IterInv, IterTypeOK, WPC
<1>5. QueueContinues'
  <2>1. \A i \in 1..Len(q) : q[i] \notin Terminals /\ q[i] = Len(got) + i
    BY <1>2 DEF IterInv, QueueContinues
  <2>2. \A i \in 1..Len(q') : i \in 1..Len(q) \/ i = Len(q')
    BY <1>1, <1>3
  <2> QED
    BY <1>1, <1>2, <1>3, <2>1, <2>2 DEF QueueContinues
<1>6. InOrder' /\ StopMeansLeft' /\ EndedBefore' /\ NoSilentTruncation'
  BY <1>2 DEF IterInv, InOrder, StopMeansLeft, EndedBefore, NoSilentTruncation
<1>7. BatchesAccounted'
  <2>1. made <= Sent + 1 /\ (~ stop => made = Sent /\ (last = Done => made = NBatches))
    BY <1>2 DEF IterInv, BatchesAccounted
  <2>2. Sent' = Sent + 1 /\ Sent \in Nat
    BY <1>1, <1>2, <1>3 DEF Sent
  <2>3. q'[Len(q')] = last
    BY <1>3
  <2> QED
    BY <1>1, <1>2, <1>3, <2>1, <2>2, <2>3 DEF BatchesAccounted
<1>8. Bounded'
  BY <1>1, <1>2, <1>3, IterAssumption DEF IterInv, Bounded, HeldBatches
<1> QED
  BY <1>4, <1>5, <1>6, <1>7, <1>8 DEF IterInv

(* A batch taken off the queue is the one right after those yielded.       *)
LEMMA YieldInv ==
  ASSUME IterInv, Yield
  PROVE  IterInv'
<1>1. /\ q \in Seq(Item)
      /\ got \in Seq(1..NBatches)
      /\ Len(q) \in Nat \ {0}
      /\ Len(got) \in Nat
      /\ made \in Nat
      /\ Head(q) = q[1]
      /\ Head(q) \in 1..NBatches
      /\ Head(q) \notin Terminals
  BY DEF IterInv, IterTypeOK, Yield, Item, Terminals
<1>2. /\ q' = Tail(q)
      /\ got' = Append(got, Head(q))
      /\ cpc = "get"
      /\ cpc' = "yielded"
      /\ UNCHANGED <<stop, wpc, made, last, outcome>>
  BY DEF Yield
<1>3. /\ q' \in Seq(Item)
      /\ Len(q') = Len(q) - 1
      /\ \A i \in 1..Len(q') : q'[i] = q[i + 1]
  BY <1>1, <1>2
<1>4. /\ got' \in Seq(1..NBatches)
      /\ Len(got') = Len(got) + 1
      /\ \A i \in 1..Len(got) : got'[i] = got[i]
      /\ got'[Len(got) + 1] = Head(q)
  BY <1>1, <1>2
<1>5. IterTypeOK'
  BY <1>2, <1>3, <1>4 DEF IterInv, IterTypeOK, CPC
<1>6. Head(q) = Len(got) + 1
  BY <1>1 DEF IterInv, QueueContinues
<1>7. InOrder'
  BY <1>1, <1>4, <1>6 DEF IterInv, InOrder
<1>8. QueueContinues'
  <2> SUFFICES ASSUME NEW i \in 1..Len(q')
               PROVE  IF q'[i] \in Terminals
                      THEN i = Len(q') /\ wpc' = "end" /\ q'[i] = last'
                      ELSE q'[i] = Len(got') + i
    BY DEF QueueContinues
  <2>1. i + 1 \in 1..Len(q) /\ q'[i] = q[i + 1]
    BY <1>1, <1>3
  <2>2. IF q[i + 1] \in Terminals
        THEN i + 1 = Len(q) /\ wpc = "end" /\ q[i + 1] = last
        ELSE q[i + 1] = Len(got) + (i + 1)
    BY <2>1 DEF IterInv, QueueContinues
  <2>3. CASE q[i + 1] \in Terminals
    <3>1. i + 1 = Len(q) /\ wpc = "end" /\ q[i + 1] = last
      BY <2>2, <2>3
    <3>2. i = Len(q')
      <4>1. i \in Int
        OBVIOUS
      <4> QED
        BY <4>1, <1>1, <1>3, <3>1
    <3>3. wpc' = "end" /\ q'[i] = last'
      BY <1>2, <2>1, <3>1, Zenon
    <3> QED
      BY <2>1, <2>3, <3>2, <3>3
  <2>4. CASE q[i + 1] \notin Terminals
    BY <1>1, <1>4, <2>1, <2>2, <2>4
  <2> QED
    BY <2>3, <2>4
<1>9. StopMeansLeft' /\ EndedBefore'
  BY <1>2 DEF IterInv, StopMeansLeft, EndedBefore
<1>10. ~ stop /\ outcome = "open"
  BY <1>2 DEF IterInv, StopMeansLeft
<1>11. NoSilentTruncation'
  BY <1>2, <1>10 DEF NoSilentTruncation
<1>12. wpc = "end" => q' # <<>> /\ q'[Len(q')] = last
  <2> SUFFICES ASSUME wpc = "end" PROVE q' # <<>> /\ q'[Len(q')] = last
    OBVIOUS
  <2>1. q[Len(q)] = last /\ last \in Terminals
    BY <1>10 DEF IterInv, BatchesAccounted, IterTypeOK, Terminals
  <2>2. Len(q) # 1
    BY <1>1, <2>1
  <2> QED
    BY <1>1, <1>3, <2>1, <2>2
<1>13. Sent' = Sent /\ Sent \in Nat
  BY <1>1, <1>3, <1>4 DEF Sent
<1>14. BatchesAccounted'
  BY <1>2, <1>10, <1>12, <1>13 DEF IterInv, BatchesAccounted
<1>15. Bounded'
  BY <1>1, <1>2, <1>3, <1>4, IterAssumption DEF IterInv, Bounded, HeldBatches
<1> QED
  BY <1>5, <1>7, <1>8, <1>9, <1>11, <1>14, <1>15 DEF IterInv

(* A terminal item is taken only when every batch put before it has been.  *)
LEMMA TerminalInv ==
  ASSUME IterInv, Terminal
  PROVE  IterInv'
<1>1. /\ cpc = "get"
      /\ Head(q) \in Terminals
      /\ q # <<>>
      /\ q' = Tail(q)
      /\ outcome' = IF Head(q) = Done THEN "done" ELSE "raised"
      /\ stop' = TRUE
      /\ cpc' = "join"
      /\ UNCHANGED <<wpc, made, last, got>>
  BY DEF Terminal, Terminals
<1>2. Len(q) = 1 /\ wpc = "end" /\ Head(q) = last /\ q' = <<>> /\ Len(q') = 0
  BY <1>1, TerminalIsLast
<1>3. ~ stop
  BY <1>1 DEF IterInv, StopMeansLeft
<1>4. /\ made \in Nat
      /\ Len(got) \in Nat
      /\ made = Len(got)
      /\ last = Done => made = NBatches
  BY <1>2, <1>3, IterAssumption DEF IterInv, IterTypeOK, BatchesAccounted, Sent
<1>5. IterTypeOK'
  BY <1>1, <1>2 DEF IterInv, IterTypeOK, CPC
<1>6. InOrder' /\ QueueContinues'
  <2>1. \A i \in 1..Len(q') : FALSE
    BY <1>2
  <2>2. QueueContinues'
    BY <2>1, Zenon DEF QueueContinues
  <2> QED
    BY <1>1, <2>2 DEF IterInv, InOrder
<1>7. StopMeansLeft' /\ EndedBefore'
  BY <1>1, <1>2 DEF StopMeansLeft, EndedBefore
<1>8. NoSilentTruncation'
  BY <1>1, <1>2, <1>4 DEF NoSilentTruncation, Terminals
<1>9. BatchesAccounted' /\ Bounded'
  <2>1. Sent' = Len(got) + 0 /\ made' = Len(got)
    BY <1>1, <1>2, <1>4 DEF Sent
  <2>2. BatchesAccounted'
    BY <1>1, <1>2, <1>4, <2>1 DEF BatchesAccounted
  <2>3. Bounded'
    BY <1>1, <1>2, <1>4, IterAssumption DEF Bounded, HeldBatches
  <2> QED
    BY <2>2, <2>3
<1> QED
  BY <1>5, <1>6, <1>7, <1>8, <1>9 DEF IterInv

(* The generator's steps that leave the queue alone.                       *)
LEMMA CallerInv ==
  ASSUME IterInv, Resume \/ Abandon \/ Join
  PROVE  IterInv'
<1>1. /\ UNCHANGED <<q, wpc, made, last, got>>
      /\ \/ cpc = "yielded" /\ cpc' = "get" /\ UNCHANGED <<stop, outcome>>
         \/ cpc = "yielded" /\ cpc' = "join" /\ stop' = TRUE /\ outcome' = "abandoned"
         \/ cpc = "join" /\ cpc' = "end" /\ UNCHANGED <<stop, outcome>>
  BY DEF Resume, Abandon, Join
<1>2. IterTypeOK' /\ InOrder' /\ QueueContinues' /\ Bounded'
  BY <1>1 DEF IterInv, IterTypeOK, CPC, InOrder, QueueContinues, Bounded, HeldBatches
<1>3. StopMeansLeft' /\ EndedBefore' /\ NoSilentTruncation'
  BY <1>1 DEF IterInv, IterTypeOK, StopMeansLeft, EndedBefore, NoSilentTruncation
<1>4. BatchesAccounted'
  BY <1>1 DEF IterInv, IterTypeOK, BatchesAccounted, Sent
<1> QED
  BY <1>2, <1>3, <1>4 DEF IterInv

(* Every step of the worker, of the generator and of the caller keeps the  *)
(* inductive invariant.                                                    *)
LEMMA IterNextInv == IterInv /\ [IterNext]_iterVars => IterInv'
<1> SUFFICES ASSUME IterInv, [IterNext]_iterVars PROVE IterInv'
  OBVIOUS
<1>1. CASE Worker
  BY <1>1, WorkerLocal, EmitInv, FinishInv DEF Worker
<1>2. CASE Generator
  BY <1>2, YieldInv, TerminalInv, CallerInv DEF Generator
<1>3. CASE Resume \/ Abandon
  BY <1>3, CallerInv
<1>4. CASE UNCHANGED iterVars
  BY <1>4 DEF iterVars, IterInv, IterTypeOK, InOrder, NoSilentTruncation, Bounded, HeldBatches,
              QueueContinues, StopMeansLeft, BatchesAccounted, Sent, EndedBefore
<1> QED
  BY <1>1, <1>2, <1>3, <1>4 DEF IterNext

(* The inductive invariant holds in every state of iter_batches.           *)
LEMMA IterInvariance == IterSpec => []IterInv
  BY IterInitInv, IterNextInv, PTL DEF IterSpec

----------------------------------------------------------------------------
(* The types of the queue, the two threads' positions and the results.     *)
THEOREM IterTypeCorrect == IterSpec => []IterTypeOK
<1>1. IterInv => IterTypeOK
  BY DEF IterInv
<1> QED
  BY <1>1, IterInvariance, PTL

(* The caller of iter_batches gets batches 1, 2, 3, ... without a gap.     *)
THEOREM IterInOrder == IterSpec => []InOrder
<1>1. IterInv => InOrder
  BY DEF IterInv
<1> QED
  BY <1>1, IterInvariance, PTL

(* An iteration that ends normally is complete, one that raises has        *)
(* delivered everything made before the failure.                           *)
THEOREM IterNoSilentTruncation == IterSpec => []NoSilentTruncation
<1>1. IterInv => NoSilentTruncation
  BY DEF IterInv
<1> QED
  BY <1>1, IterInvariance, PTL

(* No more than queue_size + 1 batches wait for the caller.                *)
THEOREM IterBounded == IterSpec => []Bounded
<1>1. IterInv => Bounded
  BY DEF IterInv
<1> QED
  BY <1>1, IterInvariance, PTL

(***************************************************************************)
(* The output directory: any rows, batches and number of runs.             *)
(***************************************************************************)

Running == phase # "idle"

(* A table's rows in the current batch that are still to be written.       *)
Due(i) == IF i \in DOMAIN todo THEN todo[i] ELSE 0

(* The rows of this run that table number i has been given so far.         *)
Given(i) == IF mode = "split" THEN Count(PROTO_TABLES[i]) - Due(i) ELSE 0

(* What the directory holds of this run is what the sinks and the report   *)
(* say: a file is open, or closed with the rows reported.                  *)
DiskInv ==
  /\ \A f \in DOMAIN disk : disk[f].run <= run
  /\ Running =>
       /\ \A f \in DOMAIN sinks : f \in DOMAIN disk /\ disk[f].run = run
       /\ \A f \in DOMAIN files :
            /\ f \in DOMAIN disk
            /\ disk[f] = [run |-> run, rows |-> files[f], complete |-> TRUE]
       /\ \A f \in DOMAIN disk : disk[f].run = run => f \in DOMAIN sinks \union DOMAIN files
       /\ DOMAIN sinks \intersect DOMAIN files = {}

(* An older _meta.json stays until the new one is written.                 *)
MetaInv ==
  /\ ended = "running" <=> Running
  /\ Running => run > 0
  /\ ended \in {"running", "failed"} => meta.run < run
  /\ ended = "none" => meta.run = 0
  /\ DOMAIN meta.files \subseteq DOMAIN disk

TodoInv ==
  /\ DOMAIN todo # {} <=> phase = "tables"
  /\ phase = "tables" => mode = "split"
  /\ \A i \in DOMAIN todo : todo[i] <= Count(PROTO_TABLES[i])

(* Where packets.parquet and flows.parquet are, by the phase of the run.   *)
PacketsInv ==
  /\ phase \in {"batch", "tables", "packets"} =>
       /\ DOMAIN files = {}
       /\ "packets" \in DOMAIN sinks <=> Len(input) > 0
       /\ "packets" \in DOMAIN sinks => sinks["packets"] = Len(input)
  /\ phase \in {"sidecars", "flows", "meta"} =>
       "packets" \in DOMAIN files /\ files["packets"] = Len(input)
  /\ phase \in {"flows", "meta"} => DOMAIN sinks = {}
  /\ Running => "flows" \notin DOMAIN sinks /\ ("flows" \in DOMAIN files <=> phase = "meta")

(* A table has a file exactly when it has been given rows, and has those.  *)
TableInv ==
  Running =>
    \A i \in DOMAIN PROTO_TABLES :
      /\ Name(i) \in DOMAIN sinks \union DOMAIN files <=> Given(i) > 0
      /\ Name(i) \in DOMAIN sinks => sinks[Name(i)] = Given(i)
      /\ Name(i) \in DOMAIN files => files[Name(i)] = Given(i)

OutputInv ==
  /\ OutputTypeOK /\ MetaIsCommit /\ RowsInPlace
  /\ DiskInv /\ MetaInv /\ TodoInv /\ PacketsInv /\ TableInv

----------------------------------------------------------------------------
LEMMA TablesLen == DOMAIN PROTO_TABLES = 1..38
  BY DEF PROTO_TABLES

(* No two tables share a file, and none is called packets or flows: a      *)
(* sidecar never overwrites what another one has written.                  *)
LEMMA NamesDistinct ==
  /\ \A i, j \in DOMAIN PROTO_TABLES : Name(i) = Name(j) => i = j
  /\ \A i \in DOMAIN PROTO_TABLES : Name(i) \notin {"packets", "flows"}
  BY TablesLen DEF PROTO_TABLES, Name

LEMMA NamesAre ==
  /\ \A i \in DOMAIN PROTO_TABLES : Name(i) \in Names
  /\ "packets" \in Names /\ "flows" \in Names
  /\ \A t \in Tables : \E i \in DOMAIN PROTO_TABLES : t = PROTO_TABLES[i] /\ t[1] = Name(i)
  BY DEF Names, Tables, Name

LEMMA NoFilesIs == DOMAIN NoFiles = {}
  BY DEF NoFiles

----------------------------------------------------------------------------
(* Counting the rows of a table.                                           *)
LEMMA PartOfInterval ==
  ASSUME NEW n \in Nat, NEW S \in SUBSET (1 .. n)
  PROVE  IsFiniteSet(S) /\ Cardinality(S) \in Nat /\ Cardinality(S) <= n /\ \A j \in S : j \in Nat
<1>1. IsFiniteSet(1 .. n) /\ Cardinality(1 .. n) = n
  BY FS_Interval
<1>2. S \subseteq 1 .. n
  OBVIOUS
<1>3. IsFiniteSet(S) /\ Cardinality(S) <= n
  BY <1>1, <1>2, FS_Subset
<1> QED
  BY <1>2, <1>3, FS_CardinalityType

LEMMA ShiftedSet ==
  ASSUME NEW N \in Nat, NEW n \in Nat, NEW S \in SUBSET (1 .. n)
  PROVE  IsFiniteSet({N + j : j \in S}) /\ Cardinality({N + j : j \in S}) = Cardinality(S)
<1> DEFINE T == {N + j : j \in S}
           g == [j \in S |-> N + j]
<1>1. IsFiniteSet(S) /\ \A j \in S : j \in Nat
  BY PartOfInterval
<1>2. g \in [S -> T]
  OBVIOUS
<1>3. \A a, b \in S : g[a] = g[b] => a = b
  BY <1>1
<1>4. \A y \in T : \E a \in S : g[a] = y
  OBVIOUS
<1>5. g \in Bijection(S, T)
  <2> HIDE DEF g, T
  <2> QED
    BY <1>2, <1>3, <1>4, Zenon DEF Bijection, Injection, IsInjective, Surjection
<1>6. ExistsBijection(S, T)
  BY <1>5 DEF ExistsBijection
<1> QED
  BY <1>1, <1>6, FS_Bijection

LEMMA TableRowsType ==
  ASSUME NEW s \in Seq(Rows), NEW t
  PROVE  /\ IsFiniteSet(proto_table(s, t))
         /\ Cardinality(proto_table(s, t)) \in Nat
         /\ Cardinality(proto_table(s, t)) <= Len(s)
         /\ proto_table(s, t) # {} <=> Cardinality(proto_table(s, t)) > 0
<1>1. Len(s) \in Nat /\ proto_table(s, t) \in SUBSET (1 .. Len(s))
  BY DEF proto_table
<1>2. PICK S : S = proto_table(s, t)
  OBVIOUS
<1>3. IsFiniteSet(S) /\ Cardinality(S) \in Nat /\ Cardinality(S) <= Len(s)
  BY <1>1, <1>2, PartOfInterval
<1>4. Cardinality(S) = 0 <=> S = {}
  BY <1>3, FS_EmptySet
<1> QED
  BY <1>2, <1>3, <1>4

(* The rows of a table in two batches are those in the one and those in    *)
(* the other.                                                              *)
LEMMA TableRowsAdd ==
  ASSUME NEW s \in Seq(Rows), NEW b \in Seq(Rows), NEW t
  PROVE  Cardinality(proto_table(s \o b, t)) =
           Cardinality(proto_table(s, t)) + Cardinality(proto_table(b, t))
<1>1. PICK N \in Nat, n \in Nat : N = Len(s) /\ n = Len(b)
  OBVIOUS
<1> DEFINE A == proto_table(s, t)
           S == proto_table(b, t)
           T == {N + j : j \in S}
<1>2. A \in SUBSET (1 .. N) /\ S \in SUBSET (1 .. n)
  BY <1>1 DEF proto_table
<1>3. IsFiniteSet(A) /\ IsFiniteSet(S)
  BY <1>2, PartOfInterval
<1>4. IsFiniteSet(T) /\ Cardinality(T) = Cardinality(S)
  <2> HIDE DEF S
  <2> QED
    BY <1>2, ShiftedSet
<1>5. A \cap T = {}
  BY <1>2
<1>6. proto_table(s \o b, t) = A \cup T
  <2>1. /\ DOMAIN (s \o b) = 1 .. (N + n)
        /\ \A i \in 1 .. N : (s \o b)[i] = s[i]
        /\ \A j \in 1 .. n : (s \o b)[N + j] = b[j]
    BY <1>1
  <2>2. PICK c : c = s \o b
    OBVIOUS
  <2>3. /\ \A i \in A : i \in 1 .. N /\ InTable(s[i], t)
        /\ \A i \in 1 .. N : InTable(s[i], t) => i \in A
        /\ \A j \in S : j \in 1 .. n /\ InTable(b[j], t)
        /\ \A j \in 1 .. n : InTable(b[j], t) => j \in S
    BY <1>1 DEF proto_table
  <2>4. ASSUME NEW i \in 1 .. (N + n), InTable(c[i], t) PROVE i \in A \cup T
    <3>1. CASE i <= N
      BY <2>1, <2>2, <2>3, <2>4, <3>1
    <3>2. CASE ~ (i <= N)
      <4>1. PICK j \in 1 .. n : i = N + j
        <5>1. i - N \in 1 .. n /\ i = N + (i - N)
          BY <2>4, <3>2
        <5> QED
          BY <5>1
      <4>2. j \in S
        BY <2>1, <2>2, <2>3, <2>4, <4>1
      <4> QED
        BY <4>1, <4>2
    <3> QED
      BY <3>1, <3>2
  <2>5. ASSUME NEW i \in A PROVE i \in 1 .. (N + n) /\ InTable(c[i], t)
    BY <2>1, <2>2, <2>3
  <2>6. ASSUME NEW i \in T PROVE i \in 1 .. (N + n) /\ InTable(c[i], t)
    <3>1. PICK j \in S : i = N + j
      BY <2>6
    <3>2. j \in 1 .. n /\ InTable(b[j], t)
      BY <2>3
    <3> QED
      BY <2>1, <2>2, <3>1, <3>2
  <2>7. proto_table(c, t) = {i \in 1 .. (N + n) : InTable(c[i], t)}
    BY <2>1, <2>2 DEF proto_table
  <2> HIDE DEF A, T
  <2> QED
    BY <2>2, <2>4, <2>5, <2>6, <2>7
<1>7. /\ Cardinality(A) \in Nat /\ Cardinality(T) \in Nat
      /\ Cardinality(A \cup T) = Cardinality(A) + Cardinality(T) - Cardinality({})
  <2> HIDE DEF A, T
  <2> QED
    BY <1>3, <1>4, <1>5, FS_Union, FS_CardinalityType
<1>8. Cardinality({}) = 0
  BY FS_EmptySet
<1> HIDE DEF A, S, T
<1>9. Cardinality(A \cup T) = Cardinality(A) + Cardinality(S)
  BY <1>4, <1>7, <1>8
<1> QED
  BY <1>6, <1>9 DEF A, S

LEMMA CountIs ==
  ASSUME NEW t
  PROVE  Count(t) = Cardinality(proto_table(input, t))
<1>1. {i \in DOMAIN input : \E p \in input[i] : p \in t[2]} = proto_table(input, t)
  BY DEF proto_table, InTable
<1> QED
  BY <1>1 DEF Count

LEMMA CountType ==
  ASSUME OutputTypeOK, NEW t
  PROVE  Count(t) \in Nat /\ Count(t) <= Len(input)
<1>1. input \in Seq(Rows)
  BY DEF OutputTypeOK
<1> QED
  BY <1>1, CountIs, TableRowsType

LEMMA CountSame ==
  ASSUME NEW t, UNCHANGED input
  PROVE  Count(t)' = Count(t)
  BY DEF Count

LEMMA CountGrows ==
  ASSUME OutputTypeOK, NEW t, NEW b \in Seq(Rows), input' = input \o b
  PROVE  Count(t)' = Count(t) + Cardinality(proto_table(b, t))
<1>1. input \in Seq(Rows)
  BY DEF OutputTypeOK
<1>2. Count(t)' = Cardinality(proto_table(input \o b, t))
  <2>1. {i \in DOMAIN input' : \E p \in input'[i] : p \in t[2]} = proto_table(input \o b, t)
    BY DEF proto_table, InTable
  <2> QED
    BY <2>1 DEF Count
<1> QED
  BY <1>1, <1>2, CountIs, TableRowsAdd

----------------------------------------------------------------------------
(* The directory under a step of a run.                                    *)

FileOfRun == [run : {run}, rows : 0 .. MaxRows, complete : BOOLEAN]

(* A file is opened or closed by the run that is under way, while          *)
(* _meta.json still is that of an earlier one: it keeps describing what it *)
(* described, but for that file.                                           *)
LEMMA MetaSurvives ==
  ASSUME OutputInv, Running, UNCHANGED run, ended' # "ok", meta' \in {meta, NoMeta},
         NEW f \in Names, NEW v \in FileOfRun, disk' \in {disk, With(disk, f, v)}
  PROVE  /\ MetaIsCommit'
         /\ DOMAIN meta'.files \subseteq DOMAIN disk'
         /\ \A g \in DOMAIN disk' : disk'[g].run <= run'
         /\ DOMAIN disk' \subseteq Names
         /\ \A g \in DOMAIN disk' :
              disk'[g] \in [run : 1..MaxRuns, rows : 0..MaxRows, complete : BOOLEAN]
<1>1. /\ run \in 1 .. MaxRuns /\ meta.run < run /\ meta.run \in 0 .. MaxRuns
      /\ v.run = run /\ v \in [run : 1..MaxRuns, rows : 0..MaxRows, complete : BOOLEAN]
  BY OutputAssumption DEF OutputInv, OutputTypeOK, MetaInv, Running, FileOfRun
<1>2. /\ DOMAIN disk' \in {DOMAIN disk, DOMAIN disk \union {f}}
      /\ \A g \in DOMAIN disk' : disk'[g] = v \/ (g \in DOMAIN disk /\ disk'[g] = disk[g])
  BY DEF With
<1>3. DOMAIN disk' \subseteq Names /\ DOMAIN disk \subseteq DOMAIN disk'
  BY <1>2 DEF OutputInv, OutputTypeOK
<1>4. \A g \in DOMAIN disk' :
              disk'[g] \in [run : 1..MaxRuns, rows : 0..MaxRows, complete : BOOLEAN]
  BY <1>1, <1>2, Zenon DEF OutputInv, OutputTypeOK
<1>5. \A g \in DOMAIN disk' : disk'[g].run <= run
  BY <1>1, <1>2 DEF OutputInv, DiskInv
<1>6. DOMAIN meta.files \subseteq DOMAIN disk /\ DOMAIN meta.files \subseteq DOMAIN disk'
  BY <1>3 DEF OutputInv, MetaInv
<1>7. CASE meta' = meta
  <2>1. \A g \in DOMAIN meta.files :
          \/ disk'[g] = [run |-> meta.run, rows |-> meta.files[g], complete |-> TRUE]
          \/ disk'[g].run > meta.run
    BY <1>1, <1>2, <1>6 DEF OutputInv, MetaIsCommit
  <2>2. \A g \in DOMAIN disk' : meta.run # 0 /\ disk'[g].run = meta.run => g \in DOMAIN meta.files
    BY <1>1, <1>2 DEF OutputInv, MetaIsCommit
  <2> QED
    BY <1>3, <1>4, <1>5, <1>6, <1>7, <2>1, <2>2 DEF MetaIsCommit
<1>8. CASE meta' = NoMeta
  <2>1. meta'.run = 0 /\ DOMAIN meta'.files = {}
    BY <1>8, NoFilesIs DEF NoMeta
  <2> QED
    BY <1>3, <1>4, <1>5, <2>1 DEF MetaIsCommit
<1> QED
  BY <1>7, <1>8

(* What a write into a sink leaves, created before or by this write.       *)
Wrote(f, n) ==
  /\ DOMAIN sinks' = DOMAIN sinks \union {f}
  /\ sinks'[f] = (IF f \in DOMAIN sinks THEN sinks[f] + n ELSE n)
  /\ \A g \in DOMAIN sinks : g # f => sinks'[g] = sinks[g]
  /\ disk' \in {disk, With(disk, f, Truncated)}
  /\ f \in DOMAIN sinks => disk' = disk
  /\ f \notin DOMAIN sinks => disk' = With(disk, f, Truncated)

LEMMA WriteLeaves ==
  ASSUME NEW f, NEW n, Write(f, n)
  PROVE  Wrote(f, n)
<1>1. CASE f \in DOMAIN sinks
  BY <1>1 DEF Write, Wrote
<1>2. CASE f \notin DOMAIN sinks
  BY <1>2 DEF With, Write, Wrote
<1> QED
  BY <1>1, <1>2

LEMMA TruncatedType ==
  ASSUME OutputTypeOK PROVE Truncated \in FileOfRun /\ Truncated.run = run
  BY OutputAssumption DEF Truncated, FileOfRun

(* The part of DiskInv about the run under way, for a write.               *)
LEMMA WriteKeepsDisk ==
  ASSUME OutputInv, Running, Running', UNCHANGED <<run, meta, files>>, ended' # "ok",
         NEW f \in Names, f \notin DOMAIN files, NEW n, Wrote(f, n)
  PROVE  /\ MetaIsCommit' /\ DiskInv'
         /\ DOMAIN meta.files \subseteq DOMAIN disk'
         /\ DOMAIN disk' \subseteq Names
         /\ \A g \in DOMAIN disk' :
              disk'[g] \in [run : 1..MaxRuns, rows : 0..MaxRows, complete : BOOLEAN]
<1>1. Truncated \in FileOfRun /\ Truncated.run = run
  BY TruncatedType DEF OutputInv
<1>2. disk' \in {disk, With(disk, f, Truncated)}
  BY DEF Wrote
<1>3. /\ MetaIsCommit'
      /\ DOMAIN meta.files \subseteq DOMAIN disk'
      /\ \A g \in DOMAIN disk' : disk'[g].run <= run'
      /\ DOMAIN disk' \subseteq Names
      /\ \A g \in DOMAIN disk' :
           disk'[g] \in [run : 1..MaxRuns, rows : 0..MaxRows, complete : BOOLEAN]
  BY <1>1, <1>2, MetaSurvives
<1>4. /\ DOMAIN disk' = DOMAIN disk \union {f}
      /\ disk'[f].run = run
      /\ \A g \in DOMAIN disk : g # f => disk'[g] = disk[g]
      /\ DOMAIN sinks' = DOMAIN sinks \union {f}
  BY <1>1 DEF With, Wrote, OutputInv, DiskInv
<1>5. DiskInv'
  BY <1>3, <1>4 DEF OutputInv, DiskInv
<1> QED
  BY <1>3, <1>5

(* What closing a sink leaves.                                             *)
Closed(f, n) ==
  /\ DOMAIN disk' = DOMAIN disk \union {f}
  /\ disk'[f] = [run |-> run, rows |-> n, complete |-> TRUE]
  /\ \A g \in DOMAIN disk : g # f => disk'[g] = disk[g]
  /\ DOMAIN files' = DOMAIN files \union {f}
  /\ files'[f] = n
  /\ \A g \in DOMAIN files : g # f => files'[g] = files[g]
  /\ DOMAIN sinks' = DOMAIN sinks \ {f}
  /\ \A g \in DOMAIN sinks : g # f => sinks'[g] = sinks[g]

LEMMA CloseKeepsDisk ==
  ASSUME OutputInv, Running, Running', UNCHANGED <<run, meta>>, ended' # "ok",
         NEW f \in Names, f \notin DOMAIN files, NEW n \in 0 .. MaxRows, Close(f, n)
  PROVE  /\ MetaIsCommit' /\ DiskInv' /\ Closed(f, n)
         /\ DOMAIN meta.files \subseteq DOMAIN disk'
         /\ DOMAIN disk' \subseteq Names
         /\ \A g \in DOMAIN disk' :
              disk'[g] \in [run : 1..MaxRuns, rows : 0..MaxRows, complete : BOOLEAN]
<1>1. PICK v : v = [run |-> run, rows |-> n, complete |-> TRUE]
  OBVIOUS
<1>2. v \in FileOfRun /\ v.run = run
  BY <1>1 DEF FileOfRun
<1>3. disk' \in {disk, With(disk, f, v)}
  BY <1>1 DEF Close
<1>4. /\ MetaIsCommit'
      /\ DOMAIN meta.files \subseteq DOMAIN disk'
      /\ \A g \in DOMAIN disk' : disk'[g].run <= run'
      /\ DOMAIN disk' \subseteq Names
      /\ \A g \in DOMAIN disk' :
           disk'[g] \in [run : 1..MaxRuns, rows : 0..MaxRows, complete : BOOLEAN]
  BY <1>2, <1>3, MetaSurvives
<1>5. Closed(f, n)
  BY DEF With, Without, Close, Closed
<1>6. DiskInv'
  <2>1. \A g \in DOMAIN sinks' : g \in DOMAIN disk' /\ disk'[g].run = run
    BY <1>5 DEF Closed, OutputInv, DiskInv
  <2>2. \A g \in DOMAIN files' :
          g \in DOMAIN disk' /\ disk'[g] = [run |-> run, rows |-> files'[g], complete |-> TRUE]
    BY <1>5 DEF Closed, OutputInv, DiskInv
  <2>3. \A g \in DOMAIN disk' : disk'[g].run = run => g \in DOMAIN sinks' \union DOMAIN files'
    BY <1>5 DEF Closed, OutputInv, DiskInv
  <2>4. DOMAIN sinks' \intersect DOMAIN files' = {}
    BY <1>5 DEF Closed, OutputInv, DiskInv
  <2> QED
    BY <1>4, <2>1, <2>2, <2>3, <2>4 DEF DiskInv
<1> QED
  BY <1>4, <1>5, <1>6

----------------------------------------------------------------------------
LEMMA OutputInitInv == OutputInit => OutputInv
<1> SUFFICES ASSUME OutputInit PROVE OutputInv
  OBVIOUS
<1>1. /\ DOMAIN disk = {} /\ DOMAIN sinks = {} /\ DOMAIN files = {} /\ DOMAIN todo = {}
      /\ DOMAIN meta.files = {} /\ meta.run = 0
  BY NoFilesIs DEF OutputInit, NoMeta
<1>2. input \in Seq(Rows) /\ Len(input) = 0
  BY DEF OutputInit
<1>3. OutputTypeOK
  BY <1>1, <1>2, OutputAssumption DEF OutputInit, OutputTypeOK
<1>4. MetaIsCommit /\ RowsInPlace /\ DiskInv /\ MetaInv /\ TodoInv /\ PacketsInv /\ TableInv
  BY <1>1 DEF OutputInit, MetaIsCommit, RowsInPlace, DiskInv, MetaInv, TodoInv, PacketsInv,
              TableInv, Running
<1> QED
  BY <1>3, <1>4 DEF OutputInv

LEMMA StartInv ==
  ASSUME OutputInv, Start
  PROVE  OutputInv'
<1>1. /\ DOMAIN sinks' = {} /\ DOMAIN files' = {} /\ DOMAIN todo = {}
      /\ UNCHANGED <<todo, disk, meta>> /\ run' = run + 1 /\ phase' = "batch"
      /\ ended' = "running" /\ mode' \in {"wide", "split"} /\ phase = "idle" /\ run < MaxRuns
  BY NoFilesIs DEF Start, OutputInv, TodoInv
<1>2. input' = <<>> /\ input' \in Seq(Rows) /\ Len(input') = 0
  BY DEF Start
<1>3. run \in Nat /\ run + 1 \in 1 .. MaxRuns
  BY <1>1, OutputAssumption DEF OutputInv, OutputTypeOK
<1>4. OutputTypeOK'
  BY <1>1, <1>2, <1>3, OutputAssumption DEF OutputInv, OutputTypeOK
<1>5. MetaIsCommit' /\ RowsInPlace'
  BY <1>1 DEF OutputInv, MetaIsCommit, RowsInPlace
<1>6. \A g \in DOMAIN disk : disk[g].run \in Nat /\ disk[g].run <= run
  BY DEF OutputInv, OutputTypeOK, DiskInv
<1>7. DiskInv'
  BY <1>1, <1>3, <1>6 DEF DiskInv
<1>8. meta.run \in Nat /\ meta.run <= run
  <2>1. ended \in {"none", "failed", "ok"}
    BY <1>1 DEF OutputInv, OutputTypeOK, MetaInv, Running
  <2> QED
    BY <1>3, <2>1 DEF OutputInv, OutputTypeOK, MetaInv, MetaIsCommit
<1>9. MetaInv' /\ TodoInv'
  BY <1>1, <1>3, <1>8 DEF OutputInv, MetaInv, TodoInv, Running
<1>10. PacketsInv'
  BY <1>1, <1>2 DEF PacketsInv, Running
<1>11. TableInv'
  <2>1. ASSUME NEW i \in DOMAIN PROTO_TABLES PROVE Given(i)' = 0
    <3>1. Count(PROTO_TABLES[i])' = 0
      <4>1. {j \in DOMAIN input' : \E p \in input'[j] : p \in PROTO_TABLES[i][2]} = {}
        BY <1>2
      <4> QED
        BY <4>1, FS_EmptySet DEF Count
    <3> QED
      BY <1>1, <3>1 DEF Given, Due
  <2> QED
    BY <1>1, <2>1 DEF TableInv
<1> QED
  BY <1>4, <1>5, <1>7, <1>9, <1>10, <1>11 DEF OutputInv

(* The callback writes the packets; the rows of the tables become due with *)
(* the same step that counts them.                                         *)
LEMMA BatchInv ==
  ASSUME OutputInv, Batch
  PROVE  OutputInv'
<1>0. PICK n \in 1 .. MaxBatch : \E b \in [1 .. n -> Rows] :
        /\ Len(input) + n <= MaxRows
        /\ Write("packets", n)
        /\ input' = input \o b
        /\ todo' = IF mode = "split" THEN all_proto_tables(b) ELSE NoFiles
        /\ phase' = IF DOMAIN todo' = {} THEN "batch" ELSE "tables"
  BY DEF Batch
<1>1. PICK b \in [1 .. n -> Rows] :
        /\ Len(input) + n <= MaxRows
        /\ Write("packets", n)
        /\ input' = input \o b
        /\ todo' = IF mode = "split" THEN all_proto_tables(b) ELSE NoFiles
        /\ phase' = IF DOMAIN todo' = {} THEN "batch" ELSE "tables"
  BY <1>0
<1>2. phase = "batch" /\ UNCHANGED <<run, mode, files, meta, ended>>
  BY DEF Batch
<1>3. /\ input \in Seq(Rows) /\ Len(input) \in Nat /\ b \in Seq(Rows) /\ Len(b) = n /\ n \in Nat
      /\ input' \in Seq(Rows) /\ Len(input') = Len(input) + n
  <2>1. input \in Seq(Rows) /\ n \in Nat
    BY DEF OutputInv, OutputTypeOK
  <2>2. b \in Seq(Rows) /\ Len(b) = n
    BY <2>1
  <2>3. input \o b \in Seq(Rows) /\ Len(input \o b) = Len(input) + Len(b)
    BY <2>1, <2>2
  <2> QED
    BY <1>1, <2>1, <2>2, <2>3
<1>4. Wrote("packets", n)
  BY <1>1, WriteLeaves
<1>5. /\ Running /\ Running' /\ ended' # "ok" /\ "packets" \in Names /\ DOMAIN files = {}
      /\ DOMAIN todo = {}
  BY <1>1, <1>2, NamesAre DEF OutputInv, PacketsInv, TodoInv, MetaInv, Running
<1>6. /\ MetaIsCommit' /\ DiskInv'
      /\ DOMAIN meta.files \subseteq DOMAIN disk'
      /\ DOMAIN disk' \subseteq Names
      /\ \A g \in DOMAIN disk' :
           disk'[g] \in [run : 1..MaxRuns, rows : 0..MaxRows, complete : BOOLEAN]
  BY <1>2, <1>4, <1>5, WriteKeepsDisk
<1>7. /\ DOMAIN sinks' = DOMAIN sinks \union {"packets"}
      /\ sinks'["packets"] = Len(input')
      /\ \A g \in DOMAIN sinks : g # "packets" => sinks'[g] = sinks[g]
  BY <1>2, <1>3, <1>4 DEF Wrote, OutputInv, PacketsInv
<1>8. ASSUME NEW i \in DOMAIN PROTO_TABLES
      PROVE  /\ mode = "split" => Due(i)' = Cardinality(proto_table(b, PROTO_TABLES[i]))
             /\ Due(i) = 0
             /\ i \in DOMAIN todo' => /\ mode = "split"
                                      /\ todo'[i] = Cardinality(proto_table(b, PROTO_TABLES[i]))
                                      /\ todo'[i] \in 1 .. n
  <2>1. PICK c : c = Cardinality(proto_table(b, PROTO_TABLES[i]))
    OBVIOUS
  <2>2. c \in Nat /\ c <= n /\ (proto_table(b, PROTO_TABLES[i]) # {} <=> c > 0)
    BY <1>3, <2>1, TableRowsType
  <2>3. CASE mode = "split"
    BY <1>1, <1>5, <2>1, <2>2, <2>3 DEF Due, all_proto_tables
  <2>4. CASE mode # "split"
    BY <1>1, <1>5, <2>4, NoFilesIs DEF Due
  <2> QED
    BY <2>3, <2>4
<1>9. DOMAIN todo' \subseteq DOMAIN PROTO_TABLES
  BY <1>1, NoFilesIs DEF all_proto_tables
<1>10. OutputTypeOK'
  <2>1. \A i \in DOMAIN todo' : todo'[i] \in 1 .. MaxRows
    BY <1>1, <1>3, <1>8, <1>9, OutputAssumption
  <2>2. DOMAIN sinks' \subseteq Names /\ \A f \in DOMAIN sinks' : sinks'[f] \in 0 .. MaxRows
    BY <1>1, <1>3, <1>5, <1>7, OutputAssumption DEF OutputInv, OutputTypeOK
  <2> QED
    BY <1>1, <1>2, <1>3, <1>6, <1>9, <2>1, <2>2 DEF OutputInv, OutputTypeOK
<1>11. RowsInPlace'
  BY <1>5 DEF RowsInPlace
<1>12. MetaInv'
  BY <1>2, <1>5, <1>6 DEF OutputInv, MetaInv
<1>13. ASSUME NEW i \in DOMAIN PROTO_TABLES
       PROVE  /\ Given(i)' = Given(i)
              /\ i \in DOMAIN todo' => todo'[i] <= Count(PROTO_TABLES[i])'
  <2>1. PICK c, d : c = Cardinality(proto_table(b, PROTO_TABLES[i])) /\ d = Count(PROTO_TABLES[i])
    OBVIOUS
  <2>2. Count(PROTO_TABLES[i])' = d + c /\ c \in Nat /\ d \in Nat
    BY <1>1, <1>3, <2>1, CountGrows, CountType, TableRowsType DEF OutputInv
  <2> QED
    BY <1>2, <1>8, <2>1, <2>2 DEF Given
<1>14. TodoInv'
  BY <1>1, <1>2, <1>8, <1>9, <1>13 DEF TodoInv
<1>15. PacketsInv'
  BY <1>1, <1>2, <1>3, <1>5, <1>7 DEF OutputInv, PacketsInv
<1>16. TableInv'
  BY <1>2, <1>5, <1>7, <1>13, NamesDistinct DEF OutputInv, TableInv
<1> QED
  BY <1>6, <1>10, <1>11, <1>12, <1>14, <1>15, <1>16 DEF OutputInv

LEMMA SidecarInv ==
  ASSUME OutputInv, Sidecar
  PROVE  OutputInv'
<1>1. PICK k \in FirstDue : Write(Name(k), todo[k]) /\ todo' = Without(todo, k)
  BY DEF Sidecar
<1>2. /\ phase = "tables" /\ UNCHANGED <<run, mode, input, files, meta, ended>>
      /\ phase' = IF DOMAIN todo' = {} THEN "batch" ELSE "tables"
  BY DEF Sidecar
<1>3. /\ k \in DOMAIN todo /\ k \in DOMAIN PROTO_TABLES /\ mode = "split"
      /\ todo[k] \in 1 .. MaxRows
  BY <1>1, <1>2 DEF FirstDue, OutputInv, OutputTypeOK, TodoInv
<1>4. PICK n : n = todo[k]
  OBVIOUS
<1>5. Wrote(Name(k), n)
  BY <1>1, <1>4, WriteLeaves
<1>6. /\ Running /\ Running' /\ ended' # "ok" /\ Name(k) \in Names /\ DOMAIN files = {}
      /\ Name(k) \notin {"packets", "flows"}
  BY <1>2, <1>3, NamesAre, NamesDistinct DEF OutputInv, PacketsInv, MetaInv, Running
<1>7. /\ MetaIsCommit' /\ DiskInv'
      /\ DOMAIN meta.files \subseteq DOMAIN disk'
      /\ DOMAIN disk' \subseteq Names
      /\ \A g \in DOMAIN disk' :
           disk'[g] \in [run : 1..MaxRuns, rows : 0..MaxRows, complete : BOOLEAN]
  BY <1>2, <1>5, <1>6, WriteKeepsDisk
<1>8. ASSUME NEW i \in DOMAIN PROTO_TABLES
      PROVE  /\ Given(i)' = IF i = k THEN Given(i) + n ELSE Given(i)
             /\ Given(i) \in Nat /\ Given(i)' \in 0 .. MaxRows
             /\ Count(PROTO_TABLES[i])' = Count(PROTO_TABLES[i])
  <2>1. PICK d \in Nat : d = Count(PROTO_TABLES[i])
    BY CountType DEF OutputInv
  <2>2. Count(PROTO_TABLES[i])' = d /\ d <= MaxRows
    BY <1>2, <2>1, CountSame, CountType, OutputAssumption DEF OutputInv, OutputTypeOK
  <2>3. /\ i = k => Due(i) = n /\ Due(i)' = 0
        /\ i # k => Due(i)' = Due(i)
    BY <1>1, <1>3, <1>4 DEF Due, Without
  <2>4. Due(i) \in Nat /\ Due(i) <= d /\ n \in Nat
    BY <1>3, <1>4, <2>1 DEF Due, OutputInv, OutputTypeOK, TodoInv
  <2> QED
    BY <1>2, <1>3, <2>1, <2>2, <2>3, <2>4, OutputAssumption DEF Given
<1>9. /\ DOMAIN sinks' = DOMAIN sinks \union {Name(k)}
      /\ sinks'[Name(k)] = Given(k)'
      /\ \A g \in DOMAIN sinks : g # Name(k) => sinks'[g] = sinks[g]
  <2>1. Name(k) \in DOMAIN sinks => sinks[Name(k)] = Given(k)
    BY <1>3, <1>6 DEF OutputInv, TableInv
  <2>2. Name(k) \notin DOMAIN sinks => Given(k) = 0
    BY <1>3, <1>6, <1>8 DEF OutputInv, TableInv
  <2>3. n \in Nat /\ Given(k)' = Given(k) + n
    BY <1>3, <1>4, <1>8
  <2> QED
    BY <1>3, <1>5, <1>8, <2>1, <2>2, <2>3 DEF Wrote
<1>10. /\ DOMAIN todo' = DOMAIN todo \ {k}
       /\ \A i \in DOMAIN todo' : todo'[i] = todo[i]
  BY <1>1 DEF Without
<1>11. OutputTypeOK'
  <2>1. DOMAIN sinks' \subseteq Names /\ \A f \in DOMAIN sinks' : sinks'[f] \in 0 .. MaxRows
    BY <1>3, <1>6, <1>8, <1>9 DEF OutputInv, OutputTypeOK
  <2> QED
    BY <1>2, <1>7, <1>10, <2>1 DEF OutputInv, OutputTypeOK
<1>12. RowsInPlace' /\ MetaInv'
  BY <1>2, <1>6, <1>7 DEF OutputInv, RowsInPlace, MetaInv
<1>13. TodoInv'
  BY <1>2, <1>3, <1>8, <1>10 DEF OutputInv, OutputTypeOK, TodoInv
<1>14. PacketsInv'
  BY <1>2, <1>6, <1>9 DEF OutputInv, PacketsInv
<1>15. TableInv'
  <2>1. n \in Nat \ {0}
    BY <1>3, <1>4
  <2>2. ASSUME NEW i \in DOMAIN PROTO_TABLES
        PROVE  /\ Name(i) \in DOMAIN sinks' \union DOMAIN files' <=> Given(i)' > 0
               /\ Name(i) \in DOMAIN sinks' => sinks'[Name(i)] = Given(i)'
               /\ Name(i) \in DOMAIN files' => files'[Name(i)] = Given(i)'
    <3>1. CASE i = k
      BY <1>2, <1>6, <1>8, <1>9, <2>1, <3>1
    <3>2. CASE i # k
      <4>1. Name(i) # Name(k)
        BY <1>3, <3>2, NamesDistinct
      <4> QED
        BY <1>2, <1>6, <1>8, <1>9, <3>2, <4>1 DEF OutputInv, TableInv
    <3> QED
      BY <3>1, <3>2
  <2> QED
    BY <2>2 DEF TableInv
<1> QED
  BY <1>7, <1>11, <1>12, <1>13, <1>14, <1>15 DEF OutputInv

LEMMA RunReturnsInv ==
  ASSUME OutputInv, RunReturns
  PROVE  OutputInv'
<1>1. /\ phase = "batch" /\ phase' = "packets"
      /\ UNCHANGED <<run, mode, input, todo, sinks, files, disk, meta, ended>>
  BY DEF RunReturns
<1>2. \A i : Count(PROTO_TABLES[i])' = Count(PROTO_TABLES[i]) /\ Given(i)' = Given(i)
  BY <1>1, CountSame DEF Given, Due
<1>3. OutputTypeOK' /\ MetaIsCommit'
  BY <1>1 DEF OutputInv, OutputTypeOK, MetaIsCommit
<1>4. RowsInPlace' /\ DiskInv' /\ MetaInv' /\ TodoInv' /\ PacketsInv'
  BY <1>1, <1>2 DEF OutputInv, OutputTypeOK, RowsInPlace, DiskInv, MetaInv, TodoInv, PacketsInv, Running
<1>5. TableInv'
  BY <1>1, <1>2 DEF OutputInv, TableInv, Running
<1> QED
  BY <1>3, <1>4, <1>5 DEF OutputInv

(* A sink is closed, or a file created, written and closed in one go.      *)
CloseStep(f, n) ==
  /\ UNCHANGED <<run, mode, input, todo, meta, ended>>
  /\ Running /\ Running' /\ Close(f, n)
  /\ f \in Names /\ f \notin DOMAIN files /\ n \in 0 .. MaxRows
  /\ phase' \in {"sidecars", "meta"} /\ phase # "tables"

LEMMA CloseStepKeeps ==
  ASSUME OutputInv, NEW f, NEW n, CloseStep(f, n)
  PROVE  /\ OutputTypeOK' /\ MetaIsCommit' /\ RowsInPlace' /\ DiskInv' /\ MetaInv' /\ TodoInv'
         /\ Closed(f, n)
         /\ \A i : Given(i)' = Given(i)
<1>1. /\ UNCHANGED <<run, mode, input, todo, meta, ended>>
      /\ Running /\ Running' /\ f \in Names /\ f \notin DOMAIN files /\ n \in 0 .. MaxRows
      /\ ended' # "ok" /\ phase' \in {"sidecars", "meta"} /\ phase # "tables"
  BY DEF CloseStep, OutputInv, MetaInv
<1>2. /\ MetaIsCommit' /\ DiskInv' /\ Closed(f, n)
      /\ DOMAIN meta.files \subseteq DOMAIN disk'
      /\ DOMAIN disk' \subseteq Names
      /\ \A g \in DOMAIN disk' :
           disk'[g] \in [run : 1..MaxRuns, rows : 0..MaxRows, complete : BOOLEAN]
  BY <1>1, CloseKeepsDisk DEF CloseStep
<1>3. \A i : Count(PROTO_TABLES[i])' = Count(PROTO_TABLES[i]) /\ Given(i)' = Given(i)
  BY <1>1, CountSame DEF Given, Due
<1>4. OutputTypeOK'
  <2>1. DOMAIN sinks' \subseteq Names /\ \A g \in DOMAIN sinks' : sinks'[g] \in 0 .. MaxRows
    BY <1>2 DEF Closed, OutputInv, OutputTypeOK
  <2>2. DOMAIN files' \subseteq Names /\ \A g \in DOMAIN files' : files'[g] \in 0 .. MaxRows
    BY <1>1, <1>2 DEF Closed, OutputInv, OutputTypeOK
  <2> QED
    BY <1>1, <1>2, <2>1, <2>2 DEF OutputInv, OutputTypeOK
<1>5. RowsInPlace' /\ MetaInv'
  BY <1>1, <1>2 DEF OutputInv, RowsInPlace, MetaInv
<1>6. TodoInv'
  BY <1>1, <1>3 DEF OutputInv, TodoInv
<1> QED
  BY <1>2, <1>3, <1>4, <1>5, <1>6

LEMMA ClosePacketsInv ==
  ASSUME OutputInv, ClosePackets
  PROVE  OutputInv'
<1>1. PICK n : n = IF "packets" \in DOMAIN sinks THEN sinks["packets"] ELSE 0
  OBVIOUS
<1>2. /\ phase = "packets" /\ phase' = "sidecars" /\ Close("packets", n)
      /\ UNCHANGED <<run, mode, input, todo, meta, ended>>
  BY <1>1 DEF ClosePackets
<1>3. n = Len(input) /\ n \in 0 .. MaxRows /\ DOMAIN files = {} /\ "flows" \notin DOMAIN sinks
  <2>1. Len(input) \in Nat /\ Len(input) <= MaxRows
    BY DEF OutputInv, OutputTypeOK
  <2> QED
    BY <1>1, <1>2, <2>1, OutputAssumption DEF OutputInv, PacketsInv, Running
<1>4. CloseStep("packets", n)
  BY <1>2, <1>3, NamesAre DEF CloseStep, Running
<1>5. /\ OutputTypeOK' /\ MetaIsCommit' /\ RowsInPlace' /\ DiskInv' /\ MetaInv' /\ TodoInv'
      /\ Closed("packets", n)
      /\ \A i : Given(i)' = Given(i)
  BY <1>4, CloseStepKeeps
<1>6. PacketsInv'
  BY <1>2, <1>3, <1>5 DEF Closed, PacketsInv
<1>7. TableInv'
  BY <1>2, <1>3, <1>5, NamesDistinct DEF Closed, OutputInv, TableInv, Running
<1> QED
  BY <1>5, <1>6, <1>7 DEF OutputInv

LEMMA CloseSidecarsInv ==
  ASSUME OutputInv, CloseSidecars
  PROVE  OutputInv'
<1>1. phase = "sidecars" /\ UNCHANGED <<run, mode, input, todo, meta, ended>>
  BY DEF CloseSidecars
<1>2. CASE DOMAIN sinks # {}
  <2>1. PICK f \in DOMAIN sinks : Close(f, sinks[f]) /\ UNCHANGED phase
    BY <1>2 DEF CloseSidecars
  <2>2. PICK n : n = sinks[f]
    OBVIOUS
  <2>3. CloseStep(f, n)
    BY <1>1, <2>1, <2>2 DEF CloseStep, OutputInv, OutputTypeOK, DiskInv, Running
  <2>4. /\ OutputTypeOK' /\ MetaIsCommit' /\ RowsInPlace' /\ DiskInv' /\ MetaInv' /\ TodoInv'
        /\ Closed(f, n)
        /\ \A i : Given(i)' = Given(i)
    BY <2>3, CloseStepKeeps
  <2>5. f # "packets" /\ f # "flows"
    BY <1>1 DEF OutputInv, PacketsInv, DiskInv, Running
  <2>6. PacketsInv'
    BY <1>1, <2>1, <2>4, <2>5 DEF Closed, OutputInv, PacketsInv, Running
  <2>7. TableInv'
    BY <1>1, <2>1, <2>2, <2>4 DEF Closed, OutputInv, TableInv, Running
  <2> QED
    BY <2>4, <2>6, <2>7 DEF OutputInv
<1>3. CASE DOMAIN sinks = {}
  <2>1. phase' = "flows" /\ UNCHANGED <<disk, files, sinks>>
    BY <1>3 DEF CloseSidecars
  <2>2. \A i : Count(PROTO_TABLES[i])' = Count(PROTO_TABLES[i]) /\ Given(i)' = Given(i)
    BY <1>1, CountSame DEF Given, Due
  <2>3. OutputTypeOK' /\ MetaIsCommit'
    BY <1>1, <2>1 DEF OutputInv, OutputTypeOK, MetaIsCommit
  <2>4. RowsInPlace' /\ DiskInv' /\ MetaInv' /\ TodoInv' /\ PacketsInv'
    BY <1>1, <1>3, <2>1, <2>2
       DEF OutputInv, RowsInPlace, DiskInv, MetaInv, TodoInv, PacketsInv, Running
  <2>5. TableInv'
    BY <1>1, <2>1, <2>2 DEF OutputInv, TableInv, Running
  <2> QED
    BY <2>3, <2>4, <2>5 DEF OutputInv
<1> QED
  BY <1>2, <1>3

LEMMA FlowsInv ==
  ASSUME OutputInv, Flows
  PROVE  OutputInv'
<1>1. PICK n \in 0 .. Len(input) : Close("flows", n)
  BY DEF Flows
<1>2. phase = "flows" /\ phase' = "meta" /\ UNCHANGED <<run, mode, input, todo, meta, ended>>
  BY DEF Flows
<1>3. n \in 0 .. MaxRows /\ DOMAIN sinks = {} /\ "flows" \notin DOMAIN files
  <2>1. Len(input) \in Nat /\ Len(input) <= MaxRows
    BY DEF OutputInv, OutputTypeOK
  <2> QED
    BY <1>2, <2>1, OutputAssumption DEF OutputInv, PacketsInv, Running
<1>4. CloseStep("flows", n)
  BY <1>1, <1>2, <1>3, NamesAre DEF CloseStep, Running
<1>5. /\ OutputTypeOK' /\ MetaIsCommit' /\ RowsInPlace' /\ DiskInv' /\ MetaInv' /\ TodoInv'
      /\ Closed("flows", n)
      /\ \A i : Given(i)' = Given(i)
  BY <1>4, CloseStepKeeps
<1>6. PacketsInv'
  BY <1>2, <1>3, <1>5 DEF Closed, OutputInv, PacketsInv, Running
<1>7. TableInv'
  BY <1>2, <1>3, <1>5, NamesDistinct DEF Closed, OutputInv, TableInv, Running
<1> QED
  BY <1>5, <1>6, <1>7 DEF OutputInv

(* The commit: what the sinks were closed with is what the new _meta.json  *)
(* says, and every file of this run is among them.                         *)
LEMMA MetaStepInv ==
  ASSUME OutputInv, Meta
  PROVE  OutputInv'
<1>1. /\ phase = "meta" /\ phase' = "idle" /\ ended' = "ok"
      /\ meta' = [run |-> run, files |-> files]
      /\ UNCHANGED <<run, mode, input, todo, sinks, files, disk>>
  BY DEF Meta
<1>2. meta'.run = run /\ meta'.files = files /\ run \in 1 .. MaxRuns
  BY <1>1, OutputAssumption DEF OutputInv, OutputTypeOK, MetaInv, Running
<1>3. /\ DOMAIN sinks = {} /\ DOMAIN todo = {} /\ DOMAIN files \subseteq DOMAIN disk
      /\ \A f \in DOMAIN files : disk[f] = [run |-> run, rows |-> files[f], complete |-> TRUE]
      /\ \A f \in DOMAIN disk : disk[f].run = run => f \in DOMAIN files
      /\ \A f \in DOMAIN disk : disk[f].run <= run /\ disk[f].run \in Nat
  <2>1. DOMAIN sinks = {} /\ DOMAIN todo = {} /\ Running
    BY <1>1 DEF OutputInv, PacketsInv, TodoInv, Running
  <2>2. \A f \in DOMAIN disk : disk[f].run \in Nat
    BY DEF OutputInv, OutputTypeOK
  <2> QED
    BY <2>1, <2>2 DEF OutputInv, DiskInv
<1>4. OutputTypeOK'
  BY <1>1, <1>2 DEF OutputInv, OutputTypeOK
<1>5. MetaIsCommit'
  BY <1>1, <1>2, <1>3 DEF MetaIsCommit
<1>6. \A i : Count(PROTO_TABLES[i])' = Count(PROTO_TABLES[i])
  BY <1>1, CountSame
<1>7. RowsInPlace'
  <2>1. /\ "packets" \in DOMAIN disk
        /\ disk["packets"] = [run |-> run, rows |-> Len(input), complete |-> TRUE]
        /\ "flows" \in DOMAIN disk /\ disk["flows"].run = run /\ disk["flows"].complete
    <3>1. "packets" \in DOMAIN files /\ files["packets"] = Len(input) /\ "flows" \in DOMAIN files
      BY <1>1 DEF OutputInv, PacketsInv, Running
    <3>2. /\ disk["packets"] = [run |-> run, rows |-> Len(input), complete |-> TRUE]
          /\ disk["flows"] = [run |-> run, rows |-> files["flows"], complete |-> TRUE]
      BY <1>3, <3>1
    <3>3. disk["flows"].run = run /\ disk["flows"].complete = TRUE
      BY <3>2
    <3>4. disk["flows"].complete
      BY <3>3, Zenon
    <3> QED
      BY <1>3, <3>1, <3>2, <3>3, <3>4
  <2>2. ASSUME NEW t \in Tables
        PROVE  IF mode = "split" /\ Count(t) > 0
               THEN /\ t[1] \in DOMAIN disk
                    /\ disk[t[1]] = [run |-> run, rows |-> Count(t), complete |-> TRUE]
               ELSE t[1] \in DOMAIN disk => disk[t[1]].run < run
    <3>1. PICK i \in DOMAIN PROTO_TABLES : t = PROTO_TABLES[i] /\ t[1] = Name(i)
      BY NamesAre
    <3>2. PICK c \in Nat : c = Count(t)
      BY CountType DEF OutputInv
    <3>3. Given(i) = IF mode = "split" THEN c ELSE 0
      BY <1>3, <3>1, <3>2 DEF Given, Due
    <3>4. PICK f : f = Name(i)
      OBVIOUS
    <3>5. /\ f \in DOMAIN files <=> Given(i) > 0
          /\ f \in DOMAIN files => files[f] = Given(i)
      BY <1>1, <1>3, <3>1, <3>4 DEF OutputInv, TableInv, Running
    <3>6. f \notin DOMAIN files => (f \in DOMAIN disk => disk[f].run < run)
      BY <1>2, <1>3
    <3> QED
      BY <1>3, <3>1, <3>2, <3>3, <3>4, <3>5, <3>6
  <2>3. \A t \in Tables : Count(t)' = Count(t)
    BY <1>1, CountSame
  <2> QED
    BY <1>1, <2>1, <2>2, <2>3 DEF RowsInPlace
<1>8. DiskInv' /\ TodoInv'
  BY <1>1, <1>3, <1>6 DEF OutputInv, DiskInv, TodoInv, Running
<1>9. MetaInv' /\ PacketsInv' /\ TableInv'
  BY <1>1, <1>2, <1>3 DEF MetaInv, PacketsInv, TableInv, Running
<1> QED
  BY <1>4, <1>5, <1>7, <1>8, <1>9 DEF OutputInv

LEMMA FailInv ==
  ASSUME OutputInv, Fail
  PROVE  OutputInv'
<1>1. /\ phase # "idle" /\ phase' = "idle" /\ ended' = "failed" /\ DOMAIN todo' = {} /\ DOMAIN sinks' = {}
      /\ UNCHANGED <<run, mode, input, files>>
      /\ meta' \in {meta, NoMeta}
  BY NoFilesIs DEF Fail
<1>2. NextFile \subseteq Names
  <2>1. phase = "tables" => {Name(i) : i \in FirstDue} \subseteq Names
    BY NamesAre DEF FirstDue, OutputInv, OutputTypeOK
  <2>2. phase \in {"batch", "packets"} => NextFile = {"packets"} \ DOMAIN sinks
    BY DEF NextFile
  <2>3. phase = "tables" => NextFile = {Name(i) : i \in FirstDue} \ DOMAIN sinks
    BY DEF NextFile
  <2>4. phase = "flows" => NextFile = {"flows"}
    BY DEF NextFile
  <2>5. phase \notin {"batch", "packets", "tables", "flows"} => NextFile = {}
    BY DEF NextFile
  <2> QED
    BY <2>1, <2>2, <2>3, <2>4, <2>5, NamesAre
<1>3. PICK f \in Names : disk' \in {disk, With(disk, f, Truncated)}
  BY <1>2, NamesAre DEF Fail
<1>4. Truncated \in FileOfRun
  BY TruncatedType DEF OutputInv
<1>5. /\ meta.run < run /\ run \in 1 .. MaxRuns
  BY <1>1, OutputAssumption DEF OutputInv, OutputTypeOK, MetaInv, Running
<1>6. /\ MetaIsCommit'
      /\ DOMAIN meta'.files \subseteq DOMAIN disk'
      /\ \A g \in DOMAIN disk' : disk'[g].run <= run'
      /\ DOMAIN disk' \subseteq Names
      /\ \A g \in DOMAIN disk' :
           disk'[g] \in [run : 1..MaxRuns, rows : 0..MaxRows, complete : BOOLEAN]
  BY <1>1, <1>3, <1>4, MetaSurvives DEF Running
<1>7. meta'.run \in 0 .. MaxRuns /\ meta'.run < run
  <2>1. NoMeta.run = 0
    BY DEF NoMeta
  <2>2. meta.run \in 0 .. MaxRuns
    BY DEF OutputInv, OutputTypeOK
  <2>3. meta'.run \in {meta.run, 0}
    BY <1>1, <2>1
  <2> QED
    BY <1>5, <2>2, <2>3, OutputAssumption
<1>8. OutputTypeOK'
  BY <1>1, <1>6, <1>7 DEF OutputInv, OutputTypeOK
<1>9. RowsInPlace' /\ DiskInv' /\ MetaInv'
  BY <1>1, <1>6, <1>7 DEF RowsInPlace, DiskInv, MetaInv, Running
<1>10. TodoInv' /\ PacketsInv' /\ TableInv'
  BY <1>1 DEF TodoInv, PacketsInv, TableInv, Running
<1> QED
  BY <1>6, <1>8, <1>9, <1>10 DEF OutputInv

LEMMA OutputNextInv == OutputInv /\ [OutputNext]_outputVars => OutputInv'
<1> SUFFICES ASSUME OutputInv, [OutputNext]_outputVars PROVE OutputInv'
  OBVIOUS
<1>1. CASE UNCHANGED outputVars
  <2>1. UNCHANGED <<run, mode, phase, input, todo, sinks, files, disk, meta, ended>>
    BY <1>1 DEF outputVars
  <2>2. \A t : Count(t)' = Count(t)
    BY <2>1, CountSame
  <2>3. OutputTypeOK' /\ MetaIsCommit'
    BY <2>1 DEF OutputInv, OutputTypeOK, MetaIsCommit
  <2>4. RowsInPlace'
    BY <2>1, <2>2 DEF OutputInv, RowsInPlace
  <2>5. DiskInv' /\ MetaInv' /\ TodoInv' /\ PacketsInv'
    BY <2>1, <2>2 DEF OutputInv, DiskInv, MetaInv, TodoInv, PacketsInv, Running
  <2>6. TableInv'
    BY <2>1, <2>2 DEF OutputInv, TableInv, Running, Given, Due
  <2> QED
    BY <2>3, <2>4, <2>5, <2>6 DEF OutputInv
<1>2. CASE OutputNext
  BY <1>1, <1>2, StartInv, BatchInv, SidecarInv, RunReturnsInv, ClosePacketsInv, CloseSidecarsInv,
     FlowsInv, MetaStepInv, FailInv DEF OutputNext, AllEnded
<1> QED
  BY <1>1, <1>2

LEMMA OutputInvariance == OutputSpec => []OutputInv
<1> QED
  BY OutputInitInv, OutputNextInv, PTL DEF OutputSpec

(* The variables of to_parquet keep their types, and only known files are  *)
(* ever made, however many rows, batches and runs there are.               *)
THEOREM OutputTypeCorrect == OutputSpec => []OutputTypeOK
<1>1. OutputInv => OutputTypeOK
  BY DEF OutputInv
<1> QED
  BY <1>1, OutputInvariance, PTL

(* Wherever a run fails, and however many runs went into the directory     *)
(* before, _meta.json never promises a file of its run that is not whole,  *)
(* nor leaves one out.                                                     *)
THEOREM OutputMetaIsCommit == OutputSpec => []MetaIsCommit
<1>1. OutputInv => MetaIsCommit
  BY DEF OutputInv
<1> QED
  BY <1>1, OutputInvariance, PTL

(* A run that returns has put every row of the capture where it belongs:   *)
(* the split of the batches into tables neither loses nor doubles a row.   *)
THEOREM OutputRowsInPlace == OutputSpec => []RowsInPlace
<1>1. OutputInv => RowsInPlace
  BY DEF OutputInv
<1> QED
  BY <1>1, OutputInvariance, PTL
=============================================================================
