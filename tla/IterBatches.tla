---------------------------- MODULE IterBatches ----------------------------
(***************************************************************************)
(* iter_batches (python/pcapracer/api.py): a worker thread runs the        *)
(* extraction and feeds finished batches through a bounded queue to the    *)
(* generator that the caller iterates; an event tells the worker that the  *)
(* caller has gone away.  stream_batches (rust/src/python.rs) calls _emit  *)
(* once per batch and re-raises what it raises once the run is over.       *)
(*                                                                         *)
(* Batch number n of the capture is the integer n.  The worker is modelled *)
(* at the granularity of the queue's and the event's operations; the       *)
(* caller's own code, between two next() calls, may take forever.          *)
(***************************************************************************)
EXTENDS Integers, Sequences

CONSTANTS
  NBatches,  (* batches the capture yields when nothing fails              *)
  QueueSize  (* max(1, queue_size)                                         *)

ASSUME IterAssumption == NBatches \in Nat /\ QueueSize \in Nat \ {0}

VARIABLES
  q,       (* the queue: batches, then at most one terminal item           *)
  stop,    (* the event                                                    *)
  wpc,     (* where the worker is                                          *)
  made,    (* batches the run has completed                                *)
  last,    (* the terminal item the worker has to put                      *)
  cpc,     (* where the generator is                                       *)
  got,     (* the batches yielded to the caller                            *)
  outcome  (* how the iteration ended for the caller                       *)

iterVars == <<q, stop, wpc, made, last, cpc, got, outcome>>

(* _DONE and a forwarded exception.                                        *)
Done == 0
Exc == -1

Item == 1..NBatches \cup {Done, Exc}

(* "dissect": in run, between batches; "poll": in _emit, at the loop's     *)
(* test; "put": in q.put(batch, timeout); "skim": _Stop was raised and the *)
(* run reads the rest of the capture without dissecting it; "finish": in   *)
(* the last q.put, which has no timeout.                                   *)
WPC == {"dissect", "poll", "put", "skim", "finish", "end"}

(* "get": in q.get(); "yielded": suspended in yield; "join": in the finally*)
(* block's join.                                                           *)
CPC == {"get", "yielded", "join", "end"}

IterInit ==
  /\ q = <<>>
  /\ stop = FALSE
  /\ wpc = "dissect"
  /\ made = 0
  /\ last = Done
  /\ cpc = "get"
  /\ got = <<>>
  /\ outcome = "open"

HasRoom == Len(q) < QueueSize

----------------------------------------------------------------------------
(* The worker.                                                             *)

(* run completes one more batch and calls _emit.                           *)
NextBatch ==
  /\ wpc = "dissect"
  /\ made < NBatches
  /\ made' = made + 1
  /\ wpc' = "poll"
  /\ UNCHANGED <<q, stop, last, cpc, got, outcome>>

(* run returns; for_each_batch returns and _DONE is due.                   *)
RunDone ==
  /\ wpc = "dissect"
  /\ made = NBatches
  /\ wpc' = "finish"
  /\ last' = Done
  /\ UNCHANGED <<q, stop, made, cpc, got, outcome>>

(* A seeded fault: an error of the run ends the iteration like its end.    *)
RunFailsQuietly ==
  /\ wpc = "dissect"
  /\ wpc' = "finish"
  /\ last' = Done
  /\ UNCHANGED <<q, stop, made, cpc, got, outcome>>

(* run fails (capture missing, unreadable, bad options): the exception is  *)
(* caught to be forwarded.                                                 *)
RunFails ==
  /\ wpc = "dissect"
  /\ wpc' = "finish"
  /\ last' = Exc
  /\ UNCHANGED <<q, stop, made, cpc, got, outcome>>

(* The loop's test; _Stop is raised once the event is set.                 *)
Poll ==
  /\ wpc = "poll"
  /\ wpc' = IF stop THEN "skim" ELSE "put"
  /\ UNCHANGED <<q, stop, made, last, cpc, got, outcome>>

(* A seeded fault: a batch that finds the queue full is dropped.           *)
EmitDropping ==
  /\ wpc = "put"
  /\ q' = IF HasRoom THEN Append(q, made) ELSE q
  /\ wpc' = "dissect"
  /\ UNCHANGED <<stop, made, last, cpc, got, outcome>>

(* A seeded fault: the queue is not bounded.                               *)
EmitUnbounded ==
  /\ wpc = "put"
  /\ q' = Append(q, made)
  /\ wpc' = "dissect"
  /\ UNCHANGED <<stop, made, last, cpc, got, outcome>>

(* q.put succeeds, whether or not the event was set meanwhile.             *)
Emit ==
  /\ wpc = "put"
  /\ HasRoom
  /\ q' = Append(q, made)
  /\ wpc' = "dissect"
  /\ UNCHANGED <<stop, made, last, cpc, got, outcome>>

(* queue.Full after the timeout: the loop continues.                       *)
PutTimesOut ==
  /\ wpc = "put"
  /\ ~ HasRoom
  /\ wpc' = "poll"
  /\ UNCHANGED <<q, stop, made, last, cpc, got, outcome>>

(* The callback's exception is parked: the reader goes through the rest of *)
(* the capture, the run returns an error and _Stop surfaces.               *)
Skim ==
  /\ wpc = "skim"
  /\ wpc' = "finish"
  /\ last' = Done
  /\ UNCHANGED <<q, stop, made, cpc, got, outcome>>

(* A seeded fault: the worker ends without a terminal item.                *)
FinishSilently ==
  /\ wpc = "finish"
  /\ wpc' = "end"
  /\ UNCHANGED <<q, stop, made, last, cpc, got, outcome>>

(* q.put(_DONE) or q.put(exc), which waits for room as long as it takes.   *)
Finish ==
  /\ wpc = "finish"
  /\ HasRoom
  /\ q' = Append(q, last)
  /\ wpc' = "end"
  /\ UNCHANGED <<stop, made, last, cpc, got, outcome>>

Worker ==
  \/ NextBatch
  \/ RunDone
  \/ RunFails
  \/ Poll
  \/ Emit
  \/ PutTimesOut
  \/ Skim
  \/ Finish

----------------------------------------------------------------------------
(* The generator.                                                          *)

(* q.get() returned a batch: it is yielded.                                *)
Yield ==
  /\ cpc = "get"
  /\ q # <<>>
  /\ Head(q) \notin {Done, Exc}
  /\ q' = Tail(q)
  /\ got' = Append(got, Head(q))
  /\ cpc' = "yielded"
  /\ UNCHANGED <<stop, wpc, made, last, outcome>>

(* q.get() returned a terminal item: the generator returns or raises, and  *)
(* its finally block sets the event.                                       *)
Terminal ==
  /\ cpc = "get"
  /\ q # <<>>
  /\ Head(q) \in {Done, Exc}
  /\ q' = Tail(q)
  /\ outcome' = IF Head(q) = Done THEN "done" ELSE "raised"
  /\ stop' = TRUE
  /\ cpc' = "join"
  /\ UNCHANGED <<wpc, made, last, got>>

(* The caller asks for the next batch.                                     *)
Resume ==
  /\ cpc = "yielded"
  /\ cpc' = "get"
  /\ UNCHANGED <<q, stop, wpc, made, last, got, outcome>>

(* The caller closes or drops the generator: GeneratorExit at the yield.   *)
Abandon ==
  /\ cpc = "yielded"
  /\ outcome' = "abandoned"
  /\ stop' = TRUE
  /\ cpc' = "join"
  /\ UNCHANGED <<q, wpc, made, last, got>>

(* join(timeout=5.0) returns: the worker has ended or time is up.          *)
Join ==
  /\ cpc = "join"
  /\ cpc' = "end"
  /\ UNCHANGED <<q, stop, wpc, made, last, got, outcome>>

Generator == Yield \/ Terminal \/ Join

IterNext == Worker \/ Generator \/ Resume \/ Abandon

(* Both threads are scheduled; what the caller does between two calls of   *)
(* next() is its own affair, so Resume and Abandon are not fair.           *)
IterSpec == IterInit /\ [][IterNext]_iterVars /\ WF_iterVars(Worker) /\ WF_iterVars(Generator)

----------------------------------------------------------------------------
(* Every variable has its type.                                            *)
IterTypeOK ==
  /\ q \in Seq(Item)
  /\ stop \in BOOLEAN
  /\ wpc \in WPC
  /\ made \in 0..NBatches
  /\ last \in {Done, Exc}
  /\ cpc \in CPC
  /\ got \in Seq(1..NBatches)
  /\ outcome \in {"open", "done", "raised", "abandoned"}

(* The caller sees the batches of the capture in order and without a gap,  *)
(* however puts, timeouts and gets interleave.                             *)
InOrder == \A i \in 1..Len(got) : got[i] = i

(* An iteration that ends by itself is complete, and one that raises has   *)
(* handed over every batch made before the failure: the _DONE of a stopped *)
(* worker is never taken for the end of the capture.                       *)
NoSilentTruncation ==
  /\ outcome = "done" => Len(got) = NBatches
  /\ outcome = "raised" => Len(got) = made /\ last = Exc

(* Memory stays bounded: of the batches made, at most the queue's worth    *)
(* and the one in the worker's hands have not reached the caller.          *)
HeldBatches == made - Len(got)
Bounded == Len(q) <= QueueSize /\ HeldBatches <= QueueSize + 1

(* next() returns: a caller blocked in q.get() is always served, also when *)
(* the run fails.                                                          *)
NextReturns == cpc = "get" ~> cpc # "get"

(* api.py: "Abandoning the iterator early stops the worker."               *)
AbandonStopsWorker == outcome = "abandoned" ~> wpc = "end"

============================================================================
