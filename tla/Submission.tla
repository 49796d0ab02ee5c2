----------------------------- MODULE Submission -----------------------------
(***************************************************************************)
(* How a generation request becomes a row of the queue, and how the worker *)
(* threads learn of it: GenerationSubmissionService.submit, called by the  *)
(* route POST /promotions/{id}/generation, and the wake-up of              *)
(* GenerationCoordinator (app/generation/submission.py, repositories.py,   *)
(* coordinator.py).                                                        *)
(*                                                                         *)
(* submit does not await anything: on the event loop of its process no     *)
(* other submission, and no shutdown, comes in between, but the worker     *)
(* threads and the other processes do.  Everything is about one project,   *)
(* as the index of idempotency keys is per project.  What a claimed run    *)
(* goes through is GenerationQueue's: here it is taken, and the worker is  *)
(* busy.  A retry is not announced by a wake-up, so its row does not       *)
(* appear here again.                                                      *)
(***************************************************************************)
EXTENDS Naturals

CONSTANTS Key,       \* idempotency keys
          Body,      \* request bodies
          Proc,      \* API processes
          Worker,    \* worker threads of all processes
          ProcOf,    \* the process of a worker thread
          Nobody,
          MaxEdits,  \* bound: changes of the promotion, its segments, its brand
          MaxSends,  \* bound: requests
          MaxStops   \* bound: shutdowns and crashes of processes

ASSUME SubmissionAssumption == /\ ProcOf \in [Worker -> Proc]
                               /\ Nobody \notin Worker
                               /\ {MaxEdits, MaxSends, MaxStops} \subseteq Nat

VARIABLES edits,     \* version of what the snapshot of a request is read from
          rows,      \* generation_runs: key -> status and request_fingerprint
          lock,      \* key -> the worker whose claim holds the row
          handler,   \* process -> the submission on its event loop
          up,        \* process -> accepting, and not _stop_claiming
          sequence,  \* process -> _wake_sequence
          worker,    \* worker threads
          woken,     \* key -> processes that were woken while the row waited
          accepted,  \* answers 202: the key and the fingerprint of the request
          refused,   \* answers 409: the same
          sends, stops

stored == <<edits, rows>>
answers == <<accepted, refused>>
threads == <<lock, worker>>
vars == <<stored, threads, handler, up, sequence, woken, answers, sends, stops>>

Edit == 0 .. MaxEdits

(* generation_request_fingerprint: a hash of the snapshot, which holds the  *)
(* body and what was read for it from the promotion and from its segments.  *)
Fingerprint == [body : Body, promotion : Edit, targets : Edit]

Row == [status : {"requested", "taken"}, print : Fingerprint]
Absent == [status |-> "absent"]

Request == [key : Key, print : Fingerprint]
Idle == [at |-> "idle"]
Open == [at : {"promotion", "targets", "insert", "created", "found", "wake"},
         key : Key, print : Fingerprint]

(* The places of a thread in _worker_loop.  missed: the claim has failed,   *)
(* so that the thread does not know whether there was work.                 *)
Thread == [at : {"starting", "loop", "claim", "claimed", "busy", "backoff", "wait",
                 "asleep", "ended"}, seen : Nat, missed : BOOLEAN]

Fresh(place) == [at |-> place, seen |-> 0, missed |-> FALSE]

TypeOK == /\ edits \in Edit
          /\ rows \in [Key -> Row \cup {Absent}]
          /\ lock \in [Key -> Worker \cup {Nobody}]
          /\ handler \in [Proc -> Open \cup {Idle}]
          /\ up \in [Proc -> BOOLEAN]
          /\ sequence \in [Proc -> Nat]
          /\ worker \in [Worker -> Thread]
          /\ woken \in [Key -> SUBSET Proc]
          /\ accepted \subseteq Request /\ refused \subseteq Request
          /\ sends \in 0 .. MaxSends /\ stops \in 0 .. MaxStops

Init == /\ edits = 0
        /\ rows = [k \in Key |-> Absent]
        /\ lock = [k \in Key |-> Nobody]
        /\ handler = [p \in Proc |-> Idle]
        /\ up = [p \in Proc |-> TRUE]
        /\ sequence = [p \in Proc |-> 0]
        /\ worker = [w \in Worker |-> Fresh("starting")]
        /\ woken = [k \in Key |-> {}]
        /\ accepted = {} /\ refused = {}
        /\ sends = 0 /\ stops = 0

-----------------------------------------------------------------------------
(* The submission: the reads of submit, one statement that inserts or finds *)
(* the row, one commit, and the wake-up.                                    *)

Busy(p, place) == handler[p] # Idle /\ handler[p].at = place

To(p, place) == handler' = [handler EXCEPT ![p].at = place]

AsRequest(p) == [key |-> handler[p].key, print |-> handler[p].print]

(* The promotion, its segments or its brand context are changed elsewhere.  *)
Change == /\ edits < MaxEdits
          /\ edits' = edits + 1
          /\ UNCHANGED <<rows, threads, handler, up, sequence, woken, answers,
                         sends, stops>>

(* A coordinator that does not accept refuses with 503 and nothing changes. *)
Receive(p, k, b) ==
  /\ up[p] /\ handler[p] = Idle
  /\ sends < MaxSends
  /\ sends' = sends + 1
  /\ handler' = [handler EXCEPT ![p] =
                   [at |-> "promotion", key |-> k,
                    print |-> [body |-> b, promotion |-> 0, targets |-> 0]]]
  /\ UNCHANGED <<stored, threads, up, sequence, woken, answers, stops>>

(* resolve_snapshot, get_promotion_input and the offer catalogue.           *)
ReadPromotion(p) ==
  /\ Busy(p, "promotion")
  /\ handler' = [handler EXCEPT ![p].at = "targets", ![p].print.promotion = edits]
  /\ UNCHANGED <<stored, threads, up, sequence, woken, answers, sends, stops>>

(* list_target_segment_inputs; the snapshot and the fingerprint.            *)
ReadTargets(p) ==
  /\ Busy(p, "targets")
  /\ handler' = [handler EXCEPT ![p].at = "insert", ![p].print.targets = edits]
  /\ UNCHANGED <<stored, threads, up, sequence, woken, answers, sends, stops>>

(* Mutant: only what the client has sent is compared.                       *)
MutantMatches(p) == rows[handler[p].key].print.body = handler[p].print.body

(* The request_fingerprint of the row is that of the request.               *)
Matches(p) == rows[handler[p].key].print = handler[p].print

(* Processes whose open transaction has inserted the row of a key: INSERT   *)
(* ... ON CONFLICT (project_id, idempotency_key) waits for them.            *)
Inserters(k) == {p \in Proc : Busy(p, "created") /\ handler[p].key = k}

(* create_or_get_idempotent.  A row with another fingerprint is a mismatch: *)
(* rollback, and the answer is 409.                                         *)
CreateOrGet(p) ==
  /\ Busy(p, "insert")
  /\ Inserters(handler[p].key) = {}
  /\ \/ /\ rows[handler[p].key] = Absent
        /\ To(p, "created")
        /\ UNCHANGED answers
     \/ /\ rows[handler[p].key] # Absent /\ Matches(p)
        /\ To(p, "found")
        /\ UNCHANGED answers
     \/ /\ rows[handler[p].key] # Absent /\ ~Matches(p)
        /\ handler' = [handler EXCEPT ![p] = Idle]
        /\ refused' = refused \cup {AsRequest(p)}
        /\ UNCHANGED accepted
  /\ UNCHANGED <<stored, threads, up, sequence, woken, sends, stops>>

(* What the commit stores: the inserted row, status requested.              *)
WriteRow(p) ==
  rows' = IF handler[p].at = "created"
          THEN [rows EXCEPT ![handler[p].key] =
                  [status |-> "requested", print |-> handler[p].print]]
          ELSE rows

Commit(p) ==
  /\ Busy(p, "created") \/ Busy(p, "found")
  /\ WriteRow(p)
  /\ To(p, "wake")
  /\ UNCHANGED <<edits, threads, up, sequence, woken, answers, sends, stops>>

(* The commit is done and its answer lost: submit raises, nobody is woken.  *)
CommitUnacknowledged(p) ==
  /\ Busy(p, "created") \/ Busy(p, "found")
  /\ WriteRow(p)
  /\ handler' = [handler EXCEPT ![p] = Idle]
  /\ UNCHANGED <<edits, threads, up, sequence, woken, answers, sends, stops>>

(* Inputs that are missing or invalid, a database or storage error, a       *)
(* commit that fails: rollback.                                             *)
Raise(p) ==
  /\ handler[p] # Idle /\ handler[p].at # "wake"
  /\ handler' = [handler EXCEPT ![p] = Idle]
  /\ UNCHANGED <<stored, threads, up, sequence, woken, answers, sends, stops>>

Waiting(w) == worker[w].at \in {"asleep", "backoff"}

(* Where a thread goes on that has waited: from _claim_next, after an       *)
(* error, to the wait of _worker_loop, and from there to the next claim.    *)
Awake(w) == IF worker[w].at = "backoff" THEN [worker[w] EXCEPT !.at = "wait"]
            ELSE Fresh("loop")

(* notify_all wakes every thread of the process.                            *)
Notified(p) ==
  [w \in Worker |->
     IF ProcOf[w] = p /\ Waiting(w)
     THEN Awake(w)
     ELSE worker[w]]

(* wake(), and the answer 202.                                              *)
Wake(p) ==
  /\ Busy(p, "wake")
  /\ handler' = [handler EXCEPT ![p] = Idle]
  /\ accepted' = accepted \cup {AsRequest(p)}
  /\ sequence' = [sequence EXCEPT ![p] = @ + 1]
  /\ worker' = Notified(p)
  /\ woken' = [k \in Key |-> IF rows[k] # Absent /\ rows[k].status = "requested"
                             THEN woken[k] \cup {p} ELSE woken[k]]
  /\ UNCHANGED <<stored, lock, up, refused, sends, stops>>

-----------------------------------------------------------------------------
(* The worker threads: _worker_loop, _claim_next and _wait_for_work.        *)

At(w, place) == worker[w].at = place

Goto(w, place) == worker' = [worker EXCEPT ![w].at = place]

(* processor_factory; if it raises, the thread ends and nobody is told.     *)
Start(w) ==
  /\ At(w, "starting")
  /\ \E place \in {"loop", "ended"} : Goto(w, place)
  /\ UNCHANGED <<stored, lock, handler, up, sequence, woken, answers, sends, stops>>

(* while not _stop_claiming: _current_wake_sequence                         *)
ReadSequence(w) ==
  /\ At(w, "loop")
  /\ IF up[ProcOf[w]]
     THEN worker' = [worker EXCEPT ![w] =
                       [at |-> "claim", seen |-> sequence[ProcOf[w]], missed |-> FALSE]]
     ELSE Goto(w, "ended")
  /\ UNCHANGED <<stored, lock, handler, up, sequence, woken, answers, sends, stops>>

(* The rows CLAIM_NEXT_SQL selects from: FOR UPDATE SKIP LOCKED.            *)
Claimable == {k \in Key : /\ rows[k] # Absent
                          /\ rows[k].status = "requested"
                          /\ lock[k] = Nobody}

(* The statement, in a transaction of its own.                              *)
Claim(w, k) ==
  /\ At(w, "claim")
  /\ k \in Claimable
  /\ lock' = [lock EXCEPT ![k] = w]
  /\ Goto(w, "claimed")
  /\ UNCHANGED <<stored, handler, up, sequence, woken, answers, sends, stops>>

ClaimNothing(w) ==
  /\ At(w, "claim")
  /\ Claimable = {}
  /\ Goto(w, "wait")
  /\ UNCHANGED <<stored, lock, handler, up, sequence, woken, answers, sends, stops>>

Held(w) == {k \in Key : lock[k] = w}

Freed(w) == [k \in Key |-> IF lock[k] = w THEN Nobody ELSE lock[k]]

Taken(w) ==
  [k \in Key |-> IF lock[k] = w THEN [rows[k] EXCEPT !.status = "taken"] ELSE rows[k]]

ClaimCommit(w) ==
  /\ At(w, "claimed")
  /\ rows' = Taken(w)
  /\ lock' = Freed(w)
  /\ Goto(w, "busy")
  /\ UNCHANGED <<edits, handler, up, sequence, woken, answers, sends, stops>>

(* The claim raises, before or after it has a row, or when its commit is    *)
(* done but not acknowledged: _claim_next waits for the poll interval.      *)
(* Whoever has skipped the row does not know of it: polling must find it.   *)
ClaimFails(w) ==
  /\ At(w, "claim") \/ At(w, "claimed")
  /\ rows' \in {rows, Taken(w)}
  /\ lock' = Freed(w)
  /\ woken' = [k \in Key |-> IF lock[k] = w THEN {} ELSE woken[k]]
  /\ worker' = [worker EXCEPT ![w] = [@ EXCEPT !.at = "backoff", !.missed = TRUE]]
  /\ UNCHANGED <<edits, handler, up, sequence, answers, sends, stops>>

(* Mutant: the wake-ups since the claim are not looked at.                  *)
MutantMayWait(w) == up[ProcOf[w]]

(* The condition under which _wait_for_work waits, read and waited on under *)
(* one lock.                                                                *)
MayWait(w) == up[ProcOf[w]] /\ worker[w].seen = sequence[ProcOf[w]]

WaitForWork(w) ==
  /\ At(w, "wait")
  /\ IF MayWait(w) THEN Goto(w, "asleep")
                   ELSE worker' = [worker EXCEPT ![w] = Fresh("loop")]
  /\ UNCHANGED <<stored, lock, handler, up, sequence, woken, answers, sends, stops>>

(* The poll interval, after an error, or the idle poll interval is over.    *)
PollElapses(w) ==
  /\ Waiting(w)
  /\ worker' = [worker EXCEPT ![w] = Awake(w)]
  /\ UNCHANGED <<stored, lock, handler, up, sequence, woken, answers, sends, stops>>

(* processor.process returns or raises.                                     *)
Process(w) ==
  /\ At(w, "busy")
  /\ worker' = [worker EXCEPT ![w] = Fresh("loop")]
  /\ UNCHANGED <<stored, lock, handler, up, sequence, woken, answers, sends, stops>>

-----------------------------------------------------------------------------
(* Processes.                                                               *)

(* shutdown(), on the event loop: it stops the claims and notifies all.     *)
Shutdown(p) ==
  /\ up[p] /\ handler[p] = Idle
  /\ stops < MaxStops /\ stops' = stops + 1
  /\ up' = [up EXCEPT ![p] = FALSE]
  /\ worker' = Notified(p)
  /\ UNCHANGED <<stored, lock, handler, sequence, woken, answers, sends>>

(* The process dies and another one takes its place: open transactions are  *)
(* rolled back, threads, wake sequence and the submission are gone.         *)
Crash(p) ==
  /\ stops < MaxStops /\ stops' = stops + 1
  /\ up' = [up EXCEPT ![p] = TRUE]
  /\ handler' = [handler EXCEPT ![p] = Idle]
  /\ sequence' = [sequence EXCEPT ![p] = 0]
  /\ worker' = [w \in Worker |-> IF ProcOf[w] = p THEN Fresh("starting")
                                              ELSE worker[w]]
  /\ lock' = [k \in Key |-> IF lock[k] # Nobody /\ ProcOf[lock[k]] = p
                            THEN Nobody ELSE lock[k]]
  /\ woken' = [k \in Key |-> IF lock[k] # Nobody /\ ProcOf[lock[k]] = p
                             THEN {} ELSE woken[k] \ {p}]
  /\ UNCHANGED <<stored, answers, sends>>

Submit(p) == \/ \E k \in Key, b \in Body : Receive(p, k, b)
             \/ ReadPromotion(p) \/ ReadTargets(p) \/ CreateOrGet(p)
             \/ Commit(p) \/ CommitUnacknowledged(p) \/ Raise(p) \/ Wake(p)

Work(w) == \/ Start(w) \/ ReadSequence(w)
           \/ \E k \in Key : Claim(w, k)
           \/ ClaimNothing(w) \/ ClaimCommit(w) \/ ClaimFails(w)
           \/ WaitForWork(w) \/ PollElapses(w) \/ Process(w)

Next == \/ Change
        \/ \E p \in Proc : Submit(p) \/ Shutdown(p) \/ Crash(p)
        \/ \E w \in Worker : Work(w)

Spec == Init /\ [][Next]_vars

-----------------------------------------------------------------------------
(* An answer of create_generation stays true: a request that was accepted   *)
(* is the one run of its key, made from the inputs the request was accepted *)
(* with, and a conflict was answered only over a run made from others.      *)
AnswersStand ==
  /\ \A a \in accepted : rows[a.key] # Absent /\ rows[a.key].print = a.print
  /\ \A a \in refused : rows[a.key] # Absent /\ rows[a.key].print # a.print

(* No lost wake-up: a thread does not sleep until the idle poll over a row  *)
(* its process has been woken for, wherever between its claim and its wait  *)
(* the wake-up came.  Only a claim that fails leaves a row to the polls.    *)
NoSleepOverWork ==
  \A w \in Worker : At(w, "asleep") /\ ~worker[w].missed =>
    \A k \in Claimable : ProcOf[w] \notin woken[k]

=============================================================================
