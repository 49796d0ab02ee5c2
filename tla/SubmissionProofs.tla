-------------------------- MODULE SubmissionProofs --------------------------
(***************************************************************************)
(* Proofs about Submission.  The inductive invariant has two halves that   *)
(* do not need each other.  The answers: no two open transactions have     *)
(* inserted one key, an inserted row is not there yet, and what a          *)
(* submission has found or committed is its own request.  The wake-ups: a  *)
(* row that is absent has woken nobody, and a thread that is about to wait *)
(* below a row its process was woken for has seen an older sequence.       *)
(***************************************************************************)
EXTENDS Submission, TLAPS

Inserted == \A p, q \in Proc :
              Busy(p, "created") =>
                /\ rows[handler[p].key] = Absent
                /\ Busy(q, "created") /\ handler[q].key = handler[p].key => p = q

Found == \A p \in Proc : Busy(p, "found") \/ Busy(p, "wake") =>
           rows[handler[p].key] # Absent /\ Matches(p)

LockedRows == \A k \in Key : lock[k] # Nobody =>
                rows[k] # Absent /\ rows[k].status = "requested"

WokenRows == \A k \in Key : rows[k] = Absent => woken[k] = {}

SeenIsPast == \A w \in Worker : worker[w].seen <= sequence[ProcOf[w]]

FailureIsKnown == \A w \in Worker : At(w, "backoff") => worker[w].missed

WaitIsRefused ==
  \A w \in Worker : At(w, "wait") /\ ~worker[w].missed =>
    \A k \in Claimable : ProcOf[w] \in woken[k] =>
      worker[w].seen # sequence[ProcOf[w]]

Answers == Inserted /\ Found /\ AnswersStand
Wakes == /\ LockedRows /\ WokenRows
         /\ SeenIsPast /\ FailureIsKnown /\ WaitIsRefused /\ NoSleepOverWork

IInv == TypeOK /\ Answers /\ Wakes

-----------------------------------------------------------------------------
LEMMA OpenRequest ==
  ASSUME TypeOK, NEW p \in Proc, handler[p] # Idle
  PROVE  /\ handler[p] \in Open
         /\ handler[p].key \in Key /\ handler[p].print \in Fingerprint
         /\ AsRequest(p) \in Request
  BY DEF TypeOK, Open, AsRequest, Request

LEMMA PlaceOfOpen ==
  ASSUME NEW h \in Open,
         NEW place \in {"promotion", "targets", "insert", "created", "found", "wake"}
  PROVE  /\ [h EXCEPT !.at = place] \in Open
         /\ [h EXCEPT !.at = place] # Idle
         /\ [h EXCEPT !.at = place].at = place
         /\ [h EXCEPT !.at = place].key = h.key
         /\ [h EXCEPT !.at = place].print = h.print
  <1>1. [h EXCEPT !.at = place] \in Open
    BY DEF Open
  <1>2. h.at # "idle" /\ place # "idle"
    BY DEF Open
  <1> QED
    BY <1>1, <1>2 DEF Open, Idle

LEMMA StoredRow ==
  ASSUME TypeOK, NEW k \in Key, rows[k] # Absent
  PROVE  /\ rows[k] \in Row
         /\ rows[k].print \in Fingerprint
         /\ [rows[k] EXCEPT !.status = "taken"] \in Row
         /\ [rows[k] EXCEPT !.status = "taken"] # Absent
         /\ [rows[k] EXCEPT !.status = "taken"].status = "taken"
         /\ [rows[k] EXCEPT !.status = "taken"].print = rows[k].print
  <1>1. rows[k] \in Row
    BY DEF TypeOK
  <1>2. /\ [rows[k] EXCEPT !.status = "taken"] \in Row
        /\ [rows[k] EXCEPT !.status = "taken"].status = "taken"
        /\ [rows[k] EXCEPT !.status = "taken"].print = rows[k].print
        /\ rows[k].print \in Fingerprint
    BY <1>1 DEF Row
  <1>3. Absent.status = "absent"
    BY DEF Absent
  <1> QED
    BY <1>1, <1>2, <1>3

LEMMA WrittenRow ==
  ASSUME TypeOK, NEW p \in Proc, Busy(p, "created") \/ Busy(p, "found"), WriteRow(p)
  PROVE  /\ rows' \in [Key -> Row \cup {Absent}]
         /\ \A k \in Key : rows'[k] = rows[k]
              \/ /\ Busy(p, "created") /\ k = handler[p].key
                 /\ rows'[k] # Absent /\ rows'[k].status = "requested"
                 /\ rows'[k].print = handler[p].print
  <1>1. handler[p] # Idle
    BY DEF Busy
  <1>2. handler[p].key \in Key /\ handler[p].print \in Fingerprint
    BY <1>1, OpenRequest
  <1> DEFINE new == [status |-> "requested", print |-> handler[p].print]
  <1>3. /\ new \in Row /\ new.status = "requested" /\ new.print = handler[p].print
    BY <1>2 DEF Row
  <1>4. new # Absent
    BY <1>3 DEF Absent
  <1>5. rows \in [Key -> Row \cup {Absent}]
    BY DEF TypeOK
  <1>6. CASE handler[p].at = "created"
    <2>1. rows' = [rows EXCEPT ![handler[p].key] = new]
      BY <1>6 DEF WriteRow
    <2>2. Busy(p, "created")
      BY <1>1, <1>6 DEF Busy
    <2> HIDE DEF new
    <2> QED
      BY <1>2, <1>3, <1>4, <1>5, <2>1, <2>2
  <1>7. CASE handler[p].at # "created"
    BY <1>5, <1>7 DEF WriteRow
  <1> QED
    BY <1>6, <1>7

LEMMA TakenRows ==
  ASSUME TypeOK, LockedRows, NEW w \in Worker
  PROVE  /\ Taken(w) \in [Key -> Row \cup {Absent}]
         /\ \A k \in Key : /\ lock[k] = w => /\ Taken(w)[k] # Absent
                                             /\ Taken(w)[k].status = "taken"
                                             /\ Taken(w)[k].print = rows[k].print
                                             /\ rows[k] # Absent
                           /\ lock[k] # w => Taken(w)[k] = rows[k]
  <1>1. w # Nobody
    BY SubmissionAssumption
  <1>2. rows \in [Key -> Row \cup {Absent}]
    BY DEF TypeOK
  <1>3. \A k \in Key : lock[k] = w => rows[k] # Absent
    BY <1>1 DEF LockedRows
  <1>4. ASSUME NEW k \in Key
        PROVE  /\ Taken(w)[k] \in Row \cup {Absent}
               /\ lock[k] = w => /\ Taken(w)[k] # Absent
                                 /\ Taken(w)[k].status = "taken"
                                 /\ Taken(w)[k].print = rows[k].print
                                 /\ rows[k] # Absent
               /\ lock[k] # w => Taken(w)[k] = rows[k]
    <2>1. CASE lock[k] = w
      <3>1. Taken(w)[k] = [rows[k] EXCEPT !.status = "taken"]
        BY <2>1 DEF Taken
      <3>2. rows[k] # Absent
        BY <1>3, <2>1
      <3> QED
        BY <2>1, <3>1, <3>2, StoredRow
    <2>2. CASE lock[k] # w
      BY <1>2, <2>2 DEF Taken
    <2> QED
      BY <2>1, <2>2
  <1>5. Taken(w) = [k \in Key |-> Taken(w)[k]]
    BY DEF Taken
  <1> QED
    BY <1>4, <1>5

LEMMA NotifiedThreads ==
  ASSUME TypeOK, NEW p \in Proc
  PROVE  /\ Notified(p) \in [Worker -> Thread]
         /\ \A w \in Worker :
              \/ Notified(p)[w] = worker[w] /\ (ProcOf[w] = p => ~Waiting(w))
              \/ /\ ProcOf[w] = p /\ Waiting(w)
                 /\ Notified(p)[w] = Awake(w)
  BY DEF TypeOK, Notified, Waiting, Awake, Fresh, Thread

-----------------------------------------------------------------------------
(* Type correctness.                                                        *)

LEMMA TypeInit == Init => TypeOK
  BY SubmissionAssumption
     DEF Init, TypeOK, Edit, Thread, Fresh

LEMMA TypeSubmit ==
  ASSUME TypeOK, NEW p \in Proc, Submit(p)
  PROVE  TypeOK'
  <1> USE SubmissionAssumption
  <1>1. CASE \E k \in Key, b \in Body : Receive(p, k, b)
    <2> PICK k \in Key, b \in Body : Receive(p, k, b)
      BY <1>1
    <2> DEFINE h == [at |-> "promotion", key |-> k,
                     print |-> [body |-> b, promotion |-> 0, targets |-> 0]]
    <2>1. h \in Open
      BY DEF Open, Fingerprint, Edit
    <2>2. handler' = [handler EXCEPT ![p] = h]
      BY DEF Receive
    <2> HIDE DEF h
    <2>3. handler' \in [Proc -> Open \cup {Idle}]
      BY <2>1, <2>2 DEF TypeOK
    <2>4. sends' \in 0 .. MaxSends
      BY DEF Receive, TypeOK
    <2> QED
      BY <2>3, <2>4 DEF Receive, TypeOK, stored, threads, answers
  <1>2. CASE ReadPromotion(p)
    <2>1. handler[p] \in Open
      BY <1>2, OpenRequest DEF ReadPromotion, Busy
    <2>2. [handler[p] EXCEPT !.at = "targets", !.print.promotion = edits] \in Open
      BY <2>1 DEF Open, Fingerprint, TypeOK
    <2>3. handler' \in [Proc -> Open \cup {Idle}]
      BY <1>2, <2>2 DEF ReadPromotion, TypeOK
    <2> QED
      BY <1>2, <2>3 DEF ReadPromotion, TypeOK, stored, threads, answers
  <1>3. CASE ReadTargets(p)
    <2>1. handler[p] \in Open
      BY <1>3, OpenRequest DEF ReadTargets, Busy
    <2>2. [handler[p] EXCEPT !.at = "insert", !.print.targets = edits] \in Open
      BY <2>1 DEF Open, Fingerprint, TypeOK
    <2>3. handler' \in [Proc -> Open \cup {Idle}]
      BY <1>3, <2>2 DEF ReadTargets, TypeOK
    <2> QED
      BY <1>3, <2>3 DEF ReadTargets, TypeOK, stored, threads, answers
  <1>4. CASE CreateOrGet(p)
    <2>1. handler[p] \in Open /\ AsRequest(p) \in Request
      BY <1>4, OpenRequest DEF CreateOrGet, Busy
    <2>2. handler' \in [Proc -> Open \cup {Idle}]
      <3>1. /\ [handler[p] EXCEPT !.at = "created"] \in Open
            /\ [handler[p] EXCEPT !.at = "found"] \in Open
        BY <2>1, PlaceOfOpen
      <3>2. handler \in [Proc -> Open \cup {Idle}]
        BY DEF TypeOK
      <3>3. \/ handler' = [handler EXCEPT ![p] = [@ EXCEPT !.at = "created"]]
            \/ handler' = [handler EXCEPT ![p] = [@ EXCEPT !.at = "found"]]
            \/ handler' = [handler EXCEPT ![p] = Idle]
        BY <1>4 DEF CreateOrGet, To
      <3> QED
        BY <3>1, <3>2, <3>3
    <2>3. accepted' \subseteq Request /\ refused' \subseteq Request
      BY <1>4, <2>1 DEF CreateOrGet, TypeOK, answers
    <2> QED
      BY <1>4, <2>2, <2>3 DEF CreateOrGet, TypeOK, stored, threads
  <1>5. CASE Commit(p)
    <2>1. handler[p] \in Open
      BY <1>5, OpenRequest DEF Commit, Busy
    <2>2. handler' \in [Proc -> Open \cup {Idle}]
      BY <1>5, <2>1, PlaceOfOpen DEF Commit, To, TypeOK
    <2>3. rows' \in [Key -> Row \cup {Absent}]
      BY <1>5, WrittenRow DEF Commit
    <2> QED
      BY <1>5, <2>2, <2>3 DEF Commit, TypeOK, threads, answers
  <1>6. CASE CommitUnacknowledged(p)
    <2>1. rows' \in [Key -> Row \cup {Absent}]
      BY <1>6, WrittenRow DEF CommitUnacknowledged
    <2> QED
      BY <1>6, <2>1 DEF CommitUnacknowledged, TypeOK, threads, answers
  <1>7. CASE Raise(p)
    BY <1>7 DEF Raise, TypeOK, stored, threads, answers
  <1>8. CASE Wake(p)
    <2>1. AsRequest(p) \in Request
      BY <1>8, OpenRequest DEF Wake, Busy
    <2>2. worker' \in [Worker -> Thread]
      BY <1>8, NotifiedThreads DEF Wake
    <2>3. woken' \in [Key -> SUBSET Proc]
      BY <1>8 DEF Wake, TypeOK
    <2> QED
      BY <1>8, <2>1, <2>2, <2>3 DEF Wake, TypeOK, stored
  <1> QED
    BY <1>1, <1>2, <1>3, <1>4, <1>5, <1>6, <1>7, <1>8 DEF Submit

LEMMA TypeWork ==
  ASSUME TypeOK, LockedRows, NEW w \in Worker, Work(w)
  PROVE  TypeOK'
  <1>1. /\ worker \in [Worker -> Thread] /\ worker[w] \in Thread
        /\ lock \in [Key -> Worker \cup {Nobody}]
        /\ Freed(w) \in [Key -> Worker \cup {Nobody}]
    BY DEF TypeOK, Freed
  <1>2. Taken(w) \in [Key -> Row \cup {Absent}]
    BY TakenRows
  <1>3. sequence[ProcOf[w]] \in Nat
    BY SubmissionAssumption DEF TypeOK
  <1>4. CASE Start(w)
    BY <1>1, <1>4 DEF Start, Goto, TypeOK, Thread, stored, answers
  <1>5. CASE ReadSequence(w)
    <2>1. [at |-> "claim", seen |-> sequence[ProcOf[w]], missed |-> FALSE] \in Thread
      BY <1>3 DEF Thread
    <2>2. [worker[w] EXCEPT !.at = "ended"] \in Thread
      BY <1>1 DEF Thread
    <2>3. worker' \in [Worker -> Thread]
      BY <1>1, <1>5, <2>1, <2>2 DEF ReadSequence, Goto
    <2> QED
      BY <1>5, <2>3 DEF ReadSequence, TypeOK, stored, answers
  <1>6. CASE \E k \in Key : Claim(w, k)
    BY <1>1, <1>6 DEF Claim, Goto, TypeOK, Thread, stored, answers
  <1>7. CASE ClaimNothing(w)
    BY <1>1, <1>7 DEF ClaimNothing, Goto, TypeOK, Thread, stored, answers
  <1>8. CASE ClaimCommit(w)
    BY <1>1, <1>2, <1>8 DEF ClaimCommit, Goto, TypeOK, Thread, answers
  <1>9. CASE ClaimFails(w)
    <2>1. rows' \in [Key -> Row \cup {Absent}]
      BY <1>2, <1>9 DEF ClaimFails, TypeOK
    <2>2. worker' \in [Worker -> Thread]
      BY <1>1, <1>9 DEF ClaimFails, Thread
    <2>3. woken' \in [Key -> SUBSET Proc]
      BY <1>9 DEF ClaimFails, TypeOK
    <2> QED
      BY <1>1, <1>9, <2>1, <2>2, <2>3 DEF ClaimFails, TypeOK, answers
  <1>10. CASE WaitForWork(w)
    <2>1. Fresh("loop") \in Thread /\ [worker[w] EXCEPT !.at = "asleep"] \in Thread
      BY <1>1 DEF Fresh, Thread
    <2>2. worker' \in [Worker -> Thread]
      BY <1>1, <1>10, <2>1 DEF WaitForWork, Goto
    <2> QED
      BY <1>10, <2>2 DEF WaitForWork, TypeOK, stored, answers
  <1>11. CASE PollElapses(w)
    BY <1>1, <1>11 DEF PollElapses, Awake, Fresh, TypeOK, Thread, stored, answers
  <1>12. CASE Process(w)
    BY <1>1, <1>12 DEF Process, Fresh, TypeOK, Thread, stored, answers
  <1> QED
    BY <1>4, <1>5, <1>6, <1>7, <1>8, <1>9, <1>10, <1>11, <1>12 DEF Work

LEMMA TypeOther ==
  ASSUME TypeOK,
         \/ Change
         \/ \E p \in Proc : Shutdown(p) \/ Crash(p)
         \/ UNCHANGED vars
  PROVE  TypeOK'
  <1> USE SubmissionAssumption
  <1>1. CASE Change
    BY <1>1 DEF Change, TypeOK, Edit, threads, answers
  <1>2. CASE \E p \in Proc : Shutdown(p)
    <2> PICK p \in Proc : Shutdown(p)
      BY <1>2
    <2>1. worker' \in [Worker -> Thread]
      BY NotifiedThreads DEF Shutdown
    <2> QED
      BY <2>1 DEF Shutdown, TypeOK, stored, answers
  <1>3. CASE \E p \in Proc : Crash(p)
    <2> PICK p \in Proc : Crash(p)
      BY <1>3
    <2>1. worker' \in [Worker -> Thread]
      BY DEF Crash, TypeOK, Fresh, Thread
    <2>2. woken' \in [Key -> SUBSET Proc] /\ lock' \in [Key -> Worker \cup {Nobody}]
      BY DEF Crash, TypeOK
    <2>3. handler' \in [Proc -> Open \cup {Idle}] /\ sequence' \in [Proc -> Nat]
      BY DEF Crash, TypeOK
    <2> QED
      BY <2>1, <2>2, <2>3 DEF Crash, TypeOK, stored, answers
  <1>4. CASE UNCHANGED vars
    BY <1>4 DEF vars, TypeOK, stored, threads, answers
  <1> QED
    BY <1>1, <1>2, <1>3, <1>4

-----------------------------------------------------------------------------
(* The answers.                                                             *)

(* What keeps the answers: rows stay, with their fingerprints, and nobody   *)
(* is answered.                                                             *)
RowsStay == \A k \in Key : /\ rows'[k] = Absent <=> rows[k] = Absent
                           /\ rows[k] # Absent => rows'[k].print = rows[k].print

(* A submission is as it was, or has ended, or has not looked for its row   *)
(* yet.                                                                     *)
Harmless(p) == \/ handler'[p] = handler[p]
               \/ handler'[p] = Idle
               \/ handler'[p].at \in {"promotion", "targets", "insert"}

LEMMA AnswersAreKept ==
  ASSUME TypeOK, Answers, RowsStay, \A p \in Proc : Harmless(p), UNCHANGED answers
  PROVE  Answers'
  <1>1. \A p \in Proc, place \in {"created", "found", "wake"} :
          Busy(p, place)' => Busy(p, place) /\ handler'[p] = handler[p]
    BY DEF Busy, Harmless
  <1>2. \A p \in Proc, place \in {"created", "found", "wake"} :
          Busy(p, place) => handler[p].key \in Key
    BY OpenRequest DEF Busy
  <1>3. Inserted'
    BY <1>1, <1>2 DEF Inserted, Answers, RowsStay
  <1>4. Found'
    BY <1>1, <1>2 DEF Found, Matches, Answers, RowsStay
  <1>5. AnswersStand'
    <2>1. \A a \in accepted \cup refused : a.key \in Key
      BY DEF TypeOK, Request
    <2> QED
      BY <2>1 DEF AnswersStand, Answers, RowsStay, answers
  <1> QED
    BY <1>3, <1>4, <1>5 DEF Answers

LEMMA AnswersSubmit ==
  ASSUME TypeOK, Answers, NEW p \in Proc, Submit(p)
  PROVE  Answers'
  <1>1. handler \in [Proc -> Open \cup {Idle}]
    BY DEF TypeOK
  <1>2. CASE \E k \in Key, b \in Body : Receive(p, k, b)
    <2>1. RowsStay /\ (\A q \in Proc : Harmless(q)) /\ UNCHANGED answers
      BY <1>1, <1>2 DEF Receive, RowsStay, Harmless, stored
    <2> QED
      BY <2>1, AnswersAreKept
  <1>3. CASE ReadPromotion(p) \/ ReadTargets(p)
    <2>1. handler[p] \in Open
      BY <1>3, OpenRequest DEF ReadPromotion, ReadTargets, Busy
    <2>2. handler'[p].at \in {"targets", "insert"}
      BY <1>1, <1>3, <2>1 DEF ReadPromotion, ReadTargets, Open
    <2>3. \A q \in Proc : q # p => handler'[q] = handler[q]
      BY <1>1, <1>3 DEF ReadPromotion, ReadTargets
    <2>4. RowsStay /\ (\A q \in Proc : Harmless(q)) /\ UNCHANGED answers
      BY <1>3, <2>2, <2>3 DEF ReadPromotion, ReadTargets, RowsStay, Harmless, stored
    <2> QED
      BY <2>4, AnswersAreKept
  <1>4. CASE Raise(p)
    <2>1. RowsStay /\ (\A q \in Proc : Harmless(q)) /\ UNCHANGED answers
      BY <1>1, <1>4 DEF Raise, RowsStay, Harmless, stored
    <2> QED
      BY <2>1, AnswersAreKept
  <1>5. CASE CreateOrGet(p)
    <2>1. /\ handler[p] \in Open /\ AsRequest(p) \in Request
          /\ handler[p].key \in Key
      BY <1>5, OpenRequest DEF CreateOrGet, Busy
    <2>2. \A q \in Proc : q # p => handler'[q] = handler[q]
      BY <1>1, <1>5 DEF CreateOrGet, To
    <2>3. rows' = rows
      BY <1>5 DEF CreateOrGet, stored
    <2>4. \A q \in Proc : ~(Busy(q, "created") /\ handler[q].key = handler[p].key)
      BY <1>5 DEF CreateOrGet, Inserters
    <2>5. CASE rows[handler[p].key] = Absent /\ To(p, "created") /\ UNCHANGED answers
      <3>1. handler'[p] = [handler[p] EXCEPT !.at = "created"]
        BY <1>1, <2>5 DEF To
      <3>2. handler'[p].key = handler[p].key /\ handler'[p].at = "created"
        BY <2>1, <3>1, PlaceOfOpen
      <3>3. Inserted'
        BY <2>2, <2>3, <2>4, <2>5, <3>2 DEF Inserted, Answers, Busy
      <3>4. Found'
        BY <2>2, <2>3, <3>2 DEF Found, Answers, Busy, Matches
      <3>5. AnswersStand'
        BY <2>3, <2>5 DEF AnswersStand, Answers, answers
      <3> QED
        BY <3>3, <3>4, <3>5 DEF Answers
    <2>6. CASE /\ rows[handler[p].key] # Absent /\ Matches(p)
               /\ To(p, "found") /\ UNCHANGED answers
      <3>1. handler'[p] = [handler[p] EXCEPT !.at = "found"]
        BY <1>1, <2>6 DEF To
      <3>2. /\ handler'[p].key = handler[p].key /\ handler'[p].at = "found"
            /\ handler'[p].print = handler[p].print
        BY <2>1, <3>1, PlaceOfOpen
      <3>3. Inserted'
        BY <2>2, <2>3, <3>2 DEF Inserted, Answers, Busy
      <3>4. Found'
        BY <2>2, <2>3, <2>6, <3>2 DEF Found, Answers, Busy, Matches
      <3>5. AnswersStand'
        BY <2>3, <2>6 DEF AnswersStand, Answers, answers
      <3> QED
        BY <3>3, <3>4, <3>5 DEF Answers
    <2>7. CASE /\ rows[handler[p].key] # Absent /\ ~Matches(p)
               /\ handler' = [handler EXCEPT ![p] = Idle]
               /\ refused' = refused \cup {AsRequest(p)}
               /\ accepted' = accepted
      <3>1. handler'[p] = Idle
        BY <1>1, <2>7
      <3>2. Inserted' /\ Found'
        BY <2>2, <2>3, <3>1 DEF Inserted, Found, Answers, Busy, Matches
      <3>3. AnswersStand'
        BY <2>3, <2>7 DEF AnswersStand, Answers, AsRequest, Matches
      <3> QED
        BY <3>2, <3>3 DEF Answers
    <2> QED
      BY <1>5, <2>5, <2>6, <2>7 DEF CreateOrGet
  <1>6. CASE Commit(p) \/ CommitUnacknowledged(p)
    <2>1. /\ handler[p] # Idle /\ handler[p] \in Open /\ handler[p].key \in Key
          /\ Busy(p, "created") \/ Busy(p, "found")
      BY <1>6, OpenRequest DEF Commit, CommitUnacknowledged, Busy
    <2>2. WriteRow(p) /\ UNCHANGED answers
      BY <1>6 DEF Commit, CommitUnacknowledged
    <2>3. \A q \in Proc : q # p => handler'[q] = handler[q]
      BY <1>1, <1>6 DEF Commit, CommitUnacknowledged, To
    <2>4. \A k \in Key : rows'[k] = rows[k]
              \/ /\ Busy(p, "created") /\ k = handler[p].key
                 /\ rows'[k] # Absent /\ rows'[k].print = handler[p].print
      BY <2>1, <2>2, WrittenRow
    <2>5. \/ handler'[p] = Idle
          \/ /\ handler'[p].key = handler[p].key /\ handler'[p].at = "wake"
             /\ handler'[p].print = handler[p].print
      <3>1. \/ handler'[p] = Idle
            \/ handler'[p] = [handler[p] EXCEPT !.at = "wake"]
        BY <1>1, <1>6 DEF Commit, CommitUnacknowledged, To
      <3>2. /\ [handler[p] EXCEPT !.at = "wake"].at = "wake"
            /\ [handler[p] EXCEPT !.at = "wake"].key = handler[p].key
            /\ [handler[p] EXCEPT !.at = "wake"].print = handler[p].print
        BY <2>1, PlaceOfOpen
      <3> QED
        BY <3>1, <3>2
    <2>6. rows'[handler[p].key] # Absent
          /\ rows'[handler[p].key].print = handler[p].print
      <3>1. CASE Busy(p, "created")
        <4>1. rows[handler[p].key] = Absent
          BY <3>1 DEF Answers, Inserted
        <4>2. handler[p].at = "created"
          BY <3>1 DEF Busy
        <4>3. rows \in [Key -> Row \cup {Absent}]
          BY DEF TypeOK
        <4>4. rows'[handler[p].key] = [status |-> "requested", print |-> handler[p].print]
          BY <2>1, <2>2, <4>2, <4>3 DEF WriteRow
        <4>5. rows'[handler[p].key].status = "requested"
          BY <4>4
        <4> QED
          BY <4>4, <4>5 DEF Absent
      <3>2. CASE Busy(p, "found")
        <4>1. rows' = rows
          BY <2>2, <3>2 DEF WriteRow, Busy
        <4> QED
          BY <3>2, <4>1 DEF Answers, Found, Matches
      <3> QED
        BY <2>1, <3>1, <3>2
    <2>7. \A k \in Key : rows[k] # Absent => rows'[k] = rows[k]
      BY <2>4 DEF Answers, Inserted
    <2>8. \A q \in Proc : Busy(q, "created")' =>
            /\ q # p /\ Busy(q, "created") /\ handler'[q] = handler[q]
            /\ handler[q].key \in Key
      <3>1. ~Busy(p, "created")'
        BY <2>5 DEF Busy
      <3> QED
        BY <2>3, <3>1, OpenRequest DEF Busy
    <2>9. Inserted'
      <3>1. ASSUME NEW q \in Proc, Busy(q, "created")'
            PROVE  rows'[handler'[q].key] = Absent
        <4>1. /\ q # p /\ Busy(q, "created") /\ handler'[q] = handler[q]
              /\ handler[q].key \in Key
          BY <2>8, <3>1
        <4>2. rows[handler[q].key] = Absent
          BY <4>1 DEF Answers, Inserted
        <4>3. ~(Busy(p, "created") /\ handler[q].key = handler[p].key)
          BY <4>1 DEF Answers, Inserted
        <4> QED
          BY <2>4, <4>1, <4>2, <4>3
      <3>2. \A q, r \in Proc : Busy(q, "created")' /\ Busy(r, "created")'
                                /\ handler'[r].key = handler'[q].key => q = r
        BY <2>8 DEF Answers, Inserted
      <3> QED
        BY <3>1, <3>2 DEF Inserted
    <2>10. Found'
      <3>1. ASSUME NEW q \in Proc, Busy(q, "found")' \/ Busy(q, "wake")'
            PROVE  rows'[handler'[q].key] # Absent
                   /\ rows'[handler'[q].key].print = handler'[q].print
        <4>1. CASE q = p
          BY <2>5, <2>6, <3>1, <4>1 DEF Busy
        <4>2. CASE q # p
          <5>1. handler'[q] = handler[q] /\ (Busy(q, "found") \/ Busy(q, "wake"))
            BY <2>3, <3>1, <4>2 DEF Busy
          <5>2. handler[q].key \in Key
            BY <5>1, OpenRequest DEF Busy
          <5> QED
            BY <2>7, <5>1, <5>2 DEF Answers, Found, Matches
        <4> QED
          BY <4>1, <4>2
      <3> QED
        BY <3>1 DEF Found, Matches
    <2>11. AnswersStand'
      <3>1. \A a \in accepted \cup refused : a.key \in Key
        BY DEF TypeOK, Request
      <3> QED
        BY <2>2, <2>7, <3>1 DEF AnswersStand, Answers, answers
    <2> QED
      BY <2>9, <2>10, <2>11 DEF Answers
  <1>7. CASE Wake(p)
    <2>1. rows' = rows /\ refused' = refused /\ accepted' = accepted \cup {AsRequest(p)}
      BY <1>7 DEF Wake, stored
    <2>2. /\ handler'[p] = Idle
          /\ \A q \in Proc : q # p => handler'[q] = handler[q]
      BY <1>1, <1>7 DEF Wake
    <2>3. Inserted' /\ Found'
      BY <2>1, <2>2 DEF Inserted, Found, Answers, Busy, Matches
    <2>4. AnswersStand'
      BY <1>7, <2>1 DEF Wake, AnswersStand, Answers, AsRequest, Found, Matches
    <2> QED
      BY <2>3, <2>4 DEF Answers
  <1> QED
    BY <1>2, <1>3, <1>4, <1>5, <1>6, <1>7 DEF Submit

LEMMA AnswersOther ==
  ASSUME TypeOK, Answers, LockedRows,
         \/ Change
         \/ \E p \in Proc : Shutdown(p) \/ Crash(p)
         \/ \E w \in Worker : Work(w)
         \/ UNCHANGED vars
  PROVE  Answers'
  <1>1. handler \in [Proc -> Open \cup {Idle}]
    BY DEF TypeOK
  <1>2. CASE Change \/ UNCHANGED vars
    <2>1. RowsStay /\ (\A q \in Proc : Harmless(q)) /\ UNCHANGED answers
      BY <1>2 DEF Change, vars, stored, RowsStay, Harmless
    <2> QED
      BY <2>1, AnswersAreKept
  <1>3. CASE \E p \in Proc : Shutdown(p) \/ Crash(p)
    <2>1. RowsStay /\ (\A q \in Proc : Harmless(q)) /\ UNCHANGED answers
      BY <1>1, <1>3 DEF Shutdown, Crash, stored, RowsStay, Harmless
    <2> QED
      BY <2>1, AnswersAreKept
  <1>4. CASE \E w \in Worker : Work(w)
    <2> PICK w \in Worker : Work(w)
      BY <1>4
    <2>1. rows' \in {rows, Taken(w)} /\ UNCHANGED <<handler, answers>>
      BY DEF Work, Start, ReadSequence, Claim, ClaimNothing, ClaimCommit, ClaimFails,
             WaitForWork, PollElapses, Process, stored
    <2>2. RowsStay
      BY <2>1, TakenRows DEF RowsStay
    <2> QED
      BY <2>1, <2>2, AnswersAreKept DEF Harmless
  <1> QED
    BY <1>2, <1>3, <1>4

-----------------------------------------------------------------------------
(* The wake-ups.                                                            *)

(* What a thread that waits, or sleeps, has to show for the rows in sight.  *)
Excused(w) ==
  /\ worker[w].seen <= sequence[ProcOf[w]]
  /\ At(w, "backoff") => worker[w].missed
  /\ ~worker[w].missed =>
       \A k \in Claimable : ProcOf[w] \in woken[k] =>
         /\ ~At(w, "asleep")
         /\ At(w, "wait") => worker[w].seen # sequence[ProcOf[w]]

LEMMA WakesAreExcuses == Wakes <=> LockedRows /\ WokenRows /\ \A w \in Worker : Excused(w)
  BY DEF Wakes, Excused, SeenIsPast, FailureIsKnown, WaitIsRefused, NoSleepOverWork

LEMMA WakesAreExcused ==
  ASSUME LockedRows', WokenRows', \A w \in Worker : Excused(w)'
  PROVE  Wakes'
  BY DEF Wakes, Excused, SeenIsPast, FailureIsKnown, WaitIsRefused, NoSleepOverWork

(* A thread needs no other excuse when it is the same, or is not about to   *)
(* wait, and no row has come in sight that its process was woken for.       *)
NoNewRows(p) == \A k \in Key : k \in Claimable' /\ p \in woken'[k] =>
                                k \in Claimable /\ p \in woken[k]

AtWork(w) == /\ worker[w].at \in {"starting", "loop", "claim", "claimed", "busy", "ended"}
             /\ worker[w].seen <= sequence[ProcOf[w]]

LEMMA ExcuseIsKept ==
  ASSUME NEW w \in Worker, Excused(w), NoNewRows(ProcOf[w]),
         worker'[w] = worker[w], sequence'[ProcOf[w]] = sequence[ProcOf[w]]
  PROVE  Excused(w)'
  <1>1. Claimable' \subseteq Key
    BY DEF Claimable
  <1> QED
    BY <1>1 DEF Excused, NoNewRows, At

LEMMA WorkIsExcuse ==
  ASSUME NEW w \in Worker, AtWork(w)'
  PROVE  Excused(w)'
  BY DEF Excused, AtWork, At

LEMMA LockedStay ==
  ASSUME LockedRows, WokenRows, UNCHANGED <<rows, lock, woken>>
  PROVE  LockedRows' /\ WokenRows' /\ \A p \in Proc : NoNewRows(p)
  BY DEF LockedRows, WokenRows, NoNewRows, Claimable

LEMMA WakesInit == Init => Answers /\ Wakes
  BY SubmissionAssumption
     DEF Init, Answers, Inserted, Found, AnswersStand, Busy, Wakes, LockedRows, WokenRows,
         SeenIsPast, FailureIsKnown, WaitIsRefused, NoSleepOverWork, Claimable, At, Fresh

LEMMA WakesSubmit ==
  ASSUME TypeOK, Answers, Wakes, NEW p \in Proc, Submit(p)
  PROVE  Wakes'
  <1> USE SubmissionAssumption
  <1>1. LockedRows /\ WokenRows /\ \A w \in Worker : Excused(w)
    BY WakesAreExcuses
  <1>2. CASE UNCHANGED <<rows, lock, woken, worker, sequence>>
    <2>1. LockedRows' /\ WokenRows' /\ \A q \in Proc : NoNewRows(q)
      BY <1>1, <1>2, LockedStay
    <2>2. \A w \in Worker : Excused(w)'
      BY <1>1, <1>2, <2>1, ExcuseIsKept
    <2> QED
      BY <2>1, <2>2, WakesAreExcused
  <1>3. CASE Commit(p) \/ CommitUnacknowledged(p)
    <2>1. /\ UNCHANGED <<lock, woken, worker, sequence>>
          /\ WriteRow(p) /\ (Busy(p, "created") \/ Busy(p, "found"))
      BY <1>3 DEF Commit, CommitUnacknowledged, threads
    <2>2. \A k \in Key : rows'[k] = rows[k]
              \/ /\ rows[k] = Absent
                 /\ rows'[k] # Absent /\ rows'[k].status = "requested"
      BY <2>1, WrittenRow DEF Answers, Inserted
    <2>3. LockedRows' /\ WokenRows' /\ \A q \in Proc : NoNewRows(q)
      <3>1. LockedRows'
        BY <1>1, <2>1, <2>2 DEF LockedRows
      <3>2. WokenRows'
        BY <1>1, <2>1, <2>2 DEF WokenRows
      <3>3. \A q \in Proc : NoNewRows(q)
        BY <1>1, <2>1, <2>2 DEF NoNewRows, Claimable, WokenRows
      <3> QED
        BY <3>1, <3>2, <3>3
    <2>4. \A w \in Worker : Excused(w)'
      BY <1>1, <2>1, <2>3, ExcuseIsKept
    <2> QED
      BY <2>3, <2>4, WakesAreExcused
  <1>4. CASE Wake(p)
    <2>1. UNCHANGED <<rows, lock>>
      BY <1>4 DEF Wake, stored
    <2>2. LockedRows'
      BY <1>1, <2>1 DEF LockedRows
    <2>3. WokenRows'
      BY <1>1, <1>4, <2>1 DEF WokenRows, Wake
    <2>4. /\ worker' = Notified(p)
          /\ sequence'[p] = sequence[p] + 1
          /\ \A q \in Proc : q # p => sequence'[q] = sequence[q]
      BY <1>4 DEF Wake, TypeOK
    <2>5. ASSUME NEW w \in Worker
          PROVE  Excused(w)'
      <3>1. worker[w] \in Thread /\ worker[w].seen \in Nat /\ sequence[p] \in Nat
        BY DEF TypeOK, Thread
      <3>2. CASE ProcOf[w] # p
        <4>1. worker'[w] = worker[w]
          BY <2>4, <3>2, NotifiedThreads
        <4>2. NoNewRows(ProcOf[w])
          BY <1>4, <2>1, <3>2 DEF Wake, NoNewRows, Claimable
        <4> QED
          BY <1>1, <2>4, <3>2, <4>1, <4>2, ExcuseIsKept
      <3>3. CASE ProcOf[w] = p
        <4>1. worker[w].seen < sequence'[p]
          BY <1>1, <2>4, <3>1, <3>3 DEF Excused
        <4>2. /\ worker'[w].seen < sequence'[p]
              /\ worker'[w].at \notin {"asleep", "backoff"}
          <5>1. CASE Waiting(w) /\ worker'[w] = Awake(w)
            BY <3>1, <4>1, <5>1, <2>4 DEF Awake, Fresh, Thread, Waiting
          <5>2. CASE ~Waiting(w) /\ worker'[w] = worker[w]
            BY <4>1, <5>2 DEF Waiting
          <5> QED
            BY <2>4, <3>3, <5>1, <5>2, NotifiedThreads
        <4>3. sequence'[p] \in Nat /\ worker'[w].seen \in Nat
          <5>1. worker' \in [Worker -> Thread]
            BY <2>4, NotifiedThreads
          <5> QED
            BY <2>4, <3>1, <5>1 DEF Thread
        <4> QED
          BY <3>3, <4>2, <4>3 DEF Excused, At
      <3> QED
        BY <3>2, <3>3
    <2> QED
      BY <2>2, <2>3, <2>5, WakesAreExcused
  <1> QED
    BY <1>2, <1>3, <1>4
       DEF Submit, Receive, ReadPromotion, ReadTargets, CreateOrGet, Raise, stored, threads

LEMMA WakesWork ==
  ASSUME TypeOK, Wakes, NEW w \in Worker, Work(w)
  PROVE  Wakes'
  <1> USE SubmissionAssumption
  <1>1. LockedRows /\ WokenRows /\ \A v \in Worker : Excused(v)
    BY WakesAreExcuses
  <1>2. /\ worker \in [Worker -> Thread] /\ worker[w] \in Thread
        /\ worker[w].seen \in Nat /\ sequence[ProcOf[w]] \in Nat
        /\ w # Nobody
    BY DEF TypeOK, Thread
  <1>3. sequence' = sequence /\ \A v \in Worker : v # w => worker'[v] = worker[v]
    BY <1>2 DEF Work, Start, ReadSequence, Claim, ClaimNothing, ClaimCommit, ClaimFails,
                WaitForWork, PollElapses, Process, Goto
  <1>4. LockedRows' /\ WokenRows' /\ \A q \in Proc : NoNewRows(q)
    <2>1. CASE UNCHANGED <<rows, lock, woken>>
      BY <1>1, <2>1, LockedStay
    <2>2. CASE \E k \in Key : Claim(w, k)
      <3> PICK k \in Key : Claim(w, k)
        BY <2>2
      <3>1. LockedRows'
        BY <1>1 DEF Claim, stored, LockedRows, Claimable, TypeOK
      <3>2. WokenRows'
        BY <1>1 DEF Claim, stored, WokenRows
      <3>3. \A q \in Proc : NoNewRows(q)
        BY <1>2 DEF Claim, stored, NoNewRows, Claimable, TypeOK
      <3> QED
        BY <3>1, <3>2, <3>3
    <2>3. CASE ClaimCommit(w) \/ ClaimFails(w)
      <3>1. /\ lock' = Freed(w) /\ rows' \in {rows, Taken(w)}
            /\ \A k \in Key : lock[k] # w => woken'[k] = woken[k]
            /\ \A k \in Key : lock[k] = w => woken'[k] = {} \/ rows' = Taken(w)
            /\ \A k \in Key : woken'[k] \subseteq woken[k]
        BY <2>3 DEF ClaimCommit, ClaimFails, TypeOK
      <3>2. \A k \in Key : /\ lock[k] = w => lock'[k] = Nobody
                           /\ lock[k] # w => lock'[k] = lock[k] /\ rows'[k] = rows[k]
                           /\ rows[k] = Absent => rows'[k] = Absent
                           /\ rows'[k] = Absent => rows[k] = Absent
                           /\ lock[k] = w /\ rows' = Taken(w) => rows'[k].status = "taken"
        BY <1>1, <3>1, TakenRows DEF Freed
      <3>3. LockedRows'
        BY <1>1, <3>2 DEF LockedRows
      <3>4. WokenRows'
        BY <1>1, <3>1, <3>2 DEF WokenRows
      <3>5. \A q \in Proc : NoNewRows(q)
        <4>1. ASSUME NEW q \in Proc, NEW k \in Key, k \in Claimable', q \in woken'[k]
              PROVE  k \in Claimable /\ q \in woken[k]
          <5>1. lock[k] # w
            BY <3>1, <3>2, <4>1 DEF Claimable
          <5> QED
            BY <3>1, <3>2, <4>1, <5>1 DEF Claimable
        <4> QED
          BY <4>1 DEF NoNewRows
      <3> QED
        BY <3>3, <3>4, <3>5
    <2> QED
      BY <2>1, <2>2, <2>3
         DEF Work, Start, ReadSequence, ClaimNothing, WaitForWork, PollElapses, Process, stored
  <1>5. ASSUME NEW v \in Worker, v # w
        PROVE  Excused(v)'
    BY <1>1, <1>3, <1>4, <1>5, ExcuseIsKept
  <1>6. Excused(w)'
    <2>1. worker[w].seen <= sequence[ProcOf[w]]
      BY <1>1 DEF Excused
    <2>2. CASE Start(w) \/ (\E k \in Key : Claim(w, k)) \/ ClaimCommit(w)
      <3>1. /\ worker'[w].at \in {"loop", "ended", "claimed", "busy"}
            /\ worker'[w].seen = worker[w].seen
        BY <1>2, <2>2 DEF Start, Claim, ClaimCommit, Goto, Thread
      <3>2. AtWork(w)'
        BY <1>3, <2>1, <3>1 DEF AtWork
      <3> QED
        BY <3>2, WorkIsExcuse
    <2>3. CASE ReadSequence(w)
      <3>1. AtWork(w)'
        <4>1. CASE up[ProcOf[w]]
          <5>1. worker'[w] = [at |-> "claim", seen |-> sequence[ProcOf[w]],
                              missed |-> FALSE]
            BY <1>2, <2>3, <4>1 DEF ReadSequence
          <5> QED
            BY <1>2, <1>3, <5>1 DEF AtWork
        <4>2. CASE ~up[ProcOf[w]]
          <5>1. worker'[w].at = "ended" /\ worker'[w].seen = worker[w].seen
            BY <1>2, <2>3, <4>2 DEF ReadSequence, Goto, Thread
          <5> QED
            BY <1>3, <2>1, <5>1 DEF AtWork
        <4> QED
          BY <4>1, <4>2
      <3> QED
        BY <3>1, WorkIsExcuse
    <2>4. CASE Process(w)
      <3>1. AtWork(w)'
        BY <1>2, <1>3, <2>4 DEF Process, Fresh, AtWork
      <3> QED
        BY <3>1, WorkIsExcuse
    <2>5. CASE ClaimNothing(w)
      <3>1. /\ Claimable' = {}
            /\ worker'[w].seen = worker[w].seen /\ worker'[w].at = "wait"
        BY <1>2, <2>5 DEF ClaimNothing, Claimable, stored, Goto, Thread
      <3> QED
        BY <1>3, <2>1, <3>1 DEF Excused, At
    <2>6. CASE ClaimFails(w)
      <3>1. worker'[w].missed /\ worker'[w].seen = worker[w].seen
        BY <1>2, <2>6 DEF ClaimFails, Thread
      <3> QED
        BY <1>3, <2>1, <3>1 DEF Excused
    <2>7. CASE WaitForWork(w)
      <3>1. CASE MayWait(w)
        <4>1. /\ worker'[w].seen = worker[w].seen /\ worker'[w].missed = worker[w].missed
              /\ At(w, "wait") /\ worker[w].seen = sequence[ProcOf[w]]
              /\ worker'[w].at = "asleep"
          BY <1>2, <2>7, <3>1 DEF WaitForWork, Goto, MayWait, Thread
        <4>2. Claimable' = Claimable /\ woken' = woken
          BY <2>7 DEF WaitForWork, Claimable, stored
        <4> QED
          BY <1>1, <1>3, <4>1, <4>2 DEF Excused, At
      <3>2. CASE ~MayWait(w)
        <4>1. AtWork(w)'
          BY <1>2, <1>3, <2>7, <3>2 DEF WaitForWork, Fresh, AtWork
        <4> QED
          BY <4>1, WorkIsExcuse
      <3> QED
        BY <3>1, <3>2
    <2>8. CASE PollElapses(w)
      <3>1. CASE worker[w].at = "backoff"
        <4>1. worker'[w] = [worker[w] EXCEPT !.at = "wait"]
          BY <1>2, <2>8, <3>1 DEF PollElapses, Awake
        <4>2. worker'[w].missed = worker[w].missed /\ worker'[w].seen = worker[w].seen
          BY <1>2, <4>1 DEF Thread
        <4>3. worker[w].missed
          BY <1>1, <3>1 DEF Excused, At
        <4> QED
          BY <1>3, <2>1, <4>2, <4>3 DEF Excused
      <3>2. CASE worker[w].at # "backoff"
        <4>1. AtWork(w)'
          BY <1>2, <1>3, <2>8, <3>2 DEF PollElapses, Awake, Fresh, AtWork
        <4> QED
          BY <4>1, WorkIsExcuse
      <3> QED
        BY <3>1, <3>2
    <2> QED
      BY <2>2, <2>3, <2>4, <2>5, <2>6, <2>7, <2>8 DEF Work
  <1> QED
    BY <1>4, <1>5, <1>6, WakesAreExcused

LEMMA WakesOther ==
  ASSUME TypeOK, Wakes,
         \/ Change
         \/ \E p \in Proc : Shutdown(p) \/ Crash(p)
         \/ UNCHANGED vars
  PROVE  Wakes'
  <1> USE SubmissionAssumption
  <1>1. LockedRows /\ WokenRows /\ \A w \in Worker : Excused(w)
    BY WakesAreExcuses
  <1>2. \A w \in Worker : worker[w] \in Thread /\ worker[w].seen \in Nat
    BY DEF TypeOK, Thread
  <1>3. CASE Change \/ UNCHANGED vars
    <2>1. UNCHANGED <<rows, lock, woken, worker, sequence>>
      BY <1>3 DEF Change, vars, stored, threads
    <2>2. LockedRows' /\ WokenRows' /\ \A q \in Proc : NoNewRows(q)
      BY <1>1, <2>1, LockedStay
    <2>3. \A w \in Worker : Excused(w)'
      BY <1>1, <2>1, <2>2, ExcuseIsKept
    <2> QED
      BY <2>2, <2>3, WakesAreExcused
  <1>4. CASE \E p \in Proc : Shutdown(p)
    <2> PICK p \in Proc : Shutdown(p)
      BY <1>4
    <2>1. UNCHANGED <<rows, lock, woken, sequence>> /\ worker' = Notified(p)
      BY DEF Shutdown, stored
    <2>2. LockedRows' /\ WokenRows' /\ \A q \in Proc : NoNewRows(q)
      BY <1>1, <2>1, LockedStay
    <2>3. ASSUME NEW w \in Worker
          PROVE  Excused(w)'
      <3>1. CASE worker'[w] = worker[w]
        BY <1>1, <2>1, <2>2, <3>1, ExcuseIsKept
      <3>2. CASE Waiting(w) /\ worker'[w] = Awake(w)
        <4>1. CASE At(w, "backoff")
          <5>1. /\ worker'[w].missed = worker[w].missed
                /\ worker'[w].seen = worker[w].seen
            BY <1>2, <3>2, <4>1 DEF Awake, At, Thread
          <5> QED
            BY <1>1, <2>1, <4>1, <5>1 DEF Excused
        <4>2. CASE ~At(w, "backoff")
          <5>1. worker'[w].at = "loop" /\ worker'[w].seen = 0
            BY <3>2, <4>2 DEF Awake, At, Fresh
          <5>2. sequence'[ProcOf[w]] \in Nat
            BY <2>1 DEF TypeOK
          <5> QED
            BY <5>1, <5>2, WorkIsExcuse DEF AtWork
        <4> QED
          BY <4>1, <4>2
      <3> QED
        BY <2>1, <3>1, <3>2, NotifiedThreads
    <2> QED
      BY <2>2, <2>3, WakesAreExcused
  <1>5. CASE \E p \in Proc : Crash(p)
    <2> PICK p \in Proc : Crash(p)
      BY <1>5
    <2>1. /\ rows' = rows
          /\ \A k \in Key :
               \/ lock'[k] = Nobody /\ woken'[k] = {}
               \/ lock'[k] = lock[k] /\ woken'[k] = woken[k] \ {p}
          /\ \A w \in Worker : ProcOf[w] # p => worker'[w] = worker[w]
          /\ \A w \in Worker : ProcOf[w] = p => worker'[w] = Fresh("starting")
          /\ \A q \in Proc : q # p => sequence'[q] = sequence[q]
          /\ sequence'[p] = 0
      BY DEF Crash, stored, TypeOK
    <2>2. LockedRows'
      BY <1>1, <2>1 DEF LockedRows
    <2>3. WokenRows'
      BY <1>1, <2>1 DEF WokenRows
    <2>4. \A q \in Proc : NoNewRows(q)
      BY <2>1 DEF NoNewRows, Claimable
    <2>5. ASSUME NEW w \in Worker
          PROVE  Excused(w)'
      <3>1. CASE ProcOf[w] # p
        BY <1>1, <2>1, <2>4, <3>1, ExcuseIsKept
      <3>2. CASE ProcOf[w] = p
        <4>1. worker'[w].at = "starting" /\ worker'[w].seen = 0
          BY <2>1, <3>2 DEF Fresh
        <4> QED
          BY <2>1, <3>2, <4>1, WorkIsExcuse DEF AtWork
      <3> QED
        BY <3>1, <3>2
    <2> QED
      BY <2>2, <2>3, <2>5, WakesAreExcused
  <1> QED
    BY <1>3, <1>4, <1>5

-----------------------------------------------------------------------------
LEMMA Invariance == Spec => []IInv
  <1>1. Init => IInv
    BY TypeInit, WakesInit DEF IInv
  <1>2. IInv /\ [Next]_vars => IInv'
    <2> SUFFICES ASSUME IInv, [Next]_vars
                 PROVE  IInv'
      OBVIOUS
    <2>1. TypeOK /\ Answers /\ Wakes /\ LockedRows
      BY DEF IInv, Wakes
    <2>2. CASE \E p \in Proc : Submit(p)
      BY <2>1, <2>2, TypeSubmit, AnswersSubmit, WakesSubmit DEF IInv
    <2>3. CASE \E w \in Worker : Work(w)
      BY <2>1, <2>3, TypeWork, AnswersOther, WakesWork DEF IInv
    <2>4. CASE Change \/ (\E p \in Proc : Shutdown(p) \/ Crash(p)) \/ UNCHANGED vars
      BY <2>1, <2>4, TypeOther, AnswersOther, WakesOther DEF IInv
    <2> QED
      BY <2>2, <2>3, <2>4 DEF Next
  <1> QED
    BY <1>1, <1>2, PTL DEF Spec

(* Every reachable state is well typed.                                     *)
THEOREM TypeCorrect == Spec => []TypeOK
  BY Invariance, PTL DEF IInv

(* An accepted request is the one run of its key, made from the inputs it   *)
(* was accepted with, and a conflict was about a run made from others: for  *)
(* any number of keys, bodies, processes, edits, crashes and lost answers.  *)
THEOREM AnswersAreTrue == Spec => []AnswersStand
  BY Invariance, PTL DEF IInv, Answers

(* No wake-up is lost between the claim and the wait of a worker thread:    *)
(* none sleeps over a row its process was woken for.                        *)
THEOREM NoLostWakeUp == Spec => []NoSleepOverWork
  BY Invariance, PTL DEF IInv, Wakes

=============================================================================
