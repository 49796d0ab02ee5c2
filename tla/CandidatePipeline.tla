-------------------------- MODULE CandidatePipeline --------------------------
(***************************************************************************)
(* How the attempts of one durable generation run build its HTML           *)
(* candidates (execute_durable in app/generation/service.py, the adapters  *)
(* and the S3 storage of app/generation/adapters.py): source text from the *)
(* text provider, kept in a write-once manifest; an image, kept under a    *)
(* key per media type; the rendered page, write-once too; and a checkpoint *)
(* of the candidate's row after each stage, under the lease fence.         *)
(*                                                                         *)
(* An attempt that has lost its lease goes on until a checkpoint is        *)
(* refused, so attempts overlap.  Their object store knows no fence.       *)
(*                                                                         *)
(* What a provider returns is named by the attempt that asked for it.  A   *)
(* rendered page is determined by the text and by the image's URL, hence   *)
(* by its media type.  A manifest or an image that is stored while the     *)
(* answer is lost is Keep or Store followed by the failure of the next     *)
(* call; a page or a checkpoint has its own action for that.               *)
(***************************************************************************)
EXTENDS Naturals, FiniteSets

CONSTANTS Candidate,    \* content candidates of the run
          MediaTypes,   \* images are looked up in the order 1, 2, ...
          MaxAttempts,  \* max_retries + 1
          MaxParallel   \* MAX_DURABLE_CANDIDATE_WORKERS

ASSUME PipelineAssumption == /\ MediaTypes \in Nat \ {0}
                             /\ MaxAttempts \in Nat \ {0}
                             /\ MaxParallel \in Nat \ {0}

Attempt == 1 .. MaxAttempts
Media == 1 .. MediaTypes
None == 0

VARIABLES status,   \* generation_runs.status
          claims,   \* number of attempts so far
          holder,   \* the attempt with the live lease, or None
          row,      \* content_candidates
          source,   \* S3 manifests: who wrote the text, None if absent
          images,   \* S3 images per media type: who painted it
          html,     \* S3 pages
          attempt,  \* main thread of each attempt
          task      \* candidate build task of each attempt

storage == <<source, images, html>>
run == <<status, claims, holder>>
vars == <<status, claims, holder, row, source, images, html, attempt, task>>

Images == [media : Media \cup {None}, by : Attempt \cup {None}]
NoImage == [media |-> None, by |-> None]
Pages == [text : Attempt, media : Media]
NoPage == [text |-> None, media |-> None]

(* What image_generation_status, artifact_status and artifact_error_code    *)
(* say of a candidate's row.                                                *)
Stages == {"absent", "source", "image", "failed", "conflict", "published"}
Rows == [stage : Stages, text : Attempt \cup {None}, image : Images]
AbsentRow == [stage |-> "absent", text |-> None, image |-> NoImage]

Calls == {"recall", "write", "keep", "find", "paint", "store"}
Checkpoints == {"draft", "imaged", "final", "reject"}
Ended == {"done", "failed", "cancelled"}
Places == {"none", "waiting", "publish"} \cup Calls \cup Checkpoints \cup Ended
Errors == {"none", "retryable", "permanent", "conflict"}

(* A task that waits has the stage, text and image of the loaded row, one   *)
(* that is done those of the record it returns.  While it looks for an      *)
(* image, image.media is the last media type looked up in vain.             *)
Tasks == [at : Places, stage : Stages, text : Attempt \cup {None},
          image : Images, error : Errors]
Idle(at, error) == [at |-> at, stage |-> "absent", text |-> None,
                    image |-> NoImage, error |-> error]
NoTasks == [c \in Candidate |-> Idle("none", "none")]
Attempts == [phase : {"unborn", "loading", "building", "draining", "over"},
             error : {"none", "retryable", "permanent"}]

(* Only the last attempt can hold the lease, and only of a running run.     *)
TypeOK == /\ status \in {"requested", "running", "completed", "failed"}
          /\ claims \in Attempt \cup {None}
          /\ holder = IF status = "running" THEN claims ELSE None
          /\ row \in [Candidate -> Rows]
          /\ source \in [Candidate -> Attempt \cup {None}]
          /\ images \in [Candidate -> [Media -> Attempt \cup {None}]]
          /\ html \in [Candidate -> Pages \cup {NoPage}]
          /\ attempt \in [Attempt -> Attempts]
          /\ task \in [Attempt -> [Candidate -> Tasks]]

Init == /\ status = "requested"
        /\ claims = None
        /\ holder = None
        /\ row = [c \in Candidate |-> AbsentRow]
        /\ source = [c \in Candidate |-> None]
        /\ images = [c \in Candidate |-> [m \in Media |-> None]]
        /\ html = [c \in Candidate |-> NoPage]
        /\ attempt = [a \in Attempt |-> [phase |-> "unborn", error |-> "none"]]
        /\ task = [a \in Attempt |-> NoTasks]

-----------------------------------------------------------------------------
(* Attempts of the run.                                                     *)

Claim(a) == /\ status = "requested"
            /\ a = claims + 1
            /\ status' = "running"
            /\ claims' = a
            /\ holder' = a
            /\ attempt' = [attempt EXCEPT ![a].phase = "loading"]
            /\ UNCHANGED <<row, storage, task>>

(* What follows an attempt without a result.                                *)
Requeued == IF claims < MaxAttempts THEN "requested" ELSE "failed"

(* The lease runs out, or its process dies, and the run is recovered.       *)
LoseLease == /\ holder # None
             /\ holder' = None
             /\ status' = Requeued
             /\ UNCHANGED <<claims, row, storage, attempt, task>>

(* _load_existing_candidates, and one task per candidate.                   *)
LoadExistingCandidates(a) ==
  /\ attempt[a].phase = "loading"
  /\ attempt' = [attempt EXCEPT ![a].phase = "building"]
  /\ task' = [task EXCEPT ![a] =
                [c \in Candidate |->
                   [at |-> "waiting", stage |-> row[c].stage, text |-> row[c].text,
                    image |-> row[c].image, error |-> "none"]]]
  /\ UNCHANGED <<run, row, storage>>

(* The main thread sees one of the failed tasks first, cancels those that   *)
(* have not started and waits for the others.  Its error is the run's.      *)
ObserveFailure(a, c) ==
  /\ attempt[a].phase = "building"
  /\ task[a][c].at = "failed"
  /\ attempt' = [attempt EXCEPT ![a] =
                   [phase |-> "draining",
                    error |-> IF task[a][c].error = "permanent"
                              THEN "permanent" ELSE "retryable"]]
  /\ task' = [task EXCEPT ![a] =
                [d \in Candidate |->
                   IF task[a][d].at = "waiting" THEN Idle("cancelled", "none")
                   ELSE task[a][d]]]
  /\ UNCHANGED <<run, row, storage>>

Give(a, error) ==
  attempt' = [attempt EXCEPT ![a] = [phase |-> "draining", error |-> error]]

(* Mutant: a failed candidate is left out of the results.                   *)
MutantAllDone(a) == /\ attempt[a].phase = "building"
                    /\ \A c \in Candidate : task[a][c].at \in Ended
                    /\ \E c \in Candidate : task[a][c].at = "done"

AllDone(a) == /\ attempt[a].phase = "building"
              /\ \A c \in Candidate : task[a][c].at = "done"

(* The record that a task returns.                                          *)
Result(t) == [stage |-> t.stage, text |-> t.text, image |-> t.image]

(* The readiness gate of the completion, over the rows of the run.          *)
Ready(rows) == \A c \in Candidate : rows[c].stage = "published"

(* The attempt is over; its tasks and its error are forgotten.              *)
End(a) == /\ attempt' = [attempt EXCEPT ![a] = [phase |-> "over", error |-> "none"]]
          /\ task' = [task EXCEPT ![a] = NoTasks]

(* _persist_success: every result is written again, and the run completed   *)
(* if the lease is still held and all rows are ready.  If not, the          *)
(* transaction is rolled back, and the error is a permanent one.            *)
PersistSuccess(a) ==
  LET written == [c \in Candidate |-> Result(task[a][c])] IN
  /\ AllDone(a)
  /\ IF holder = a /\ Ready(written)
     THEN /\ row' = written
          /\ status' = "completed"
          /\ holder' = None
          /\ End(a)
     ELSE Give(a, "permanent") /\ UNCHANGED <<row, status, holder, task>>
  /\ UNCHANGED <<claims, storage>>

PersistFails(a, error) == /\ AllDone(a)
                          /\ Give(a, error)
                          /\ UNCHANGED <<run, row, storage, task>>

(* Mutant: the failure of a late attempt is recorded too.                   *)
MutantRecordFailure(a) ==
  /\ attempt[a].phase = "draining"
  /\ \A c \in Candidate : task[a][c].at \in Ended
  /\ End(a)
  /\ status' = IF attempt[a].error = "retryable" THEN Requeued ELSE "failed"
  /\ holder' = IF holder = a THEN None ELSE holder
  /\ UNCHANGED <<claims, row, storage>>

(* _record_failure, once every task has ended.                              *)
RecordFailure(a) ==
  /\ attempt[a].phase = "draining"
  /\ \A c \in Candidate : task[a][c].at \in Ended
  /\ End(a)
  /\ IF holder = a
     THEN /\ holder' = None
          /\ status' = IF attempt[a].error = "retryable" THEN Requeued ELSE "failed"
     ELSE UNCHANGED <<status, holder>>
  /\ UNCHANGED <<claims, row, storage>>

-----------------------------------------------------------------------------
(* The task of one candidate: _build_content_candidate_record.              *)

(* Mutant: a published candidate is built again.                            *)
MutantResume(stage) ==
  CASE stage \in {"absent", "conflict", "published"} -> "recall"
    [] stage = "source"                              -> "find"
    [] stage \in {"image", "failed"}                 -> "publish"

(* Where the row of an earlier attempt lets the task begin: _candidate_is_  *)
(* ready, _candidate_can_resume_image, _candidate_can_resume_artifact.      *)
Resume(stage) ==
  CASE stage = "published"              -> "done"
    [] stage = "source"                 -> "find"
    [] stage \in {"image", "failed"}    -> "publish"
    [] stage \in {"absent", "conflict"} -> "recall"

Become(a, c, new) == task' = [task EXCEPT ![a][c] = new]

Started(a) ==
  {c \in Candidate : task[a][c].at \notin {"none", "waiting"} \cup Ended}

(* A ready candidate is returned as it was loaded; one that is built anew   *)
(* begins with nothing.                                                     *)
StartTask(a, c) ==
  LET t == task[a][c]
      at == Resume(t.stage) IN
  /\ attempt[a].phase = "building"
  /\ t.at = "waiting"
  /\ Cardinality(Started(a)) < MaxParallel
  /\ Become(a, c, CASE at = "done"   -> [t EXCEPT !.at = at]
                     [] at = "recall" -> Idle(at, "none")
                     [] OTHER         -> [t EXCEPT !.at = at, !.stage = "absent"])
  /\ UNCHANGED <<run, row, storage, attempt>>

(* generate_source: the manifest of an earlier attempt, if there is one.    *)
(* (No page is stored before its manifest: see StoredInOrder.)              *)
Recall(a, c) ==
  /\ task[a][c].at = "recall"
  /\ Become(a, c, IF source[c] = None
                  THEN [task[a][c] EXCEPT !.at = "write"]
                  ELSE [task[a][c] EXCEPT !.at = "draft", !.text = source[c]])
  /\ UNCHANGED <<run, row, storage, attempt>>

(* Mutant: the text is checkpointed without a manifest.                     *)
MutantWrite(a, c) ==
  /\ task[a][c].at = "write"
  /\ Become(a, c, [task[a][c] EXCEPT !.at = "draft", !.text = a])
  /\ UNCHANGED <<run, row, storage, attempt>>

(* The text provider.                                                       *)
Write(a, c) ==
  /\ task[a][c].at = "write"
  /\ Become(a, c, [task[a][c] EXCEPT !.at = "keep", !.text = a])
  /\ UNCHANGED <<run, row, storage, attempt>>

(* Mutant: the content of this attempt is used whatever is stored.          *)
MutantKeep(a, c) ==
  /\ task[a][c].at = "keep"
  /\ source' = IF source[c] = None THEN [source EXCEPT ![c] = task[a][c].text]
               ELSE source
  /\ Become(a, c, [task[a][c] EXCEPT !.at = "draft"])
  /\ UNCHANGED <<run, row, images, html, attempt>>

(* store_source_manifest with IfNoneMatch="*": the first writer wins, and   *)
(* the others take its content.                                             *)
Keep(a, c) ==
  /\ task[a][c].at = "keep"
  /\ source' = IF source[c] = None THEN [source EXCEPT ![c] = task[a][c].text]
               ELSE source
  /\ Become(a, c, [task[a][c] EXCEPT !.at = "draft", !.text = source'[c]])
  /\ UNCHANGED <<run, row, images, html, attempt>>

(* find_image asks for one media type after the other, while other attempts *)
(* may store.  It ends with the first that is stored, or with none: when    *)
(* all are absent, or when storage answers "forbidden" for one that is.     *)
Find(a, c) ==
  LET t == task[a][c]
      m == t.image.media + 1
      stored == m \in Media /\ images[c][m] # None IN
  /\ t.at = "find"
  /\ \/ /\ stored
        /\ Become(a, c, [t EXCEPT !.at = "imaged",
                                  !.image = [media |-> m, by |-> images[c][m]]])
     \/ /\ m + 1 \in Media /\ ~stored
        /\ Become(a, c, [t EXCEPT !.image.media = m])
     \/ /\ ~stored
        /\ Become(a, c, [t EXCEPT !.at = "paint", !.image = NoImage])
  /\ UNCHANGED <<run, row, storage, attempt>>

(* The image provider, which chooses the media type.                        *)
Paint(a, c) ==
  /\ task[a][c].at = "paint"
  /\ \E m \in Media :
       Become(a, c, [task[a][c] EXCEPT !.at = "store",
                                       !.image = [media |-> m, by |-> a]])
  /\ UNCHANGED <<run, row, storage, attempt>>

(* Mutant: the image is not checkpointed before the page is published.      *)
MutantStore(a, c) ==
  LET image == task[a][c].image IN
  /\ task[a][c].at = "store"
  /\ images' = IF images[c][image.media] = None
               THEN [images EXCEPT ![c][image.media] = image.by] ELSE images
  /\ Become(a, c, [task[a][c] EXCEPT !.at = "publish",
                                     !.image.by = images'[c][image.media]])
  /\ UNCHANGED <<run, row, source, html, attempt>>

(* store_image: write-once, and an image already there is accepted.         *)
Store(a, c) ==
  LET image == task[a][c].image IN
  /\ task[a][c].at = "store"
  /\ images' = IF images[c][image.media] = None
               THEN [images EXCEPT ![c][image.media] = image.by] ELSE images
  /\ Become(a, c, [task[a][c] EXCEPT !.at = "imaged",
                                     !.image.by = images'[c][image.media]])
  /\ UNCHANGED <<run, row, source, html, attempt>>

(* A page is identified by what it is rendered from.                        *)
Page(t) == [text |-> t.text, media |-> t.image.media]

(* store_html: write-once; another page under the key is a hash conflict.   *)
Publish(a, c) ==
  LET page == Page(task[a][c]) IN
  /\ task[a][c].at = "publish"
  /\ html' = IF html[c] = NoPage THEN [html EXCEPT ![c] = page] ELSE html
  /\ Become(a, c, IF html'[c] = page
                  THEN [task[a][c] EXCEPT !.at = "final"]
                  ELSE [task[a][c] EXCEPT !.at = "reject", !.error = "conflict"])
  /\ UNCHANGED <<run, row, source, images, attempt>>

(* Rendering or storing the page raises, be it after the page was stored.   *)
(* The failure is checkpointed next.                                        *)
PublishFails(a, c, error) ==
  /\ task[a][c].at = "publish"
  /\ \/ UNCHANGED html
     \/ /\ html[c] = NoPage
        /\ html' = [html EXCEPT ![c] = Page(task[a][c])]
  /\ Become(a, c, [task[a][c] EXCEPT !.at = "reject", !.error = error])
  /\ UNCHANGED <<run, row, source, images, attempt>>

(* A call of a provider or of the storage raises.                           *)
CallFails(a, c, error) ==
  /\ task[a][c].at \in Calls
  /\ Become(a, c, Idle("failed", error))
  /\ UNCHANGED <<run, row, storage, attempt>>

(* The row a checkpoint writes, and where the task goes on.                 *)
Checkpointed(t) ==
  [stage |-> CASE t.at = "draft"  -> "source"
               [] t.at = "imaged" -> "image"
               [] t.at = "final"  -> "published"
               [] t.at = "reject" -> IF t.error = "conflict" THEN "conflict"
                                     ELSE "failed",
   text |-> t.text,
   image |-> IF t.at = "draft" THEN NoImage ELSE t.image]

AfterCheckpoint(t) == CASE t.at = "draft"  -> [t EXCEPT !.at = "find"]
                        [] t.at = "imaged" -> [t EXCEPT !.at = "publish"]
                        [] t.at = "final"  -> [t EXCEPT !.at = "done",
                                                     !.stage = "published"]
                        [] t.at = "reject" -> Idle("failed", t.error)

(* Mutant: the upsert is not fenced.                                        *)
MutantCheckpoint(a, c) ==
  /\ task[a][c].at \in Checkpoints
  /\ row' = [row EXCEPT ![c] = Checkpointed(task[a][c])]
  /\ Become(a, c, AfterCheckpoint(task[a][c]))
  /\ UNCHANGED <<run, storage, attempt>>

(* checkpoint(candidate): an upsert under the lease fence.  A refusal is a  *)
(* permanent error.                                                         *)
Checkpoint(a, c) ==
  LET t == task[a][c] IN
  /\ t.at \in Checkpoints
  /\ IF holder = a
     THEN /\ row' = [row EXCEPT ![c] = Checkpointed(t)]
          /\ Become(a, c, AfterCheckpoint(t))
     ELSE /\ Become(a, c, Idle("failed", "permanent"))
          /\ UNCHANGED row
  /\ UNCHANGED <<run, storage, attempt>>

(* The connection of the checkpoint is lost, before its commit or after:    *)
(* a retryable error.  (Any other error of the database is permanent and    *)
(* leaves the row alone, as a refusal does; it is left out.)                *)
CheckpointFails(a, c) ==
  LET t == task[a][c] IN
  /\ t.at \in Checkpoints
  /\ \/ UNCHANGED row
     \/ holder = a /\ row' = [row EXCEPT ![c] = Checkpointed(t)]
  /\ Become(a, c, Idle("failed", "retryable"))
  /\ UNCHANGED <<run, storage, attempt>>

TaskStep(a, c) ==
  \/ StartTask(a, c) \/ Recall(a, c) \/ Write(a, c) \/ Keep(a, c)
  \/ Find(a, c) \/ Paint(a, c) \/ Store(a, c) \/ Publish(a, c)
  \/ Checkpoint(a, c) \/ CheckpointFails(a, c)
  \/ \E e \in {"retryable", "permanent"} : PublishFails(a, c, e) \/ CallFails(a, c, e)

AttemptStep(a) ==
  \/ Claim(a) \/ LoadExistingCandidates(a)
  \/ PersistSuccess(a) \/ RecordFailure(a)
  \/ \E c \in Candidate : ObserveFailure(a, c)
  \/ \E e \in {"retryable", "permanent"} : PersistFails(a, e)

Next == \/ LoseLease
        \/ \E a \in Attempt : AttemptStep(a) \/ \E c \in Candidate : TaskStep(a, c)

Spec == Init /\ [][Next]_vars

-----------------------------------------------------------------------------
(* Properties.                                                              *)

(* A page is stored after the manifest of its text and the image it shows:  *)
(* whatever dies in between, a later attempt finds both.                    *)
StoredInOrder ==
  \A c \in Candidate : html[c] # NoPage => /\ source[c] = html[c].text
                                           /\ images[c][html[c].media] # None

(* A row says what the object store holds, although the store is written    *)
(* without a fence by attempts that have lost their lease: its text is the  *)
(* manifest's, its image the stored one, and a published row's page is the  *)
(* page rendered from them.                                                 *)
RowsMatchStorage ==
  \A c \in Candidate :
    LET r == row[c] IN
    /\ r.stage # "absent" => r.text = source[c] /\ r.text # None
    /\ r.stage \notin {"absent", "source"} =>
         /\ r.image.media \in Media
         /\ r.image.by = images[c][r.image.media]
         /\ r.image.by # None
    /\ r.stage = "published" => html[c] = Page(r)

(* When an attempt has all its results together and still has the lease, the *)
(* rows are those very results, published, whichever attempts have built    *)
(* them and whatever failed on the way: writing them again changes nothing, *)
(* and the readiness gate does not refuse the run for good.                 *)
BuiltIsReady ==
  \A a \in Attempt :
    AllDone(a) /\ holder = a =>
      /\ Ready(row)
      /\ \A c \in Candidate : row[c] = Result(task[a][c])

(* The page in the object store is always the page of the candidate's row,  *)
(* even when an attempt that lost its lease has put it there: the fenced    *)
(* checkpoint of the image comes first.                                     *)
PageFollowsRow ==
  \A c \in Candidate : html[c] # NoPage => html[c] = Page(row[c])

(* So no two attempts ever render different pages of a candidate, although  *)
(* the providers answer differently each time: the hash conflict that the   *)
(* code handles never happens to attempts of one run.                       *)
NoHashConflict ==
  \A a \in Attempt, c \in Candidate : task[a][c].error # "conflict"

Rank(stage) == CASE stage = "absent" -> 0
                 [] stage = "source" -> 1
                 [] stage \in {"image", "failed", "conflict"} -> 2
                 [] stage = "published" -> 3

(* No checkpoint undoes progress: a published candidate stays as it is, and *)
(* a row never falls back to an earlier stage.                              *)
ProgressIsKept ==
  [][\A c \in Candidate :
       /\ row[c].stage = "published" => row'[c] = row[c]
       /\ Rank(row'[c].stage) >= Rank(row[c].stage)]_vars
=============================================================================
