----------------------- MODULE CandidatePipelineProofs -----------------------
(***************************************************************************)
(* Theorems about CandidatePipeline, for any set of candidates and any     *)
(* number of attempts, media types and parallel tasks.  The argument: once *)
(* a row has its image it is frozen but for its stage, because its holder  *)
(* never goes back; so a task that has passed the image checkpoint, be it  *)
(* of a late attempt, still agrees with the row, and whatever page it      *)
(* stores is the row's.                                                    *)
(***************************************************************************)
EXTENDS CandidatePipeline, TLAPS

USE PipelineAssumption DEF None

(* The text of a task, or of a row, is the one of the manifest. *)
TextKept(t, c) == t.text # None /\ t.text = source[c]

(* Its image is a stored one. *)
ImageKept(t, c) == /\ t.image.media \in Media
                   /\ t.image.by # None
                   /\ t.image.by = images[c][t.image.media]

Imaged == {"image", "failed", "published"}

(* The row has an image, and the content of the task. *)
Frozen(t, c) == /\ row[c].stage \in Imaged
                /\ row[c].text = t.text
                /\ row[c].image = t.image

(* A row and the page in the object store. *)
RowGood(c) ==
  /\ row[c].stage # "conflict"
  /\ row[c].stage # "absent" => TextKept(row[c], c)
  /\ row[c].stage \in Imaged => ImageKept(row[c], c)
  /\ row[c].stage = "published" => html[c] # NoPage
  /\ html[c] # NoPage => row[c].stage \in Imaged /\ html[c] = Page(row[c])

(* What any task knows. *)
Waiting(t, c) ==
  /\ t.stage # "absent" => TextKept(t, c)
  /\ t.stage \in Imaged => Frozen(t, c)
  /\ t.stage = "published" => row[c].stage = "published"

Known(t, c) ==
  /\ t.error # "conflict" /\ t.stage # "conflict"
  /\ t.at = "waiting" => Waiting(t, c)
  /\ t.at = "keep" => t.text # None
  /\ t.at \in {"draft", "find", "paint", "store", "imaged"} => TextKept(t, c)
  /\ t.at = "store" => t.image.media \in Media /\ t.image.by # None
  /\ t.at = "imaged" => ImageKept(t, c)
  /\ t.at \in {"publish", "final", "reject", "done"} => Frozen(t, c)
  /\ t.at = "final" => html[c] # NoPage
  /\ t.at = "done" => t.stage = "published" /\ row[c].stage = "published"

(* How far the row is while the lease is held. *)
Held(t, c) ==
  /\ t.at = "waiting" => row[c].stage = t.stage
  /\ t.at \in {"recall", "write", "keep", "draft"} => row[c].stage = "absent"
  /\ t.at \in {"find", "paint", "store", "imaged"} => row[c].stage = "source"
  /\ t.at \in {"publish", "final", "reject"} => row[c].stage # "published"

TaskGood(a, c) == /\ Known(task[a][c], c)
                  /\ holder = a => Held(task[a][c], c)

(* Attempts not begun have no task, nor have those that are over. *)
AttemptGood(a) ==
  /\ a > claims => attempt[a].phase = "unborn"
  /\ attempt[a].phase \in {"unborn", "loading", "over"} =>
       \A c \in Candidate : task[a][c].at = "none"

(* The inductive invariant. *)
IInv == /\ TypeOK
        /\ \A c \in Candidate : RowGood(c)
        /\ \A a \in Attempt, c \in Candidate : TaskGood(a, c)
        /\ \A a \in Attempt : AttemptGood(a)

LEMMA Initially == Init => IInv
<1> SUFFICES ASSUME Init PROVE IInv
  OBVIOUS
<1>1. TypeOK
  BY DEF Init, TypeOK, Rows, Stages, AbsentRow, Images, NoImage, Pages, NoPage,
         Attempts, Attempt, Tasks, NoTasks, Idle, Places, Errors, Media
<1>2. \A c \in Candidate : RowGood(c)
  BY DEF Init, RowGood, AbsentRow, Imaged, NoPage
<1>3. \A a \in Attempt, c \in Candidate : TaskGood(a, c)
  BY DEF Init, TaskGood, Known, Held, NoTasks, Idle
<1>4. \A a \in Attempt : AttemptGood(a)
  BY DEF Init, AttemptGood, NoTasks, Idle
<1> QED  BY <1>1, <1>2, <1>3, <1>4 DEF IInv

-----------------------------------------------------------------------------
(* Steps of one task. *)

(* The storage is written once, and pages only as the rows say. *)
Grows ==
  /\ source' \in [Candidate -> Attempt \cup {None}]
  /\ images' \in [Candidate -> [Media -> Attempt \cup {None}]]
  /\ html' \in [Candidate -> Pages \cup {NoPage}]
  /\ \A c \in Candidate : source[c] # None => source'[c] = source[c]
  /\ \A c \in Candidate, m \in Media :
       images[c][m] # None => images'[c][m] = images[c][m]
  /\ \A c \in Candidate :
       html'[c] # html[c] => /\ html[c] = NoPage
                             /\ row[c].stage \in Imaged
                             /\ html'[c] = Page(row[c])

LEMMA BecomeFrame ==
  ASSUME TypeOK, NEW a \in Attempt, NEW c \in Candidate, NEW new \in Tasks,
         Become(a, c, new)
  PROVE  /\ task' \in [Attempt -> [Candidate -> Tasks]]
         /\ task'[a][c] = new
         /\ \A b \in Attempt, d \in Candidate :
              b # a \/ d # c => task'[b][d] = task[b][d]
BY DEF TypeOK, Become

(* What is known of rows and tasks survives the growth of the storage. *)
LEMMA GrowthKeeps ==
  ASSUME TypeOK, Grows, row' = row, NEW c \in Candidate
  PROVE  /\ RowGood(c) => RowGood(c)'
         /\ \A t \in Tasks : Known(t, c) => Known(t, c)'
<1>1. \A t \in Tasks \cup Rows : TextKept(t, c) => TextKept(t, c)'
  BY DEF Grows, TextKept
<1>2. \A t \in Tasks \cup Rows : ImageKept(t, c) => ImageKept(t, c)'
  BY DEF Grows, ImageKept
<1>3. html[c] # NoPage => html'[c] = html[c]
  BY DEF Grows
<1>4. row[c] \in Rows
  BY DEF TypeOK
<1>5. \A t : Frozen(t, c) => Frozen(t, c)'
  BY DEF Frozen
<1>6. RowGood(c) => RowGood(c)'
  BY <1>1, <1>2, <1>3, <1>4 DEF RowGood, Grows, Page
<1>7. \A t \in Tasks : Waiting(t, c) => Waiting(t, c)'
  BY <1>1, <1>5 DEF Waiting
<1>8. \A t \in Tasks : Known(t, c) => Known(t, c)'
  BY <1>1, <1>2, <1>3, <1>5, <1>7 DEF Known
<1> QED  BY <1>6, <1>8

(* A step of one task that leaves the rows alone. *)
LEMMA LocalStep ==
  ASSUME IInv, NEW a \in Attempt, NEW c \in Candidate, NEW new \in Tasks,
         Become(a, c, new), task[a][c].at # "none", Grows,
         UNCHANGED <<run, row, attempt>>,
         Known(new, c)', holder = a => Held(new, c)
  PROVE  IInv'
<1>1. TypeOK
  BY DEF IInv
<1>2. /\ task' \in [Attempt -> [Candidate -> Tasks]]
      /\ task'[a][c] = new
      /\ \A b \in Attempt, d \in Candidate :
           b # a \/ d # c => task'[b][d] = task[b][d]
  BY <1>1, BecomeFrame
<1>3. TypeOK'
  BY <1>1, <1>2 DEF TypeOK, Grows, run
<1>4. \A d \in Candidate : RowGood(d)'
  BY <1>1, GrowthKeeps DEF IInv
<1>5. ASSUME NEW b \in Attempt, NEW d \in Candidate
      PROVE  TaskGood(b, d)'
  <2>1. CASE b = a /\ d = c
    BY <1>2, <2>1 DEF TaskGood, Held, run
  <2>2. CASE b # a \/ d # c
    <3>1. task[b][d] \in Tasks /\ task'[b][d] = task[b][d]
      BY <1>1, <1>2, <2>2 DEF TypeOK
    <3>2. Known(task[b][d], d)
      BY DEF IInv, TaskGood
    <3>3. Known(task[b][d], d)'
      BY <1>1, <3>1, <3>2, GrowthKeeps
    <3> QED  BY <3>1, <3>3 DEF IInv, TaskGood, Held, run
  <2> QED  BY <2>1, <2>2
<1>6. \A b \in Attempt : AttemptGood(b)'
  <2> SUFFICES ASSUME NEW b \in Attempt PROVE AttemptGood(b)'
    OBVIOUS
  <2>1. AttemptGood(b) /\ AttemptGood(a)
    BY DEF IInv
  <2> QED  BY <1>2, <2>1 DEF AttemptGood, run
<1> QED  BY <1>3, <1>4, <1>5, <1>6 DEF IInv

(* Such a step as the next one of the task, from what the task knows. *)
LEMMA TaskFacts ==
  ASSUME IInv, NEW a \in Attempt, NEW c \in Candidate
  PROVE  /\ task[a][c] \in Tasks /\ row[c] \in Rows
         /\ source[c] \in Attempt \cup {None}
         /\ images[c] \in [Media -> Attempt \cup {None}]
         /\ Known(task[a][c], c)
         /\ holder = a => Held(task[a][c], c)
         /\ RowGood(c)
BY DEF IInv, TypeOK, TaskGood

LEMMA StorageStays ==
  ASSUME TypeOK, UNCHANGED storage PROVE Grows
BY DEF TypeOK, Grows, storage

LEMMA QuietStep ==
  ASSUME IInv, NEW a \in Attempt, NEW c \in Candidate, NEW new \in Tasks,
         Become(a, c, new), task[a][c].at # "none",
         UNCHANGED <<run, row, storage, attempt>>,
         Known(new, c), holder = a => Held(new, c)
  PROVE  IInv'
<1>1. Grows
  BY StorageStays DEF IInv
<1>2. Known(new, c)'
  BY <1>1, GrowthKeeps DEF IInv
<1> QED  BY <1>1, <1>2, LocalStep

LEMMA StartTaskStep ==
  ASSUME IInv, NEW a \in Attempt, NEW c \in Candidate, StartTask(a, c)
  PROVE  IInv'
<1> DEFINE t == task[a][c]
<1>1. t \in Tasks /\ Known(t, c) /\ (holder = a => Held(t, c))
  BY TaskFacts
<1>2. t.at = "waiting" /\ UNCHANGED <<run, row, storage, attempt>>
  BY DEF StartTask
<1> DEFINE at == Resume(t.stage)
<1>0. PICK new : /\ new = CASE at = "done"   -> [t EXCEPT !.at = at]
                            [] at = "recall" -> Idle(at, "none")
                            [] OTHER         -> [t EXCEPT !.at = at, !.stage = "absent"]
                 /\ Become(a, c, new)
  BY DEF StartTask
<1>3. /\ t.stage \in Stages \ {"conflict"} /\ t.error # "conflict" /\ Waiting(t, c)
      /\ holder = a => row[c].stage = t.stage
  BY <1>1, <1>2 DEF Tasks, Known, Held
<1>4. new \in Tasks /\ Known(new, c) /\ (holder = a => Held(new, c))
  <2>1. CASE t.stage = "published"
    <3>1. new = [t EXCEPT !.at = "done"]
      BY <1>0, <2>1 DEF Resume
    <3>2. new \in Tasks
      BY <1>1, <3>1 DEF Tasks, Places, Ended
    <3>3. /\ new.at = "done" /\ new.stage = "published" /\ new.error = t.error
          /\ new.text = t.text /\ new.image = t.image
      BY <1>1, <2>1, <3>1 DEF Tasks
    <3> QED  BY <1>3, <2>1, <3>2, <3>3 DEF Known, Held, Waiting, Imaged, Frozen
  <2>2. CASE t.stage = "absent"
    <3>1. new = Idle("recall", "none")
      BY <1>0, <2>2 DEF Resume
    <3>2. new \in Tasks
      BY <3>1 DEF Idle, Tasks, Places, Calls, Stages, Images, NoImage, Errors
    <3>3. new.at = "recall" /\ new.stage = "absent" /\ new.error = "none"
      BY <3>1 DEF Idle
    <3> QED  BY <1>3, <2>2, <3>2, <3>3 DEF Known, Held
  <2>3. CASE t.stage \in {"source", "image", "failed"}
    <3>1. new = [t EXCEPT !.at = at, !.stage = "absent"] /\ at \in {"find", "publish"}
      BY <1>0, <2>3 DEF Resume
    <3>2. new \in Tasks
      BY <1>1, <3>1 DEF Tasks, Places, Calls, Stages
    <3>3. /\ new.at = at /\ new.stage = "absent" /\ new.error = t.error
          /\ new.text = t.text /\ new.image = t.image
      BY <1>1, <3>1 DEF Tasks
    <3>4. at = IF t.stage = "source" THEN "find" ELSE "publish"
      BY <2>3 DEF Resume
    <3>5. at = "find" => TextKept(new, c)
      BY <1>3, <2>3, <3>3 DEF Waiting, TextKept
    <3>6. at = "publish" => Frozen(new, c)
      BY <1>3, <2>3, <3>3, <3>4 DEF Waiting, Frozen, Imaged
    <3> QED  BY <1>3, <2>3, <3>1, <3>2, <3>3, <3>4, <3>5, <3>6 DEF Known, Held
  <2> QED  BY <1>3, <2>1, <2>2, <2>3 DEF Stages
<1> QED  BY <1>0, <1>2, <1>4, QuietStep

LEMMA RecallStep ==
  ASSUME IInv, NEW a \in Attempt, NEW c \in Candidate, Recall(a, c)
  PROVE  IInv'
<1> DEFINE t == task[a][c]
<1>1. /\ t \in Tasks /\ Known(t, c) /\ (holder = a => Held(t, c))
      /\ source[c] \in Attempt \cup {None}
  BY TaskFacts
<1>2. t.at = "recall" /\ UNCHANGED <<run, row, storage, attempt>>
  BY DEF Recall
<1>0. PICK new : /\ new = IF source[c] = None THEN [t EXCEPT !.at = "write"]
                          ELSE [t EXCEPT !.at = "draft", !.text = source[c]]
                 /\ Become(a, c, new)
  BY DEF Recall
<1>4. new \in Tasks /\ Known(new, c) /\ (holder = a => Held(new, c))
  BY <1>0, <1>1, <1>2 DEF Tasks, Places, Calls, Checkpoints, Known, Held, TextKept
<1> QED  BY <1>0, <1>2, <1>4, QuietStep

LEMMA WriteStep ==
  ASSUME IInv, NEW a \in Attempt, NEW c \in Candidate, Write(a, c)
  PROVE  IInv'
<1> DEFINE t == task[a][c]
<1>1. t \in Tasks /\ Known(t, c) /\ (holder = a => Held(t, c))
  BY TaskFacts
<1>2. t.at = "write" /\ UNCHANGED <<run, row, storage, attempt>>
  BY DEF Write
<1>0. PICK new : new = [t EXCEPT !.at = "keep", !.text = a] /\ Become(a, c, new)
  BY DEF Write
<1>4. new \in Tasks /\ Known(new, c) /\ (holder = a => Held(new, c))
  <2>0. a # None
    BY DEF Attempt
  <2>1. new \in Tasks
    BY <1>0, <1>1 DEF Tasks, Places, Calls
  <2>2. /\ new.at = "keep" /\ new.text = a /\ new.error = t.error
        /\ new.stage = t.stage
    BY <1>0, <1>1 DEF Tasks
  <2> QED  BY <1>1, <1>2, <2>0, <2>1, <2>2 DEF Known, Held
<1> QED  BY <1>0, <1>2, <1>4, QuietStep

(* The manifest that is there, or now there, gives the text. *)
LEMMA KeepStep ==
  ASSUME IInv, NEW a \in Attempt, NEW c \in Candidate, Keep(a, c)
  PROVE  IInv'
<1> DEFINE t == task[a][c]
<1>1. /\ t \in Tasks /\ Known(t, c) /\ (holder = a => Held(t, c))
      /\ source[c] \in Attempt \cup {None}
  BY TaskFacts
<1>2. /\ t.at = "keep"
      /\ UNCHANGED <<run, row, images, html, attempt>>
      /\ source' = IF source[c] = None THEN [source EXCEPT ![c] = t.text] ELSE source
  BY DEF Keep
<1>0. PICK new : /\ new = [t EXCEPT !.at = "draft", !.text = source'[c]]
                 /\ Become(a, c, new)
  BY DEF Keep
<1>3. source'[c] \in Attempt /\ t.text # None /\ Grows
  BY <1>0, <1>1, <1>2 DEF IInv, TypeOK, Grows, Known, Tasks
<1>4. new \in Tasks /\ (holder = a => Held(new, c))
  BY <1>0, <1>1, <1>2, <1>3 DEF Tasks, Places, Checkpoints, Held
<1>5. Known(new, c)'
  BY <1>0, <1>1, <1>2, <1>3 DEF Known, TextKept, Attempt, Tasks
<1> QED  BY <1>0, <1>2, <1>3, <1>4, <1>5, LocalStep

LEMMA FindStep ==
  ASSUME IInv, NEW a \in Attempt, NEW c \in Candidate, Find(a, c)
  PROVE  IInv'
<1> DEFINE t == task[a][c]
           found(m) == [t EXCEPT !.at = "imaged",
                                 !.image = [media |-> m, by |-> images[c][m]]]
<1>1. /\ t \in Tasks /\ Known(t, c) /\ (holder = a => Held(t, c))
      /\ images[c] \in [Media -> Attempt \cup {None}]
  BY TaskFacts
<1>2. t.at = "find" /\ UNCHANGED <<run, row, storage, attempt>>
  BY DEF Find
<1>3. PICK new : /\ Become(a, c, new)
                 /\ \/ \E m \in Media : images[c][m] # None /\ new = found(m)
                    \/ \E m \in Media : new = [t EXCEPT !.image.media = m]
                    \/ new = [t EXCEPT !.at = "paint", !.image = NoImage]
  <2> DEFINE m == t.image.media + 1
  <2>1. t.image.media \in Nat
    BY <1>1 DEF Tasks, Images, Media
  <2>2. m + 1 \in Media => m \in Media
    BY <2>1 DEF Media
  <2> QED  BY <2>2 DEF Find
<1>4. new \in Tasks /\ Known(new, c) /\ (holder = a => Held(new, c))
  <2>1. CASE new = [t EXCEPT !.at = "paint", !.image = NoImage]
    <3>1. new \in Tasks
      BY <1>1, <2>1 DEF Tasks, Places, Calls, Images, NoImage
    <3>2. /\ new.at = "paint" /\ new.text = t.text /\ new.error = t.error
          /\ new.stage = t.stage
      BY <1>1, <2>1 DEF Tasks
    <3> QED  BY <1>1, <1>2, <3>1, <3>2 DEF Known, Held, TextKept
  <2>2. CASE \E m \in Media : images[c][m] # None /\ new = found(m)
    <3>1. PICK m \in Media : images[c][m] # None /\ new = found(m)
      BY <2>2
    <3>2. [media |-> m, by |-> images[c][m]] \in Images
      BY <1>1 DEF Images
    <3>3. new \in Tasks
      BY <1>1, <3>1, <3>2 DEF Tasks, Places, Checkpoints
    <3>4. /\ new.at = "imaged" /\ new.text = t.text /\ new.error = t.error
          /\ new.stage = t.stage
          /\ new.image = [media |-> m, by |-> images[c][m]]
      BY <1>1, <3>1 DEF Tasks
    <3> QED  BY <1>1, <1>2, <3>1, <3>3, <3>4 DEF Known, Held, TextKept, ImageKept
  <2>3. CASE \E m \in Media : new = [t EXCEPT !.image.media = m]
    <3>1. PICK m \in Media : new = [t EXCEPT !.image.media = m]
      BY <2>3
    <3>2. new \in Tasks
      BY <1>1, <3>1 DEF Tasks, Images
    <3>3. /\ new.at = "find" /\ new.text = t.text /\ new.error = t.error
          /\ new.stage = t.stage
      BY <1>1, <1>2, <3>1 DEF Tasks
    <3> QED  BY <1>1, <1>2, <3>2, <3>3 DEF Known, Held, TextKept
  <2> QED  BY <1>3, <2>1, <2>2, <2>3
<1> QED  BY <1>2, <1>3, <1>4, QuietStep

LEMMA PaintStep ==
  ASSUME IInv, NEW a \in Attempt, NEW c \in Candidate, Paint(a, c)
  PROVE  IInv'
<1> DEFINE t == task[a][c]
<1>1. t \in Tasks /\ Known(t, c) /\ (holder = a => Held(t, c))
  BY TaskFacts
<1>2. t.at = "paint" /\ UNCHANGED <<run, row, storage, attempt>>
  BY DEF Paint
<1>3. PICK m \in Media :
        Become(a, c, [t EXCEPT !.at = "store", !.image = [media |-> m, by |-> a]])
  BY DEF Paint
<1>0. PICK new : /\ new = [t EXCEPT !.at = "store", !.image = [media |-> m, by |-> a]]
                 /\ Become(a, c, new)
  BY <1>3
<1>4. new \in Tasks /\ Known(new, c) /\ (holder = a => Held(new, c))
  <2>1. [media |-> m, by |-> a] \in Images /\ a # None
    BY DEF Images, Attempt
  <2>2. new \in Tasks
    BY <1>0, <1>1, <2>1 DEF Tasks, Places, Calls
  <2>3. /\ new.at = "store" /\ new.text = t.text /\ new.error = t.error
        /\ new.stage = t.stage /\ new.image = [media |-> m, by |-> a]
    BY <1>0, <1>1 DEF Tasks
  <2> QED  BY <1>1, <1>2, <2>1, <2>2, <2>3 DEF Known, Held, TextKept
<1> QED  BY <1>0, <1>2, <1>4, QuietStep

(* An image already under the key is taken for the one just painted. *)
LEMMA StoreStep ==
  ASSUME IInv, NEW a \in Attempt, NEW c \in Candidate, Store(a, c)
  PROVE  IInv'
<1> DEFINE t == task[a][c]
           m == t.image.media
<1>1. /\ t \in Tasks /\ Known(t, c) /\ (holder = a => Held(t, c))
      /\ images[c] \in [Media -> Attempt \cup {None}]
  BY TaskFacts
<1>2. /\ t.at = "store" /\ UNCHANGED <<run, row, source, html, attempt>>
      /\ images' = IF images[c][m] = None
                   THEN [images EXCEPT ![c][m] = t.image.by] ELSE images
  BY DEF Store
<1>3. PICK new : /\ new = [t EXCEPT !.at = "imaged", !.image.by = images'[c][m]]
                 /\ Become(a, c, new)
  BY DEF Store
<1>4. /\ t.image \in Images /\ m \in Media /\ t.image.by \in Attempt
      /\ t.image.by # None /\ TextKept(t, c)
  BY <1>1, <1>2 DEF Known, Tasks, Images
<1>5. images'[c][m] \in Attempt /\ images'[c][m] # None
  BY <1>1, <1>2, <1>4 DEF IInv, TypeOK
<1>6. Grows
  BY <1>1, <1>2, <1>4 DEF IInv, TypeOK, Grows
<1>7. new \in Tasks
  BY <1>1, <1>3, <1>4, <1>5 DEF Tasks, Places, Checkpoints, Images
<1>8. /\ new.at = "imaged" /\ new.text = t.text /\ new.error = t.error
      /\ new.stage = t.stage
      /\ new.image.media = m /\ new.image.by = images'[c][m]
  BY <1>1, <1>3, <1>4 DEF Tasks, Images
<1>9. Known(new, c)' /\ (holder = a => Held(new, c))
  BY <1>1, <1>2, <1>4, <1>5, <1>8 DEF Known, Held, TextKept, ImageKept
<1> QED  BY <1>2, <1>3, <1>6, <1>7, <1>9, LocalStep

(* The row is frozen, so a page already stored is the same page. *)
LEMMA PublishStep ==
  ASSUME IInv, NEW a \in Attempt, NEW c \in Candidate, Publish(a, c)
  PROVE  IInv'
<1> DEFINE t == task[a][c]
<1>1. /\ t \in Tasks /\ Known(t, c) /\ (holder = a => Held(t, c))
      /\ RowGood(c) /\ row[c] \in Rows
  BY TaskFacts
<1>2. /\ t.at = "publish" /\ UNCHANGED <<run, row, source, images, attempt>>
      /\ html' = IF html[c] = NoPage THEN [html EXCEPT ![c] = Page(t)] ELSE html
  BY DEF Publish
<1>3. Frozen(t, c)
  BY <1>1, <1>2 DEF Known
<1>4. Page(t) = Page(row[c])
  BY <1>3 DEF Frozen, Page
<1>5. Page(t) \in Pages /\ Page(t) # NoPage
  <2>1. row[c].text \in Attempt /\ row[c].text # None /\ row[c].image.media \in Media
    BY <1>1, <1>3 DEF RowGood, Frozen, Imaged, TextKept, ImageKept, Rows
  <2> QED  BY <1>4, <2>1 DEF Page, Pages, NoPage
<1>6. html'[c] = Page(t)
  BY <1>1, <1>2, <1>4 DEF RowGood, IInv, TypeOK
<1>7. Grows
  BY <1>2, <1>3, <1>4, <1>5 DEF IInv, TypeOK, Grows, Frozen
<1>8. PICK new : new = [t EXCEPT !.at = "final"] /\ Become(a, c, new)
  BY <1>6 DEF Publish
<1>9. new \in Tasks
  BY <1>1, <1>8 DEF Tasks, Places, Checkpoints
<1>10. /\ new.at = "final" /\ new.text = t.text /\ new.error = t.error
       /\ new.stage = t.stage /\ new.image = t.image
  BY <1>1, <1>8 DEF Tasks
<1>11. Known(new, c)' /\ (holder = a => Held(new, c))
  BY <1>1, <1>2, <1>3, <1>5, <1>6, <1>10 DEF Known, Held, Frozen
<1> QED  BY <1>2, <1>7, <1>8, <1>9, <1>11, LocalStep

(* The page may be stored all the same, and it is the row's.  *)
LEMMA PublishFailsStep ==
  ASSUME IInv, NEW a \in Attempt, NEW c \in Candidate,
         NEW e \in {"retryable", "permanent"}, PublishFails(a, c, e)
  PROVE  IInv'
<1> DEFINE t == task[a][c]
<1>1. /\ t \in Tasks /\ Known(t, c) /\ (holder = a => Held(t, c))
      /\ RowGood(c) /\ row[c] \in Rows
  BY TaskFacts
<1>2. /\ t.at = "publish" /\ UNCHANGED <<run, row, source, images, attempt>>
      /\ \/ UNCHANGED html
         \/ html[c] = NoPage /\ html' = [html EXCEPT ![c] = Page(t)]
  BY DEF PublishFails
<1>3. Frozen(t, c)
  BY <1>1, <1>2 DEF Known
<1>4. Page(t) = Page(row[c])
  BY <1>3 DEF Frozen, Page
<1>5. Page(t) \in Pages
  <2>1. row[c].text \in Attempt /\ row[c].image.media \in Media
    BY <1>1, <1>3 DEF RowGood, Frozen, Imaged, TextKept, ImageKept, Rows
  <2> QED  BY <1>4, <2>1 DEF Page, Pages
<1>6. Grows
  <2>1. CASE UNCHANGED html
    BY <1>2, <2>1, StorageStays DEF IInv, storage
  <2>2. CASE html[c] = NoPage /\ html' = [html EXCEPT ![c] = Page(t)]
    BY <1>2, <1>3, <1>4, <1>5, <2>2 DEF IInv, TypeOK, Grows, Frozen
  <2> QED  BY <1>2, <2>1, <2>2
<1>7. PICK new : /\ new = [t EXCEPT !.at = "reject", !.error = e]
                 /\ Become(a, c, new)
  BY DEF PublishFails
<1>8. new \in Tasks
  BY <1>1, <1>7 DEF Tasks, Places, Checkpoints, Errors
<1>9. /\ new.at = "reject" /\ new.text = t.text /\ new.error = e
      /\ new.stage = t.stage /\ new.image = t.image
  BY <1>1, <1>7 DEF Tasks
<1>10. Known(new, c)' /\ (holder = a => Held(new, c))
  BY <1>1, <1>2, <1>3, <1>9 DEF Known, Held, Frozen
<1> QED  BY <1>2, <1>6, <1>7, <1>8, <1>10, LocalStep

LEMMA IdleGood ==
  ASSUME TypeOK, NEW c \in Candidate, NEW at \in Ended \ {"done"},
         NEW error \in Errors \ {"conflict"}
  PROVE  /\ Idle(at, error) \in Tasks
         /\ Known(Idle(at, error), c) /\ Held(Idle(at, error), c)
<1>1. Idle(at, error) \in Tasks
  BY DEF Idle, Tasks, Ended, Places, Stages, Images, NoImage
<1> QED  BY <1>1 DEF Known, Held, Idle, Ended

LEMMA CallFailsStep ==
  ASSUME IInv, NEW a \in Attempt, NEW c \in Candidate,
         NEW e \in {"retryable", "permanent"}, CallFails(a, c, e)
  PROVE  IInv'
<1>1. /\ task[a][c].at # "none" /\ UNCHANGED <<run, row, storage, attempt>>
      /\ Become(a, c, Idle("failed", e))
  BY DEF CallFails, Calls
<1>2. /\ Idle("failed", e) \in Tasks
      /\ Known(Idle("failed", e), c) /\ Held(Idle("failed", e), c)
  BY IdleGood DEF IInv, Ended, Errors
<1> QED  BY <1>1, <1>2, QuietStep

-----------------------------------------------------------------------------
(* The checkpoint, which alone changes a row while candidates are built. *)

(* A row that has an image keeps its content. *)
RowKept(c) ==
  row[c].stage \in Imaged =>
    /\ row'[c].stage \in Imaged
    /\ row'[c].text = row[c].text
    /\ row'[c].image = row[c].image
    /\ row[c].stage = "published" => row'[c].stage = "published"

LEMMA KeptRowKeeps ==
  ASSUME UNCHANGED storage, NEW c \in Candidate, RowKept(c),
         NEW t \in Tasks, Known(t, c)
  PROVE  Known(t, c)'
<1>1. TextKept(t, c) => TextKept(t, c)'
  BY DEF TextKept, storage
<1>2. ImageKept(t, c) => ImageKept(t, c)'
  BY DEF ImageKept, storage
<1>3. Frozen(t, c) => Frozen(t, c)'
  BY DEF Frozen, RowKept
<1>4. row[c].stage = "published" => row'[c].stage = "published"
  BY DEF RowKept, Imaged
<1>5. Waiting(t, c) => Waiting(t, c)'
  BY <1>1, <1>3, <1>4 DEF Waiting
<1> QED  BY <1>1, <1>2, <1>3, <1>4, <1>5 DEF Known, storage

(* What a checkpoint of the holder does to the row and to its task. *)
LEMMA CheckpointFacts ==
  ASSUME IInv, NEW a \in Attempt, NEW c \in Candidate,
         task[a][c].at \in Checkpoints, holder = a,
         NEW old, old = task[a][c],
         row' = [row EXCEPT ![c] = Checkpointed(old)], UNCHANGED storage,
         NEW new, new = AfterCheckpoint(old)
  PROVE  /\ row'[c] \in Rows /\ RowKept(c) /\ RowGood(c)'
         /\ new \in Tasks /\ Known(new, c)' /\ Held(new, c)'
<1>1. /\ old \in Tasks /\ Known(old, c) /\ Held(old, c)
      /\ RowGood(c) /\ row[c] \in Rows
  BY TaskFacts
<1>2. row'[c] = Checkpointed(old)
  BY DEF IInv, TypeOK
<1>3. old.error # "conflict"
  BY <1>1 DEF Known
<1>4. CASE old.at = "draft"
  <2>1. row'[c] = [stage |-> "source", text |-> old.text, image |-> NoImage]
    BY <1>2, <1>4 DEF Checkpointed
  <2>2. new = [old EXCEPT !.at = "find"]
    BY <1>4 DEF AfterCheckpoint
  <2>3. TextKept(old, c) /\ row[c].stage = "absent" /\ html[c] = NoPage
    BY <1>1, <1>4 DEF Known, Held, RowGood, Imaged
  <2>4. row'[c] \in Rows
    BY <1>1, <2>1 DEF Rows, Stages, Images, NoImage, Tasks
  <2>5. RowKept(c) /\ RowGood(c)'
    BY <2>1, <2>3 DEF RowKept, RowGood, Imaged, TextKept, storage
  <2>6. new \in Tasks
    BY <1>1, <2>2 DEF Tasks, Places, Calls
  <2>7. /\ new.at = "find" /\ new.text = old.text /\ new.error = old.error
        /\ new.stage = old.stage
    BY <1>1, <2>2 DEF Tasks
  <2> QED  BY <1>1, <2>1, <2>3, <2>4, <2>5, <2>6, <2>7 DEF Known, Held, TextKept, storage
<1>5. CASE old.at = "imaged"
  <2>1. row'[c] = [stage |-> "image", text |-> old.text, image |-> old.image]
    BY <1>2, <1>5 DEF Checkpointed
  <2>2. new = [old EXCEPT !.at = "publish"]
    BY <1>5 DEF AfterCheckpoint
  <2>3. /\ TextKept(old, c) /\ ImageKept(old, c)
        /\ row[c].stage = "source" /\ html[c] = NoPage
    BY <1>1, <1>5 DEF Known, Held, RowGood, Imaged
  <2>4. row'[c] \in Rows
    BY <1>1, <2>1 DEF Rows, Stages, Tasks
  <2>5. RowKept(c) /\ RowGood(c)'
    BY <2>1, <2>3 DEF RowKept, RowGood, Imaged, TextKept, ImageKept, storage
  <2>6. new \in Tasks
    BY <1>1, <2>2 DEF Tasks, Places
  <2>7. /\ new.at = "publish" /\ new.text = old.text /\ new.error = old.error
        /\ new.stage = old.stage /\ new.image = old.image
    BY <1>1, <2>2 DEF Tasks
  <2> QED  BY <1>1, <2>1, <2>4, <2>5, <2>6, <2>7 DEF Known, Held, Frozen, Imaged
<1>6. CASE old.at \in {"final", "reject"}
  <2>1. Frozen(old, c) /\ row[c].stage # "published"
    BY <1>1, <1>6 DEF Known, Held
  <2>2. PICK stage \in {"published", "failed"} :
          /\ row'[c] = [stage |-> stage, text |-> old.text, image |-> old.image]
          /\ stage = "published" <=> old.at = "final"
    BY <1>2, <1>3, <1>6 DEF Checkpointed
  <2>3. row'[c] \in Rows
    BY <1>1, <2>2 DEF Rows, Stages, Tasks
  <2>4. RowKept(c)
    BY <2>1, <2>2 DEF RowKept, Frozen, Imaged
  <2>5. TextKept(old, c) /\ ImageKept(old, c)
    BY <1>1, <2>1 DEF RowGood, Frozen, Imaged, TextKept, ImageKept
  <2>6. html[c] # NoPage => html[c] = Page(old)
    BY <1>1, <2>1 DEF RowGood, Frozen, Page
  <2>7. old.at = "final" => html[c] # NoPage
    BY <1>1 DEF Known
  <2>8. RowGood(c)'
    BY <2>2, <2>5, <2>6, <2>7 DEF RowGood, Imaged, TextKept, ImageKept, Page, storage
  <2>9. CASE old.at = "final"
    <3>1. new = [old EXCEPT !.at = "done", !.stage = "published"]
      BY <2>9 DEF AfterCheckpoint
    <3>2. new \in Tasks
      BY <1>1, <3>1 DEF Tasks, Places, Ended, Stages
    <3>3. /\ new.at = "done" /\ new.text = old.text /\ new.error = old.error
          /\ new.stage = "published" /\ new.image = old.image
      BY <1>1, <3>1 DEF Tasks
    <3>4. row'[c] = [stage |-> "published", text |-> old.text, image |-> old.image]
      BY <2>2, <2>9
    <3> QED  BY <1>1, <2>3, <2>4, <2>8, <3>2, <3>3, <3>4 DEF Known, Held, Frozen, Imaged
  <2>10. CASE old.at = "reject"
    <3>1. new = Idle("failed", old.error)
      BY <2>10 DEF AfterCheckpoint
    <3>2. old.error \in Errors \ {"conflict"}
      BY <1>1, <1>3 DEF Tasks
    <3>3. new \in Tasks /\ Known(new, c) /\ Held(new, c)
      BY <3>1, <3>2, IdleGood DEF IInv, Ended
    <3>4. new.at = "failed"
      BY <3>1 DEF Idle
    <3> QED  BY <2>3, <2>4, <2>8, <3>3, <3>4, KeptRowKeeps DEF Held
  <2> QED  BY <1>6, <2>9, <2>10
<1> QED  BY <1>4, <1>5, <1>6 DEF Checkpoints

(* The holder's row is written, and its task goes on or fails. *)
LEMMA RowStep ==
  ASSUME IInv, NEW a \in Attempt, NEW c \in Candidate,
         task[a][c].at \in Checkpoints, holder = a,
         row' = [row EXCEPT ![c] = Checkpointed(task[a][c])],
         NEW new, Become(a, c, new), UNCHANGED <<run, storage, attempt>>,
         new \in {AfterCheckpoint(task[a][c]), Idle("failed", "retryable")}
  PROVE  IInv'
<1>1. PICK old, next : /\ old = task[a][c] /\ next = AfterCheckpoint(old)
                       /\ row' = [row EXCEPT ![c] = Checkpointed(old)]
  OBVIOUS
<1>2. /\ row'[c] \in Rows /\ RowKept(c) /\ RowGood(c)'
      /\ next \in Tasks /\ Known(next, c)' /\ Held(next, c)'
  BY <1>1, CheckpointFacts
<1>3. new \in Tasks /\ Known(new, c)' /\ Held(new, c)'
  <2> DEFINE idle == Idle("failed", "retryable")
  <2>1. idle \in Tasks /\ Known(idle, c)
    BY IdleGood DEF IInv, Ended, Errors
  <2>2. idle.at = "failed"
    BY DEF Idle
  <2>3. Known(idle, c)' /\ Held(idle, c)'
    BY <1>2, <2>1, <2>2, KeptRowKeeps DEF Held
  <2> QED  BY <1>1, <1>2, <2>1, <2>3
<1>4. /\ task' \in [Attempt -> [Candidate -> Tasks]]
      /\ task'[a][c] = new
      /\ \A b \in Attempt, d \in Candidate :
           b # a \/ d # c => task'[b][d] = task[b][d]
  BY <1>3, BecomeFrame DEF IInv
<1>5. \A d \in Candidate : d # c => row'[d] = row[d]
  BY <1>1 DEF IInv, TypeOK
<1>6. TypeOK'
  BY <1>1, <1>2, <1>4 DEF IInv, TypeOK, run, storage
<1>7. \A d \in Candidate : RowGood(d)'
  <2> SUFFICES ASSUME NEW d \in Candidate, d # c PROVE RowGood(d)'
    BY <1>2
  <2> QED  BY <1>5 DEF IInv, RowGood, TextKept, ImageKept, storage
<1>8. ASSUME NEW b \in Attempt, NEW d \in Candidate PROVE TaskGood(b, d)'
  <2>1. CASE b = a /\ d = c
    BY <1>3, <1>4, <2>1 DEF TaskGood
  <2>2. CASE b # a \/ d # c
    <3>1. task[b][d] \in Tasks /\ task'[b][d] = task[b][d]
      BY <1>4, <2>2 DEF IInv, TypeOK
    <3>2. RowKept(d)
      BY <1>2, <1>5 DEF RowKept
    <3>3. Known(task[b][d], d)'
      BY <3>1, <3>2, KeptRowKeeps DEF IInv, TaskGood
    <3>4. holder = b => d # c
      BY <2>2
    <3>5. d # c => row'[d] = row[d]
      BY <1>5
    <3> QED  BY <3>1, <3>3, <3>4, <3>5 DEF IInv, TaskGood, Held, run
  <2> QED  BY <2>1, <2>2
<1>9. \A b \in Attempt : AttemptGood(b)'
  <2> SUFFICES ASSUME NEW b \in Attempt PROVE AttemptGood(b)'
    OBVIOUS
  <2>1. AttemptGood(b) /\ AttemptGood(a) /\ task[a][c].at # "none"
    BY DEF IInv, Checkpoints
  <2> QED  BY <1>4, <2>1 DEF AttemptGood, run
<1> QED  BY <1>6, <1>7, <1>8, <1>9 DEF IInv

(* A task that fails and leaves the row alone. *)
LEMMA FailureStep ==
  ASSUME IInv, NEW a \in Attempt, NEW c \in Candidate,
         NEW e \in {"retryable", "permanent"}, task[a][c].at # "none",
         Become(a, c, Idle("failed", e)), UNCHANGED <<run, row, storage, attempt>>
  PROVE  IInv'
<1>1. /\ Idle("failed", e) \in Tasks
      /\ Known(Idle("failed", e), c) /\ Held(Idle("failed", e), c)
  BY IdleGood DEF IInv, Ended, Errors
<1> QED  BY <1>1, QuietStep

LEMMA CheckpointStep ==
  ASSUME IInv, NEW a \in Attempt, NEW c \in Candidate, Checkpoint(a, c)
  PROVE  IInv'
<1>1. task[a][c].at \in Checkpoints /\ UNCHANGED <<run, storage, attempt>>
  BY DEF Checkpoint
<1>2. CASE holder # a
  BY <1>1, <1>2, FailureStep DEF Checkpoint, Checkpoints
<1>3. CASE holder = a
  <2>1. PICK new : /\ new = AfterCheckpoint(task[a][c]) /\ Become(a, c, new)
                   /\ row' = [row EXCEPT ![c] = Checkpointed(task[a][c])]
    BY <1>3 DEF Checkpoint
  <2> QED  BY <1>1, <1>3, <2>1, RowStep
<1> QED  BY <1>2, <1>3

LEMMA CheckpointFailsStep ==
  ASSUME IInv, NEW a \in Attempt, NEW c \in Candidate, CheckpointFails(a, c)
  PROVE  IInv'
<1>1. /\ task[a][c].at \in Checkpoints /\ task[a][c].at # "none"
      /\ UNCHANGED <<run, storage, attempt>>
      /\ Become(a, c, Idle("failed", "retryable"))
      /\ \/ UNCHANGED row
         \/ holder = a /\ row' = [row EXCEPT ![c] = Checkpointed(task[a][c])]
  BY DEF CheckpointFails, Checkpoints
<1>2. CASE UNCHANGED row
  BY <1>1, <1>2, FailureStep
<1>3. CASE holder = a /\ row' = [row EXCEPT ![c] = Checkpointed(task[a][c])]
  BY <1>1, <1>3, RowStep
<1> QED  BY <1>1, <1>2, <1>3

-----------------------------------------------------------------------------
(* Steps of the attempts. *)

(* A step that changes neither rows nor storage keeps the invariant if the *)
(* new tasks are good. *)
LEMMA AttemptKeeps ==
  ASSUME IInv, UNCHANGED <<row, storage>>, TypeOK',
         \A a \in Attempt, c \in Candidate :
           Known(task'[a][c], c) /\ (holder' = a => Held(task'[a][c], c)),
         \A a \in Attempt : AttemptGood(a)'
  PROVE  IInv'
<1>1. \A c \in Candidate : RowGood(c)'
  BY DEF IInv, RowGood, TextKept, ImageKept, storage
<1>2. ASSUME NEW a \in Attempt, NEW c \in Candidate PROVE TaskGood(a, c)'
  <2>1. PICK t : t = task'[a][c]
    OBVIOUS
  <2>2. Known(t, c)' /\ (holder' = a => Held(t, c)')
    BY <2>1 DEF Known, Held, Waiting, TextKept, ImageKept, Frozen, storage
  <2> QED  BY <2>1, <2>2 DEF TaskGood
<1> QED  BY <1>1, <1>2 DEF IInv

LEMMA NoTaskGood ==
  ASSUME IInv, NEW c \in Candidate
  PROVE  /\ NoTasks \in [Candidate -> Tasks]
         /\ NoTasks[c].at = "none"
         /\ Known(NoTasks[c], c) /\ Held(NoTasks[c], c)
BY DEF NoTasks, Idle, Tasks, Places, Stages, Images, NoImage, Errors, Known, Held

LEMMA ClaimStep ==
  ASSUME IInv, NEW a \in Attempt, Claim(a)
  PROVE  IInv'
<1>1. /\ status = "requested" /\ status' = "running" /\ a = claims + 1
      /\ claims' = a /\ holder' = a /\ UNCHANGED <<row, storage, task>>
      /\ attempt' = [attempt EXCEPT ![a].phase = "loading"]
  BY DEF Claim
<1>2. claims \in Nat /\ a > claims
  BY <1>1 DEF IInv, TypeOK, Attempt
<1>3. \A c \in Candidate : task[a][c].at = "none"
  BY <1>2 DEF IInv, AttemptGood
<1>4. TypeOK'
  BY <1>1 DEF IInv, TypeOK, Attempts, storage
<1>5. \A b \in Attempt, c \in Candidate :
        Known(task'[b][c], c) /\ (holder' = b => Held(task'[b][c], c))
  BY <1>1, <1>3 DEF IInv, TaskGood, Held
<1>6. \A b \in Attempt : AttemptGood(b)'
  <2> SUFFICES ASSUME NEW b \in Attempt PROVE AttemptGood(b)'
    OBVIOUS
  <2>1. b > claims' => b > claims /\ b # a
    BY <1>1, <1>2 DEF Attempt
  <2>2. AttemptGood(b)
    BY DEF IInv
  <2>3. attempt'[b].phase = IF b = a THEN "loading" ELSE attempt[b].phase
    BY <1>1 DEF IInv, TypeOK, Attempts
  <2> QED  BY <1>1, <1>3, <2>1, <2>2, <2>3 DEF AttemptGood
<1> QED  BY <1>1, <1>4, <1>5, <1>6, AttemptKeeps

LEMMA LoseLeaseStep ==
  ASSUME IInv, LoseLease
  PROVE  IInv'
<1>1. /\ holder' = None /\ status' \in {"requested", "failed"}
      /\ UNCHANGED <<claims, row, storage, attempt, task>>
  BY DEF LoseLease, Requeued
<1>2. TypeOK'
  BY <1>1 DEF IInv, TypeOK, storage
<1>3. \A b \in Attempt, c \in Candidate :
        Known(task'[b][c], c) /\ (holder' = b => Held(task'[b][c], c))
  BY <1>1 DEF IInv, TaskGood, Attempt
<1>4. \A b \in Attempt : AttemptGood(b)'
  BY <1>1 DEF IInv, AttemptGood
<1> QED  BY <1>1, <1>2, <1>3, <1>4, AttemptKeeps

(* A snapshot of the rows is good, even if a later attempt has the lease. *)
LEMMA LoadExistingCandidatesStep ==
  ASSUME IInv, NEW a \in Attempt, LoadExistingCandidates(a)
  PROVE  IInv'
<1> DEFINE loaded(c) == [at |-> "waiting", stage |-> row[c].stage, text |-> row[c].text,
                         image |-> row[c].image, error |-> "none"]
<1>1. /\ attempt[a].phase = "loading" /\ UNCHANGED <<run, row, storage>>
      /\ attempt' = [attempt EXCEPT ![a].phase = "building"]
      /\ task' = [task EXCEPT ![a] = [c \in Candidate |-> loaded(c)]]
  BY DEF LoadExistingCandidates
<1>2. \A c \in Candidate : loaded(c) \in Tasks
  BY DEF IInv, TypeOK, Rows, Tasks, Places, Errors
<1>3. /\ task' \in [Attempt -> [Candidate -> Tasks]]
      /\ \A b \in Attempt, c \in Candidate :
           task'[b][c] = IF b = a THEN loaded(c) ELSE task[b][c]
  BY <1>1, <1>2 DEF IInv, TypeOK
<1>4. TypeOK'
  BY <1>1, <1>3 DEF IInv, TypeOK, Attempts, run, storage
<1>5. \A b \in Attempt, c \in Candidate :
        Known(task'[b][c], c) /\ (holder' = b => Held(task'[b][c], c))
  <2> SUFFICES ASSUME NEW b \in Attempt, NEW c \in Candidate
               PROVE  Known(task'[b][c], c) /\ (holder = b => Held(task'[b][c], c))
    BY <1>1 DEF run
  <2>1. Known(loaded(c), c) /\ Held(loaded(c), c)
    <3>1. RowGood(c)
      BY DEF IInv
    <3>2. Waiting(loaded(c), c)
      BY <3>1 DEF RowGood, Waiting, TextKept, Frozen
    <3> QED  BY <3>1, <3>2 DEF Known, Held, RowGood
  <2> QED  BY <1>3, <2>1 DEF IInv, TaskGood
<1>6. \A b \in Attempt : AttemptGood(b)'
  <2> SUFFICES ASSUME NEW b \in Attempt PROVE AttemptGood(b)'
    OBVIOUS
  <2>1. AttemptGood(b)
    BY DEF IInv
  <2>2. attempt'[b].phase = IF b = a THEN "building" ELSE attempt[b].phase
    BY <1>1 DEF IInv, TypeOK, Attempts
  <2> QED  BY <1>1, <1>3, <2>1, <2>2 DEF AttemptGood, run
<1> QED  BY <1>1, <1>4, <1>5, <1>6, AttemptKeeps DEF run

LEMMA ObserveFailureStep ==
  ASSUME IInv, NEW a \in Attempt, NEW c \in Candidate, ObserveFailure(a, c)
  PROVE  IInv'
<1> DEFINE left(d) == IF task[a][d].at = "waiting" THEN Idle("cancelled", "none")
                      ELSE task[a][d]
<1>1. /\ attempt[a].phase = "building" /\ UNCHANGED <<run, row, storage>>
      /\ \E error \in {"retryable", "permanent"} :
           attempt' = [attempt EXCEPT ![a] = [phase |-> "draining", error |-> error]]
      /\ task' = [task EXCEPT ![a] = [d \in Candidate |-> left(d)]]
  BY DEF ObserveFailure
<1>2. \A d \in Candidate : /\ left(d) \in Tasks /\ Known(left(d), d)
                           /\ holder = a => Held(left(d), d)
  <2> SUFFICES ASSUME NEW d \in Candidate
               PROVE  /\ left(d) \in Tasks /\ Known(left(d), d)
                      /\ holder = a => Held(left(d), d)
    OBVIOUS
  <2>1. /\ Idle("cancelled", "none") \in Tasks
        /\ Known(Idle("cancelled", "none"), d) /\ Held(Idle("cancelled", "none"), d)
    BY IdleGood DEF IInv, Ended, Errors
  <2>2. /\ task[a][d] \in Tasks /\ Known(task[a][d], d)
        /\ holder = a => Held(task[a][d], d)
    BY TaskFacts
  <2> QED  BY <2>1, <2>2
<1>3. /\ task' \in [Attempt -> [Candidate -> Tasks]]
      /\ \A b \in Attempt, d \in Candidate :
           task'[b][d] = IF b = a THEN left(d) ELSE task[b][d]
  BY <1>1, <1>2 DEF IInv, TypeOK
<1>4. TypeOK'
  BY <1>1, <1>3 DEF IInv, TypeOK, Attempts, run, storage
<1>5. \A b \in Attempt, d \in Candidate :
        Known(task'[b][d], d) /\ (holder' = b => Held(task'[b][d], d))
  BY <1>1, <1>2, <1>3 DEF IInv, TaskGood, run
<1>6. \A b \in Attempt : AttemptGood(b)'
  <2> SUFFICES ASSUME NEW b \in Attempt PROVE AttemptGood(b)'
    OBVIOUS
  <2>1. AttemptGood(b)
    BY DEF IInv
  <2>2. attempt'[b].phase = IF b = a THEN "draining" ELSE attempt[b].phase
    BY <1>1 DEF IInv, TypeOK, Attempts
  <2> QED  BY <1>1, <1>3, <2>1, <2>2 DEF AttemptGood, run
<1> QED  BY <1>1, <1>4, <1>5, <1>6, AttemptKeeps DEF run

(* The tasks of an attempt that is over. *)
LEMMA EndFacts ==
  ASSUME IInv, NEW a \in Attempt, End(a), attempt[a].phase # "unborn",
         UNCHANGED claims, holder' \in {holder, None}
  PROVE  /\ attempt' \in [Attempt -> Attempts]
         /\ task' \in [Attempt -> [Candidate -> Tasks]]
         /\ \A b \in Attempt, c \in Candidate :
              Known(task'[b][c], c) /\ (holder' = b => Held(task'[b][c], c))
         /\ \A b \in Attempt : AttemptGood(b)'
<1>1. /\ attempt' = [attempt EXCEPT ![a] = [phase |-> "over", error |-> "none"]]
      /\ task' = [task EXCEPT ![a] = NoTasks]
  BY DEF End
<1>2. attempt' \in [Attempt -> Attempts]
  BY <1>1 DEF IInv, TypeOK, Attempts
<1>3. NoTasks \in [Candidate -> Tasks]
  BY DEF NoTasks, Idle, Tasks, Places, Stages, Images, NoImage, Errors
<1>4. /\ task' \in [Attempt -> [Candidate -> Tasks]]
      /\ \A b \in Attempt, c \in Candidate :
           task'[b][c] = IF b = a THEN NoTasks[c] ELSE task[b][c]
  BY <1>1, <1>3 DEF IInv, TypeOK
<1>5. ASSUME NEW b \in Attempt, NEW c \in Candidate
      PROVE  Known(task'[b][c], c) /\ (holder' = b => Held(task'[b][c], c))
  <2>1. Known(NoTasks[c], c) /\ Held(NoTasks[c], c)
    BY NoTaskGood
  <2>2. holder' = b => holder = b
    BY DEF Attempt
  <2> QED  BY <1>4, <2>1, <2>2 DEF IInv, TaskGood
<1>6. ASSUME NEW b \in Attempt PROVE AttemptGood(b)'
  <2>1. AttemptGood(b) /\ \A c \in Candidate : NoTasks[c].at = "none"
    BY NoTaskGood DEF IInv
  <2>2. attempt'[b].phase = IF b = a THEN "over" ELSE attempt[b].phase
    BY <1>1 DEF IInv, TypeOK, Attempts
  <2>3. attempt[a].phase # "unborn"
    OBVIOUS
  <2> QED  BY <1>4, <2>1, <2>2, <2>3 DEF AttemptGood
<1> QED  BY <1>2, <1>4, <1>5, <1>6

(* Every task is done, so the rows are the results, and they are ready. *)
LEMMA ResultsAreRows ==
  ASSUME IInv, NEW a \in Attempt, AllDone(a)
  PROVE  /\ Ready(row)
         /\ \A c \in Candidate : row[c] = Result(task[a][c])
<1> SUFFICES ASSUME NEW c \in Candidate
             PROVE  row[c].stage = "published" /\ row[c] = Result(task[a][c])
  BY DEF Ready
<1>1. /\ row[c].stage = "published" /\ row[c] \in Rows /\ task[a][c].stage = "published"
      /\ row[c].text = task[a][c].text /\ row[c].image = task[a][c].image
  BY TaskFacts DEF AllDone, Known, Frozen
<1> QED  BY <1>1 DEF Rows, Result

LEMMA PersistSuccessStep ==
  ASSUME IInv, NEW a \in Attempt, PersistSuccess(a)
  PROVE  /\ IInv' /\ row' = row
         /\ IF holder = a THEN status' = "completed" ELSE UNCHANGED status
<1> DEFINE written == [c \in Candidate |-> Result(task[a][c])]
<1>1. /\ attempt[a].phase = "building" /\ UNCHANGED <<claims, storage>> /\ AllDone(a)
  BY DEF PersistSuccess, AllDone
<1>2. CASE holder = a
  <2>1. row = written
    BY <1>1, ResultsAreRows DEF IInv, TypeOK
  <2>2. Ready(written)
    BY <1>1, <2>1, ResultsAreRows
  <2>3. status' = "completed" /\ holder' = None /\ End(a) /\ row' = row
    BY <1>2, <2>1, <2>2 DEF PersistSuccess
  <2>4. /\ attempt' \in [Attempt -> Attempts]
        /\ task' \in [Attempt -> [Candidate -> Tasks]]
        /\ \A b \in Attempt, c \in Candidate :
             Known(task'[b][c], c) /\ (holder' = b => Held(task'[b][c], c))
        /\ \A b \in Attempt : AttemptGood(b)'
    BY <1>1, <2>3, EndFacts
  <2>5. TypeOK'
    BY <1>1, <2>3, <2>4 DEF IInv, TypeOK, storage
  <2> QED  BY <1>1, <1>2, <2>3, <2>4, <2>5, AttemptKeeps
<1>3. CASE holder # a
  <2>1. Give(a, "permanent") /\ UNCHANGED <<row, status, holder, task>>
    BY <1>3 DEF PersistSuccess
  <2>2. TypeOK'
    BY <1>1, <2>1 DEF IInv, TypeOK, Give, Attempts, storage
  <2>3. \A b \in Attempt : AttemptGood(b)'
    BY <1>1, <2>1 DEF IInv, TypeOK, AttemptGood, Give
  <2>4. \A b \in Attempt, c \in Candidate :
          Known(task'[b][c], c) /\ (holder' = b => Held(task'[b][c], c))
    BY <2>1 DEF IInv, TaskGood
  <2> QED  BY <1>1, <1>3, <2>1, <2>2, <2>3, <2>4, AttemptKeeps
<1> QED  BY <1>2, <1>3

LEMMA PersistFailsStep ==
  ASSUME IInv, NEW a \in Attempt, NEW e \in {"retryable", "permanent"}, PersistFails(a, e)
  PROVE  IInv'
<1>1. /\ attempt[a].phase = "building" /\ Give(a, e)
      /\ UNCHANGED <<run, row, storage, task>>
  BY DEF PersistFails, AllDone
<1>2. TypeOK'
  BY <1>1 DEF IInv, TypeOK, Give, Attempts, run, storage
<1>3. \A b \in Attempt : AttemptGood(b)'
  BY <1>1 DEF IInv, TypeOK, AttemptGood, Give, run
<1>4. \A b \in Attempt, c \in Candidate :
        Known(task'[b][c], c) /\ (holder' = b => Held(task'[b][c], c))
  BY <1>1 DEF IInv, TaskGood, run
<1> QED  BY <1>1, <1>2, <1>3, <1>4, AttemptKeeps DEF run

LEMMA RecordFailureStep ==
  ASSUME IInv, NEW a \in Attempt, RecordFailure(a)
  PROVE  IInv'
<1>1. /\ attempt[a].phase = "draining" /\ End(a)
      /\ UNCHANGED <<claims, row, storage>>
      /\ \/ /\ holder' = None /\ holder = a
            /\ status' \in {"requested", "failed"}
         \/ UNCHANGED <<status, holder>>
  BY DEF RecordFailure, Requeued
<1>2. /\ attempt' \in [Attempt -> Attempts]
      /\ task' \in [Attempt -> [Candidate -> Tasks]]
      /\ \A b \in Attempt, c \in Candidate :
           Known(task'[b][c], c) /\ (holder' = b => Held(task'[b][c], c))
      /\ \A b \in Attempt : AttemptGood(b)'
  BY <1>1, EndFacts
<1>3. TypeOK'
  BY <1>1, <1>2 DEF IInv, TypeOK, storage
<1> QED  BY <1>1, <1>2, <1>3, AttemptKeeps

-----------------------------------------------------------------------------
(* The theorems. *)

LEMMA InvariantStep == IInv /\ [Next]_vars => IInv'
<1> SUFFICES ASSUME IInv, [Next]_vars PROVE IInv'
  OBVIOUS
<1>1. CASE LoseLease
  BY <1>1, LoseLeaseStep
<1>2. CASE \E a \in Attempt : AttemptStep(a)
  BY <1>2, ClaimStep, LoadExistingCandidatesStep, PersistSuccessStep, RecordFailureStep,
     ObserveFailureStep, PersistFailsStep DEF AttemptStep
<1>3. CASE \E a \in Attempt, c \in Candidate : TaskStep(a, c)
  BY <1>3, StartTaskStep, RecallStep, WriteStep, KeepStep, FindStep, PaintStep, StoreStep,
     PublishStep, CheckpointStep, CheckpointFailsStep, PublishFailsStep,
     CallFailsStep DEF TaskStep
<1>4. CASE UNCHANGED vars
  <2>1. UNCHANGED <<row, storage, status, claims, holder, attempt, task>>
    BY <1>4 DEF vars, storage
  <2>2. TypeOK'
    BY <1>4 DEF IInv, TypeOK, vars
  <2>3. \A a \in Attempt : AttemptGood(a)'
    BY <2>1 DEF IInv, AttemptGood
  <2> QED  BY <2>1, <2>2, <2>3, AttemptKeeps DEF IInv, TaskGood
<1> QED  BY <1>1, <1>2, <1>3, <1>4 DEF Next

LEMMA Invariant == Spec => []IInv
BY Initially, InvariantStep, PTL DEF Spec

(* Every reachable state of the pipeline is well typed, and the lease of a *)
(* running run is its last attempt's. *)
THEOREM TypeCorrect == Spec => []TypeOK
<1>1. IInv => TypeOK
  BY DEF IInv
<1> QED  BY <1>1, Invariant, PTL

(* The rows agree with the object store, which has no fence. *)
THEOREM RowsAgreeWithStorage == Spec => []RowsMatchStorage
<1>1. IInv => RowsMatchStorage
  <2> SUFFICES ASSUME IInv, NEW c \in Candidate
               PROVE  LET r == row[c] IN
                      /\ r.stage # "absent" => r.text = source[c] /\ r.text # None
                      /\ r.stage \notin {"absent", "source"} =>
                           /\ r.image.media \in Media
                           /\ r.image.by = images[c][r.image.media]
                           /\ r.image.by # None
                      /\ r.stage = "published" => html[c] = Page(r)
    BY DEF RowsMatchStorage
  <2> QED  BY TaskFacts DEF RowGood, TextKept, ImageKept, Imaged, IInv, TypeOK, Rows, Stages
<1> QED  BY <1>1, Invariant, PTL

(* Whoever stored a page, it is the page of the row. *)
THEOREM PagesFollowRows == Spec => []PageFollowsRow
<1>1. IInv => PageFollowsRow
  BY DEF IInv, RowGood, PageFollowsRow
<1> QED  BY <1>1, Invariant, PTL

(* A stored page has its manifest and its image. *)
THEOREM StorageIsOrdered == Spec => []StoredInOrder
<1>1. IInv => StoredInOrder
  <2> SUFFICES ASSUME IInv, NEW c \in Candidate, html[c] # NoPage
               PROVE  source[c] = html[c].text /\ images[c][html[c].media] # None
    BY DEF StoredInOrder
  <2>1. /\ row[c].stage \in Imaged /\ html[c] = Page(row[c])
        /\ TextKept(row[c], c) /\ ImageKept(row[c], c)
    BY DEF IInv, RowGood, Imaged
  <2>2. html[c].text = row[c].text /\ html[c].media = row[c].image.media
    BY <2>1 DEF Page
  <2> QED  BY <2>1, <2>2 DEF TextKept, ImageKept
<1> QED  BY <1>1, Invariant, PTL

(* The attempts of a run never disagree on a page. *)
THEOREM ConflictFree == Spec => []NoHashConflict
<1>1. IInv => NoHashConflict
  BY DEF IInv, TaskGood, Known, NoHashConflict
<1> QED  BY <1>1, Invariant, PTL

(* When an attempt has all its results together, every row is ready and is *)
(* the result that it is about to write, whoever has built the candidate. *)
THEOREM BuiltRunIsReady == Spec => []BuiltIsReady
<1>1. IInv => BuiltIsReady
  BY ResultsAreRows DEF BuiltIsReady
<1> QED  BY <1>1, Invariant, PTL

(* So the readiness gate refuses nobody who holds the lease: an attempt that *)
(* has built every candidate, and whose success transaction does not fail, *)
(* completes the run. *)
THEOREM GateIsPassed ==
  Spec => [][\A a \in Attempt : PersistSuccess(a) /\ holder = a =>
               status' = "completed" /\ row' = row]_vars
<1>1. IInv /\ [Next]_vars =>
        [\A a \in Attempt : PersistSuccess(a) /\ holder = a =>
           status' = "completed" /\ row' = row]_vars
  BY PersistSuccessStep
<1> QED  BY <1>1, Invariant, PTL DEF Spec

(* What a row can become in one step. *)
LEMMA RowAdvances ==
  ASSUME IInv, [Next]_vars, NEW c \in Candidate
  PROVE  /\ row[c].stage = "published" => row'[c] = row[c]
         /\ Rank(row'[c].stage) >= Rank(row[c].stage)
<1>1. CASE row'[c] = row[c]
  <2>1. Rank(row[c].stage) \in Nat
    BY DEF IInv, TypeOK, Rows, Stages, Rank
  <2> QED  BY <1>1, <2>1
<1>2. ASSUME NEW a \in Attempt, NEW d \in Candidate,
             Checkpoint(a, d) \/ CheckpointFails(a, d)
      PROVE  \/ row'[c] = row[c]
             \/ /\ row[c].stage # "published"
                /\ Rank(row'[c].stage) >= Rank(row[c].stage)
  <2>0. /\ task[a][d].at \in Checkpoints
        /\ \/ UNCHANGED row
           \/ holder = a /\ row' = [row EXCEPT ![d] = Checkpointed(task[a][d])]
    BY <1>2 DEF Checkpoint, CheckpointFails
  <2>1. CASE UNCHANGED row \/ d # c
    BY <2>0, <2>1 DEF IInv, TypeOK
  <2>2. CASE d = c /\ holder = a /\ row' = [row EXCEPT ![d] = Checkpointed(task[a][d])]
    <3>1. /\ task[a][c].at \in Checkpoints /\ row'[c] = Checkpointed(task[a][c])
      BY <2>0, <2>2 DEF IInv, TypeOK
    <3>2. Known(task[a][c], c) /\ Held(task[a][c], c) /\ RowGood(c)
      BY <2>2, TaskFacts
    <3>3. CASE task[a][c].at = "draft"
      BY <3>1, <3>2, <3>3 DEF Checkpointed, Held, Rank
    <3>4. CASE task[a][c].at = "imaged"
      BY <3>1, <3>2, <3>4 DEF Checkpointed, Held, Rank
    <3>5. CASE task[a][c].at \in {"final", "reject"}
      <4>1. row[c].stage \in {"image", "failed"}
        BY <3>2, <3>5 DEF Known, Held, Frozen, Imaged
      <4>2. row'[c].stage \in {"published", "failed"}
        BY <3>1, <3>2, <3>5 DEF Checkpointed, Known
      <4> QED  BY <4>1, <4>2 DEF Rank
    <3> QED  BY <3>1, <3>3, <3>4, <3>5 DEF Checkpoints
  <2> QED  BY <2>0, <2>1, <2>2
<1>3. ASSUME NEW a \in Attempt, PersistSuccess(a)
      PROVE  row'[c] = row[c]
  BY <1>3, PersistSuccessStep
<1>4. CASE \E a \in Attempt : AttemptStep(a)
  <2>1. UNCHANGED row \/ \E a \in Attempt : PersistSuccess(a)
    BY <1>4 DEF AttemptStep, Claim, LoadExistingCandidates, RecordFailure, ObserveFailure,
       PersistFails
  <2> QED  BY <1>1, <1>3, <2>1
<1>5. CASE \E a \in Attempt, d \in Candidate : TaskStep(a, d)
  <2>1. PICK a \in Attempt, d \in Candidate : TaskStep(a, d)
    BY <1>5
  <2>2. CASE StartTask(a, d) \/ Recall(a, d) \/ Write(a, d) \/ Keep(a, d)
    BY <1>1, <2>2 DEF StartTask, Recall, Write, Keep
  <2>3. CASE Find(a, d) \/ Paint(a, d) \/ Store(a, d) \/ Publish(a, d)
    BY <1>1, <2>3 DEF Find, Paint, Store, Publish
  <2>4. CASE \E e \in {"retryable", "permanent"} : PublishFails(a, d, e) \/ CallFails(a, d, e)
    BY <1>1, <2>4 DEF PublishFails, CallFails
  <2>5. CASE Checkpoint(a, d) \/ CheckpointFails(a, d)
    BY <1>1, <1>2, <2>5
  <2> QED  BY <2>1, <2>2, <2>3, <2>4, <2>5 DEF TaskStep
<1> QED  BY <1>1, <1>4, <1>5 DEF Next, LoseLease, vars

(* No step undoes progress. *)
THEOREM ProgressLasts == Spec => ProgressIsKept
<1>1. IInv /\ [Next]_vars =>
        [\A c \in Candidate :
           /\ row[c].stage = "published" => row'[c] = row[c]
           /\ Rank(row'[c].stage) >= Rank(row[c].stage)]_vars
  BY RowAdvances
<1> QED  BY <1>1, Invariant, PTL DEF Spec, ProgressIsKept

-----------------------------------------------------------------------------
(* The run that the pipeline builds candidates for is a run as the durable  *)
(* queue promises it: claims, lost leases, recorded failures and success    *)
(* are steps of the abstract life cycle that GenerationQueue implements     *)
(* too, from the moment the run has been requested.                         *)
Life == INSTANCE GenerationLifecycle WITH
  Job <- {"run"}, MaxRetries <- MaxAttempts - 1,
  status <- [j \in {"run"} |-> status], attempts <- [j \in {"run"} |-> claims]

(* An attempt that ends without a result.                                   *)
LEMMA GivenUp ==
  ASSUME IInv, status = "running", claims' = claims,
         status' = "failed" \/ (status' = "requested" /\ claims < MaxAttempts)
  PROVE  Life!LifecycleNext
<1> DEFINE again == IF status' = "requested" THEN {"run"} ELSE {}
<1>1. claims \in 0 .. MaxAttempts
  BY DEF IInv, TypeOK, Attempt
<1>2. again \in SUBSET {j \in {"run"} : [i \in {"run"} |-> claims][j] <= MaxAttempts - 1}
  BY <1>1
<1>3. [j \in {"run"} |-> status'] =
        [j \in {"run"} |-> IF j \in again THEN "requested"
                           ELSE IF j \in {"run"} THEN "failed"
                           ELSE [i \in {"run"} |-> status][j]]
  OBVIOUS
<1> HIDE DEF again
<1>4. Life!GiveUp({"run"})
  BY <1>2, <1>3 DEF Life!GiveUp
<1> QED  BY <1>4 DEF Life!LifecycleNext

(* Whatever attempts overlap, the run's status and claims change as the     *)
(* life cycle lets them.                                                    *)
THEOREM PipelineFollowsLifecycle ==
  Spec => [][Life!LifecycleNext]_(Life!lifecycleVars)
<1>1. IInv /\ [Next]_vars => Life!LifecycleNext \/ UNCHANGED <<status, claims>>
  <2> SUFFICES ASSUME IInv, [Next]_vars
               PROVE  Life!LifecycleNext \/ UNCHANGED <<status, claims>>
    OBVIOUS
  <2>t. /\ claims \in 0 .. MaxAttempts /\ MaxAttempts \in Nat
        /\ holder = IF status = "running" THEN claims ELSE None
    BY DEF IInv, TypeOK, Attempt
  <2>1. CASE LoseLease
    BY <2>1, <2>t, GivenUp DEF LoseLease, Requeued
  <2>2. ASSUME NEW a \in Attempt, Claim(a)
        PROVE  Life!LifecycleNext
    <3>1. status = "requested" /\ status' = "running" /\ claims' = claims + 1
          /\ claims <= MaxAttempts - 1
      BY <2>2, <2>t DEF Claim, Attempt
    <3>2. Life!Begin("run")
      BY <3>1 DEF Life!Begin
    <3> QED  BY <3>2 DEF Life!LifecycleNext
  <2>3. ASSUME NEW a \in Attempt, PersistSuccess(a)
        PROVE  Life!LifecycleNext \/ UNCHANGED <<status, claims>>
    <3>1. CASE holder = a
      <4>1. status = "running" /\ status' = "completed" /\ claims' = claims
        BY <2>3, <2>t, <3>1, PersistSuccessStep DEF PersistSuccess, Attempt
      <4>2. Life!Complete("run")
        BY <4>1 DEF Life!Complete
      <4> QED  BY <4>2 DEF Life!LifecycleNext
    <3> QED  BY <2>3, <3>1, PersistSuccessStep DEF PersistSuccess
  <2>4. ASSUME NEW a \in Attempt, RecordFailure(a)
        PROVE  Life!LifecycleNext \/ UNCHANGED <<status, claims>>
    <3>1. CASE holder = a
      <4>1. status = "running" /\ claims' = claims
        BY <2>4, <2>t, <3>1 DEF RecordFailure, Attempt
      <4>2. status' = "failed" \/ (status' = "requested" /\ claims < MaxAttempts)
        BY <2>4, <3>1 DEF RecordFailure, Requeued
      <4> QED  BY <4>1, <4>2, GivenUp
    <3> QED  BY <2>4, <3>1 DEF RecordFailure
  <2>5. ASSUME NEW a \in Attempt,
               \/ LoadExistingCandidates(a)
               \/ \E c \in Candidate : ObserveFailure(a, c)
               \/ \E e \in {"retryable", "permanent"} : PersistFails(a, e)
        PROVE  UNCHANGED <<status, claims>>
    BY <2>5 DEF LoadExistingCandidates, ObserveFailure, PersistFails, run
  <2>6. ASSUME NEW a \in Attempt, NEW c \in Candidate, TaskStep(a, c)
        PROVE  UNCHANGED <<status, claims>>
    <3>1. CASE StartTask(a, c) \/ Recall(a, c) \/ Write(a, c) \/ Keep(a, c)
      BY <3>1 DEF StartTask, Recall, Write, Keep, run
    <3>2. CASE Find(a, c) \/ Paint(a, c) \/ Store(a, c) \/ Publish(a, c)
      <4>1. Find(a, c) => UNCHANGED run
        BY DEF Find
      <4>2. Paint(a, c) \/ Store(a, c) => UNCHANGED run
        BY DEF Paint, Store
      <4>3. Publish(a, c) => UNCHANGED run
        BY DEF Publish
      <4> QED  BY <3>2, <4>1, <4>2, <4>3 DEF run
    <3>3. CASE \E e \in {"retryable", "permanent"} :
                 PublishFails(a, c, e) \/ CallFails(a, c, e)
      BY <3>3 DEF PublishFails, CallFails, run
    <3>4. CASE Checkpoint(a, c) \/ CheckpointFails(a, c)
      BY <3>4 DEF Checkpoint, CheckpointFails, run
    <3> QED  BY <2>6, <3>1, <3>2, <3>3, <3>4 DEF TaskStep
  <2>7. CASE UNCHANGED vars
    BY <2>7 DEF vars
  <2> QED  BY <2>1, <2>2, <2>3, <2>4, <2>5, <2>6, <2>7 DEF Next, AttemptStep
<1>2. UNCHANGED <<status, claims>> => UNCHANGED Life!lifecycleVars
  BY DEF Life!lifecycleVars
<1> QED  BY <1>1, <1>2, Invariant, PTL DEF Spec
=============================================================================
