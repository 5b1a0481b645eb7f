----------------------------- MODULE WarcExport -----------------------------
(***************************************************************************)
(* The requests that read what the recorder keeps: GET /tabs/{id}/warc     *)
(* (get_warc of app.py with build_warc of warc.py) and                     *)
(* GET /tabs/{id}/resources/{request_id}, interleaved with the events and  *)
(* the end of the tab in ResourceRecorder.  The handlers of one tab take   *)
(* rec.lock; one that reads nothing of the recorder (goto, click, html,    *)
(* ...) just holds it for a while.                                         *)
(***************************************************************************)
EXTENDS ResourceRecorder

CONSTANTS
  Reader,        \* HTTP requests
  NoReader,      \* nobody
  Jobs           \* what the readers of this instance ask for

ASSUME ExportAssumption ==
  /\ NoReader \notin Reader
  /\ Jobs \subseteq {"warc", "rendered", "body", "other"}

VARIABLES
  lock,          \* the holder of rec.lock
  running,       \* the handler that found rec.lock free and goes on at once
  job,           \* what a reader has asked for
  at,            \* where its handler stands
  current,       \* get_warc: current_loader
  retain,        \* get_warc: mode == COPY_AND_RETAIN
  todo,          \* get_warc: what is left of the loop over rec.resources
  overrides,     \* get_warc: body_overrides, the bodies Chromium gave
  mainDoc,       \* get_warc: the entry of main_doc_request_id, as a set
  meta,          \* get_resource_body: the entry looked up, as a set
  reply,         \* what the client is sent
  whole,         \* history: the entry had its body when it was asked for
  calm           \* history: the tab has not navigated or gone since it was made

handler == <<job, at, current, retain, todo, overrides, mainDoc, meta, reply,
             whole>>
exportVars == <<lock, running, handler, calm>>
vars == <<recVars, exportVars>>

Silence == [kind |-> "none"]
Gone == [kind |-> "gone"]
Served == [kind |-> "body"]
Failed == [kind |-> "error"]
Other == [kind |-> "other"]

ExportInit ==
  /\ RecInit
  /\ lock = NoReader
  /\ running = NoReader
  /\ job = [x \in Reader |-> "other"]
  /\ at = [x \in Reader |-> "idle"]
  /\ current = [x \in Reader |-> NoLoader]
  /\ retain = [x \in Reader |-> FALSE]
  /\ todo = [x \in Reader |-> {}]
  /\ overrides = [x \in Reader |-> {}]
  /\ mainDoc = [x \in Reader |-> {}]
  /\ meta = [x \in Reader |-> {}]
  /\ reply = [x \in Reader |-> Silence]
  /\ whole = [x \in Reader |-> FALSE]
  /\ calm = [x \in Reader |-> FALSE]

\* The handler leaves rec.lock and answers.
Answer(x, r) ==
  /\ lock' = NoReader
  /\ at' = [at EXCEPT ![x] = "done"]
  /\ reply' = [reply EXCEPT ![x] = r]

\* The handler holds rec.lock over an await.
Hold(x, where) ==
  /\ lock' = x
  /\ at' = [at EXCEPT ![x] = where]
  /\ UNCHANGED reply

\* It gets rec.lock.
Locks(x) ==
  /\ at[x] = "waiting"
  /\ lock = NoReader
  /\ running \in {x, NoReader}
  /\ running' = NoReader

\* It goes on after an await, when no other handler runs.
Resumes(x, where) ==
  /\ at[x] = where
  /\ running = NoReader
  /\ UNCHANGED running

----------------------------------------------------------------------------
(* Before the lock                                                         *)

\* rec.lock is free and nobody queues for it.
Uncontended == lock = NoReader /\ \A y \in Reader : at[y] # "waiting"

\* _require_tab finds the tab; get_warc reads the loader, get_resource_body
\* the entry (404 if there is none).  No await precedes that for rec.lock.
Ask(x) ==
  /\ at[x] = "idle"
  /\ running = NoReader
  /\ registered
  /\ \E j \in Jobs :
       /\ job' = [job EXCEPT ![x] = j]
       /\ meta' \in {[meta EXCEPT ![x] = m] :
                       m \in IF j = "body" THEN {{k} : k \in stored} ELSE {{}}}
  /\ current' = [current EXCEPT ![x] = loader]
  /\ whole' = [whole EXCEPT ![x] = meta'[x] \subseteq body]
  /\ calm' = [calm EXCEPT ![x] = TRUE]
  /\ at' = [at EXCEPT ![x] = "waiting"]
  /\ running' = IF Uncontended THEN x ELSE NoReader
  /\ UNCHANGED <<recVars, lock, retain, todo, overrides, mainDoc, reply>>

----------------------------------------------------------------------------
(* GET /tabs/{id}/warc, with the lock held                                 *)

OwnerOf(k) == owner[k[1]]

\* The entries of loader l and of workers.
OfLoader(l) == {k \in stored : OwnerOf(k) \in {NoLoader, l}}

\* Fault: include_all_loaders is not passed on.
Select_Current(x) == OfLoader(current[x])

\* _select: the entries that go into the archive.
Select(x) == IF retain'[x] THEN stored ELSE OfLoader(current[x])

\* The first document entry of the loader, in the order of the dict:
\* redirects of a document are document entries too, and come before its
\* answer.
FirstDocument(x) ==
  {k \in stored :
     /\ k[1] \in Doc
     /\ OwnerOf(k) = current[x]
     /\ \A n \in 0 .. k[2] - 1 : <<k[1], n>> \notin stored}

\* Fault: the conversion record is written in any case.
Refers_Dangling(x) == mainDoc[x]

\* It is written if the entry it refers to is.
Refers(x) == mainDoc[x] \cap Select(x)

\* build_warc: an entry has its body from Chromium, from the record, or is
\* written with WARC-Truncated.
Warc(x, refers, shown) ==
  [kind |-> "warc",
   entries |-> Select(x),
   bodies |-> Select(x) \cap (overrides'[x] \cup body),
   refers |-> refers,
   shown |-> shown]

\* Without an await: the loop has ended, the main document is looked up if a
\* rendition is wanted, and with none to wait for the archive is built.
AfterBodies(x) ==
  IF job[x] = "rendered" /\ FirstDocument(x) # {}
  THEN /\ mainDoc' = [mainDoc EXCEPT ![x] = FirstDocument(x)]
       /\ Hold(x, "rendering")
  ELSE /\ Answer(x, Warc(x, {}, NoLoader))
       /\ UNCHANGED mainDoc

Loop(x) ==
  IF todo'[x] = {}
  THEN AfterBodies(x)
  ELSE Hold(x, "bodies") /\ UNCHANGED mainDoc

\* Bodies are asked for in NO_COPY mode only.
WarcLocked(x) ==
  /\ Locks(x)
  /\ job[x] \in {"warc", "rendered"}
  /\ retain' = [retain EXCEPT ![x] = mode_for = "copy_and_retain"]
  /\ todo' = [todo EXCEPT ![x] =
                IF mode_for = "no_copy" THEN OfLoader(current[x]) \ body
                ELSE {}]
  /\ UNCHANGED <<recVars, job, current, overrides, meta, whole, calm>>
  /\ Loop(x)

\* Chromium has no body for a redirect, nor before the answer has finished.
Readable(k) == k = Final(k[1]) /\ net[k[1]] = "finished"

LiveBody(x) ==
  /\ Resumes(x, "bodies")
  /\ \E k \in todo[x] :
       /\ todo' = [todo EXCEPT ![x] = @ \ {k}]
       /\ \/ Readable(k) /\ overrides' = [overrides EXCEPT ![x] = @ \cup {k}]
          \/ UNCHANGED overrides
  /\ UNCHANGED <<recVars, job, current, retain, meta, whole, calm>>
  /\ Loop(x)

\* capture_rendered_payload, capture_dom_snapshot: the page as it is now.
Rendered(x) ==
  /\ Resumes(x, "rendering")
  /\ UNCHANGED <<recVars, job, current, retain, todo, overrides, mainDoc, meta,
                 whole, calm>>
  /\ \/ Answer(x, Warc(x, Refers(x), page))
     \/ Answer(x, Failed)

----------------------------------------------------------------------------
(* GET /tabs/{id}/resources/{request_id}, and the handlers that just hold  *)
(* the lock                                                                *)

\* Fault: the body is always asked from Chromium.
Buffered_Never(x) == FALSE

Buffered(x) == meta[x] \subseteq body

BodyLocked(x) ==
  /\ Locks(x)
  /\ job[x] = "body"
  /\ IF Buffered(x) THEN Answer(x, Served) ELSE Hold(x, "fetching")
  /\ UNCHANGED <<recVars, job, current, retain, todo, overrides, mainDoc, meta,
                 whole, calm>>

BodyAnswered(x) ==
  /\ Resumes(x, "fetching")
  /\ \/ (\A k \in meta[x] : Readable(k)) /\ Answer(x, Served)
     \/ Answer(x, Gone)
  /\ UNCHANGED <<recVars, job, current, retain, todo, overrides, mainDoc, meta,
                 whole, calm>>

OtherLocked(x) ==
  /\ Locks(x)
  /\ job[x] = "other"
  /\ Hold(x, "working")
  /\ UNCHANGED <<recVars, job, current, retain, todo, overrides, mainDoc, meta,
                 whole, calm>>

OtherDone(x) ==
  /\ Resumes(x, "working")
  /\ Answer(x, Other)
  /\ UNCHANGED <<recVars, job, current, retain, todo, overrides, mainDoc, meta,
                 whole, calm>>

\* The client has its answer; the handler's variables are gone.
Take(x) ==
  /\ Resumes(x, "done")
  /\ at' = [at EXCEPT ![x] = "idle"]
  /\ job' = [job EXCEPT ![x] = "other"]
  /\ current' = [current EXCEPT ![x] = NoLoader]
  /\ retain' = [retain EXCEPT ![x] = FALSE]
  /\ overrides' = [overrides EXCEPT ![x] = {}]
  /\ mainDoc' = [mainDoc EXCEPT ![x] = {}]
  /\ meta' = [meta EXCEPT ![x] = {}]
  /\ reply' = [reply EXCEPT ![x] = Silence]
  /\ whole' = [whole EXCEPT ![x] = FALSE]
  /\ calm' = [calm EXCEPT ![x] = FALSE]
  /\ UNCHANGED <<recVars, lock, todo>>

----------------------------------------------------------------------------
(* Everything together                                                     *)

Disturbance ==
  /\ (\E d \in Request : FrameNavigated(d)) \/ RegistryRemove \/ DetachTab
  /\ running = NoReader
  /\ calm' = [x \in Reader |-> FALSE]
  /\ UNCHANGED <<lock, running, handler>>

RecordingStep ==
  /\ \E r \in Request :
       \/ RequestSent(r) \/ Redirected(r)
       \/ ResponseReceived(r) \/ LoadingFinished(r)
       \/ CaptureStep(r)
  /\ running = NoReader
  /\ UNCHANGED exportVars

Work(x) ==
  \/ WarcLocked(x)
  \/ LiveBody(x)
  \/ Rendered(x)
  \/ BodyLocked(x)
  \/ BodyAnswered(x)
  \/ OtherLocked(x)
  \/ OtherDone(x)

ExportNext ==
  \/ \E x \in Reader : Ask(x) \/ Work(x) \/ Take(x)
  \/ RecordingStep
  \/ Disturbance

ExportSafe == ExportInit /\ [][ExportNext]_vars

----------------------------------------------------------------------------
(* Properties                                                              *)

Built(x) == at[x] # "done" /\ at'[x] = "done" /\ reply'[x].kind = "warc"

\* The values of the variables, and the lock is held by whom it says.
ExportTypeOK ==
  /\ {lock, running} \subseteq Reader \cup {NoReader}
  /\ at \in [Reader -> {"idle", "waiting", "bodies", "rendering", "fetching",
                        "working", "done"}]
  /\ current \in [Reader -> Loader]
  /\ \A x \in Reader :
       /\ todo[x] \cup overrides[x] \cup mainDoc[x] \cup meta[x] \subseteq Key
       /\ Cardinality(mainDoc[x]) <= 1
       /\ lock = x <=>
            at[x] \in {"bodies", "rendering", "fetching", "working"}

\* An archive of a tab that neither navigated nor went since the request
\* holds every answer and redirect of its page and its workers; in retain
\* mode that of a registered tab holds all there ever were.
ArchiveComplete ==
  [][\A x \in Reader :
       Built(x) /\ (IF mode = "copy_and_retain" THEN registered
                    ELSE calm[x])
         => Told(Current) \subseteq reply'[x].entries]_vars

\* A conversion record refers to an entry of its archive.
NeverDangles ==
  [][\A x \in Reader : Built(x) => reply'[x].refers \subseteq
                                     reply'[x].entries]_vars

\* A conversion record refers to the document that was rendered: that of a
\* page left meanwhile is pruned, and the record left out.  (In retain mode
\* it stays, and the record of the new page refers to the old document.)
RendersItsDocument ==
  [][\A x \in Reader :
       Built(x) /\ registered /\ mode # "copy_and_retain" =>
         \A k \in reply'[x].refers : OwnerOf(k) = reply'[x].shown]_vars

\* A body that was buffered when it was asked for is served, whatever has
\* become of the entry or the tab since.
BufferedServed ==
  \A x \in Reader : whole[x] /\ job[x] = "body" => reply[x] # Gone

=============================================================================
