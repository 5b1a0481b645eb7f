-------------------------- MODULE WarcExportProofs --------------------------
(***************************************************************************)
(* Every execution of the readers of one tab, with any number of readers   *)
(* and requests, keeps ExportTypeOK, BufferedServed, ArchiveComplete,      *)
(* NeverDangles and RendersItsDocument.  The invariant rests on that of    *)
(* the recorder.                                                           *)
(***************************************************************************)
EXTENDS WarcExport, ResourceRecorderProofs, FiniteSetTheorems

\* Documents the main frame has shown: nothing is told of them any more but
\* the end of their answer.
Past(d) == net[d] \in {"shown", "blank", "finished"}

\* A document is its own loader, and the recorder's loader is the page.
DocInv ==
  /\ \A d \in Doc : IF net[d] \in {"unused", "blank"} THEN hop[d] = 0
                    ELSE owner[d] = d
  /\ \A d \in Doc : Past(d) => \A k \in fresh : k[1] # d
  /\ registered => loader = page
  /\ loader # NoLoader => Past(loader)

Held == {"bodies", "rendering", "fetching", "working"}

\* The rest of the types.
ReaderTypes ==
  /\ ExportTypeOK
  /\ {todo, overrides, mainDoc, meta} \subseteq [Reader -> SUBSET Key]
  /\ reply = [x \in Reader |-> reply[x]]
  /\ job = [x \in Reader |-> job[x]]
  /\ {retain, whole, calm} \subseteq [Reader -> BOOLEAN]

\* What a reader knows: its loader was shown and its main document is that
\* loader's; its mode is the tab's while the tab is registered.
WarcInv(x) ==
  /\ current[x] # NoLoader => Past(current[x])
  /\ \A k \in mainDoc[x] :
       current[x] # NoLoader /\ k[1] = current[x] /\ OwnerOf(k) = current[x]
  /\ at[x] \in Held /\ job[x] \in {"warc", "rendered"} =>
       /\ retain[x] => mode = "copy_and_retain"
       /\ registered /\ mode = "copy_and_retain" => retain[x]
  /\ at[x] \in {"bodies", "rendering"} => job[x] \in {"warc", "rendered"}
  /\ calm[x] => registered /\ current[x] = page
  /\ at[x] \in {"idle", "waiting"} => mainDoc[x] = {}

\* A body that was there stays, and is not asked for.
BodyInv(x) ==
  /\ whole[x] /\ job[x] = "body" =>
       meta[x] \subseteq body /\ at[x] # "fetching" /\ reply[x] # Gone
  /\ at[x] # "done" => reply[x] # Gone

ReaderInv == \A x \in Reader : WarcInv(x) /\ BodyInv(x)

XInv == IInv /\ DocInv /\ ReaderTypes /\ ReaderInv

USE RecorderAssumption, ExportAssumption

\* The initial states satisfy the invariant.
LEMMA XInit == ExportInit => XInv
<1> SUFFICES ASSUME ExportInit PROVE XInv
  OBVIOUS
<1>1. IInv
  BY InitInv DEF ExportInit
<1>2. DocInv
  BY DEF ExportInit, RecInit, DocInv, Past
<1>3. ReaderTypes
  <2>1. \A x \in Reader : Cardinality(mainDoc[x]) <= 1
    BY FS_EmptySet DEF ExportInit
  <2>2. {retain, whole, calm} \subseteq [Reader -> BOOLEAN]
    BY DEF ExportInit
  <2> QED
    BY <2>1, <2>2 DEF ExportInit, ReaderTypes, ExportTypeOK, Loader
<1>4. ReaderInv
  BY DEF ExportInit, ReaderInv, WarcInv, BodyInv, Held, Silence, Gone
<1> QED
  BY <1>1, <1>2, <1>3, <1>4 DEF XInv

----------------------------------------------------------------------------
(* Steps of the recorder                                                   *)

\* What every step of the recorder leaves to the readers.
LEMMA RecKeeps ==
  ASSUME IInv, RecNext
  PROVE  /\ body \subseteq body' /\ mode' = mode
         /\ \A d \in Request : net[d] # "unused" => owner'[d] = owner[d]
         /\ \A d \in Request : Past(d) => Past(d)'
         /\ registered' => registered
<1> USE DEF IInv, RecTypeOK
<1>1. ASSUME NEW r \in Request, CdpEvent(r)
      PROVE  /\ body' = body /\ mode' = mode /\ registered' = registered
             /\ \A d \in Request : net[d] # "unused" => owner'[d] = owner[d]
             /\ \A d \in Request : Past(d) => Past(d)'
  BY <1>1 DEF CdpEvent, RequestSent, Redirected, ResponseReceived,
     LoadingFinished, FrameNavigated, Past, SentBy
<1>2. ASSUME NEW r \in Request, CaptureStep(r)
      PROVE  body \subseteq body' /\ UNCHANGED <<mode, owner, net, registered>>
  BY <1>2 DEF CaptureStep, CaptureStarts, CaptureAnswered, CaptureStores,
     StoreBody, chromium
<1>3. ASSUME RegistryRemove \/ DetachTab
      PROVE  /\ UNCHANGED <<body, mode, owner, net>>
             /\ registered' => registered
  BY <1>3 DEF RegistryRemove, DetachTab, chromium
<1> QED
  BY <1>1, <1>2, <1>3 DEF RecNext, Past

\* Every step of the recorder keeps DocInv.
LEMMA RecDoc == ASSUME IInv, DocInv, RecNext PROVE DocInv'
<1> USE DEF IInv, RecTypeOK
<1>1. ASSUME NEW r \in Request, RequestSent(r) PROVE DocInv'
  BY <1>1 DEF DocInv, RequestSent, SentBy, Past, OwnerInv, Loader
<1>2. ASSUME NEW r \in Request, Redirected(r) PROVE DocInv'
  BY <1>2 DEF DocInv, Redirected, StoreHop, HopKey, Past, Loader
<1>3. ASSUME NEW r \in Request, ResponseReceived(r) PROVE DocInv'
  BY <1>3 DEF DocInv, ResponseReceived, Final, Past, Loader
<1>4. ASSUME NEW r \in Request, LoadingFinished(r) PROVE DocInv'
  BY <1>4 DEF DocInv, LoadingFinished, Past, Loader
<1>5. ASSUME NEW r \in Request, FrameNavigated(r) PROVE DocInv'
  BY <1>5 DEF DocInv, FrameNavigated, Past, Loader, OwnerInv
<1>6. ASSUME NEW r \in Request, CaptureStep(r) PROVE DocInv'
  BY <1>6 DEF DocInv, CaptureStep, CaptureStarts, CaptureAnswered,
     CaptureStores, Past, chromium
<1>7. ASSUME RegistryRemove \/ DetachTab PROVE DocInv'
  BY <1>7 DEF DocInv, RegistryRemove, DetachTab, Past, chromium
<1> QED
  BY <1>1, <1>2, <1>3, <1>4, <1>5, <1>6, <1>7 DEF RecNext, CdpEvent

\* A step of the recorder keeps what the readers know.
LEMMA RecInv == ASSUME XInv, RecordingStep \/ Disturbance PROVE XInv'
<1> USE DEF XInv
<1>1. RecNext /\ UNCHANGED <<lock, running, handler>>
  BY DEF RecordingStep, Disturbance, exportVars, RecNext, CdpEvent
<1>2. IInv' /\ DocInv'
  BY <1>1, NextInv, RecDoc
<1>3. calm' \in [Reader -> BOOLEAN]
      /\ \A x \in Reader : calm'[x] => calm[x] /\ UNCHANGED <<registered, page>>
  <2>1. CASE RecordingStep
    <3>1. calm' = calm /\ UNCHANGED <<registered, page>>
      BY <2>1 DEF RecordingStep, exportVars, RequestSent, Redirected,
         ResponseReceived, LoadingFinished, CaptureStep, CaptureStarts,
         CaptureAnswered, CaptureStores, chromium
    <3> QED
      BY <3>1 DEF ReaderTypes
  <2>2. CASE Disturbance
    <3>1. calm' = [x \in Reader |-> FALSE]
      BY <2>2 DEF Disturbance
    <3> QED
      BY <3>1
  <2> QED
    BY <2>1, <2>2
<1>4. ReaderTypes'
  BY <1>1, <1>3 DEF ReaderTypes, ExportTypeOK, handler
<1>5. ASSUME NEW x \in Reader PROVE WarcInv(x)' /\ BodyInv(x)'
  <2>1. WarcInv(x) /\ BodyInv(x)
    BY DEF ReaderInv
  <2>2. current[x] \in Loader /\ mainDoc[x] \subseteq Key
    BY DEF ReaderTypes, ExportTypeOK
  <2>3. current[x] # NoLoader => current[x] \in Request /\ net[current[x]] # "unused"
    BY <2>1, <2>2 DEF WarcInv, Past, Loader
  <2>4. WarcInv(x)'
    BY <1>1, <1>3, <2>1, <2>3, RecKeeps DEF WarcInv, handler, OwnerOf
  <2>5. BodyInv(x)'
    BY <1>1, <2>1, RecKeeps DEF BodyInv, handler
  <2> QED
    BY <2>4, <2>5
<1> QED
  BY <1>2, <1>4, <1>5 DEF ReaderInv

----------------------------------------------------------------------------
(* Steps of the readers                                                    *)

\* A step of reader x leaves the recorder and the other readers alone; this
\* is all that is left to show.
LEMMA OneReader ==
  ASSUME XInv, NEW x \in Reader, UNCHANGED recVars,
         ReaderTypes',
         \A y \in Reader \ {x} :
           /\ UNCHANGED <<job[y], at[y], current[y], retain[y]>>
           /\ UNCHANGED <<mainDoc[y], meta[y], reply[y], whole[y], calm[y]>>,
         WarcInv(x)', BodyInv(x)'
  PROVE  XInv'
<1> USE DEF XInv
<1>1. UNCHANGED <<net, hop, owner, page, mode, registered, loader, fresh, body>>
  BY DEF recVars, chromium
<1>2. IInv'
  BY NextInv
<1>3. DocInv'
  BY <1>1 DEF DocInv, Past
<1>4. ASSUME NEW y \in Reader, y # x PROVE WarcInv(y)' /\ BodyInv(y)'
  BY <1>1, <1>4 DEF ReaderInv, WarcInv, BodyInv, Past, OwnerOf
<1> QED
  BY <1>2, <1>3, <1>4 DEF ReaderInv

\* Where a handler may stand when it goes on, and where it goes.
MayGo(x) ==
  \/ at[x] = "waiting" /\ lock = NoReader
  \/ at[x] \in Held

Moves(x) ==
  \/ /\ lock' = x
     /\ \E w \in Held : at' = [at EXCEPT ![x] = w]
     /\ UNCHANGED reply
  \/ /\ lock' = NoReader
     /\ at' = [at EXCEPT ![x] = "done"]
     /\ \E r : reply' = [reply EXCEPT ![x] = r]

\* Its lock is held by whom it says, then.
LEMMA LockStep ==
  ASSUME ReaderTypes, NEW x \in Reader, MayGo(x), Moves(x)
  PROVE  /\ lock' \in Reader \cup {NoReader}
         /\ at' \in [Reader -> {"idle", "waiting", "bodies", "rendering",
                                "fetching", "working", "done"}]
         /\ \A y \in Reader : lock' = y <=> at'[y] \in Held
         /\ reply' = [y \in Reader |-> reply'[y]]
         /\ \A y \in Reader \ {x} : UNCHANGED <<at[y], reply[y]>>
<1> USE DEF ReaderTypes, ExportTypeOK, Held
<1>1. \A y \in Reader \ {x} : at[y] \notin Held
  BY DEF MayGo
<1>2. CASE lock' = x /\ UNCHANGED reply
  BY <1>1, <1>2 DEF Moves
<1>3. CASE lock' = NoReader
  BY <1>1, <1>3 DEF Moves
<1> QED
  BY <1>2, <1>3 DEF Moves

\* A request is made: the page's loader is read, and the body looked up.
LEMMA AskInv == ASSUME XInv, NEW x \in Reader, Ask(x) PROVE XInv'
<1> USE DEF XInv
<1>1. PICK j \in Jobs, m \in {{}} \cup {{k} : k \in stored} :
        job' = [job EXCEPT ![x] = j] /\ meta' = [meta EXCEPT ![x] = m]
  BY DEF Ask
<1>2. /\ at[x] = "idle" /\ registered
      /\ at' = [at EXCEPT ![x] = "waiting"]
      /\ current' = [current EXCEPT ![x] = loader]
      /\ whole' = [whole EXCEPT ![x] = meta'[x] \subseteq body]
      /\ calm' = [calm EXCEPT ![x] = TRUE]
      /\ running' \in Reader \cup {NoReader}
      /\ UNCHANGED <<recVars, lock, retain, todo, overrides, mainDoc, reply>>
  BY DEF Ask
<1>3. m \subseteq Key /\ loader \in Loader
  BY DEF IInv, RecTypeOK
<1>4. ReaderTypes'
  <2>1. meta' \in [Reader -> SUBSET Key] /\ current' \in [Reader -> Loader]
        /\ job' = [y \in Reader |-> job'[y]]
    BY <1>1, <1>2, <1>3 DEF ReaderTypes, ExportTypeOK
  <2>2. {whole', calm'} \subseteq [Reader -> BOOLEAN]
    BY <1>2 DEF ReaderTypes
  <2>3. /\ at' \in [Reader -> {"idle", "waiting", "bodies", "rendering",
                               "fetching", "working", "done"}]
        /\ \A y \in Reader : lock' = y <=> at'[y] \in Held
    BY <1>2 DEF ReaderTypes, ExportTypeOK, Held
  <2> QED
    BY <1>2, <2>1, <2>2, <2>3 DEF ReaderTypes, ExportTypeOK, Held
<1>5. WarcInv(x)'
  BY <1>2 DEF ReaderTypes, ReaderInv, WarcInv, DocInv, ExportTypeOK, Held,
     Past, recVars, chromium
<1>6. BodyInv(x)'
  BY <1>2 DEF ReaderTypes, ReaderInv, BodyInv, ExportTypeOK, recVars
<1>7. \A y \in Reader \ {x} :
           /\ UNCHANGED <<job[y], at[y], current[y], retain[y]>>
           /\ UNCHANGED <<mainDoc[y], meta[y], reply[y], whole[y], calm[y]>>
  BY <1>1, <1>2 DEF ReaderTypes, ExportTypeOK
<1> QED
  BY <1>2, <1>4, <1>5, <1>6, <1>7, OneReader

\* There is at most one first document, and it is the reader's loader.
LEMMA OneDocument ==
  ASSUME XInv, NEW x \in Reader
  PROVE  /\ FirstDocument(x) \subseteq Key
         /\ Cardinality(FirstDocument(x)) <= 1
         /\ \A k \in FirstDocument(x) :
              /\ current[x] # NoLoader
              /\ k[1] = current[x] /\ OwnerOf(k) = current[x]
<1> USE DEF XInv
<1>1. FirstDocument(x) \subseteq Key
  BY DEF FirstDocument, IInv, RecTypeOK
<1>2. ASSUME NEW k \in FirstDocument(x)
      PROVE  /\ current[x] # NoLoader
             /\ k[1] = current[x] /\ OwnerOf(k) = current[x]
  <2>1. k[1] \in Doc /\ k[1] \in Request /\ k[2] \in Chain
    BY <1>1, <1>2, Keys DEF FirstDocument
  <2>2. hop[k[1]] # 0 \/ Answered(k[1])
    BY <1>2, <2>1 DEF FirstDocument, IInv, StoredInv, Told, Chain
  <2>3. owner[k[1]] = k[1]
    BY <2>1, <2>2 DEF DocInv, Answered
  <2> QED
    BY <1>2, <2>1, <2>3 DEF FirstDocument, OwnerOf
<1>3. ASSUME NEW k \in FirstDocument(x), NEW j \in FirstDocument(x)
      PROVE  k = j
  <2>1. /\ k[1] = j[1] /\ k = <<k[1], k[2]>> /\ j = <<j[1], j[2]>>
        /\ k[2] \in Nat /\ j[2] \in Nat
    BY <1>1, <1>2, <1>3, Keys DEF Chain
  <2>2. ~(k[2] < j[2]) /\ ~(j[2] < k[2])
    BY <1>3, <2>1 DEF FirstDocument
  <2> QED
    BY <2>1, <2>2
<1>4. Cardinality(FirstDocument(x)) <= 1
  <2>1. CASE FirstDocument(x) = {}
    BY <2>1, FS_EmptySet
  <2>2. CASE FirstDocument(x) # {}
    <3>1. PICK k : FirstDocument(x) = {k}
      BY <1>3, <2>2
    <3> QED
      BY <3>1, FS_Singleton
  <2> QED
    BY <2>1, <2>2
<1> QED
  BY <1>1, <1>2, <1>4

\* The loop over the bodies goes on, or its end does.
LEMMA LoopInv ==
  ASSUME XInv, NEW x \in Reader, Loop(x), MayGo(x),
         job[x] \in {"warc", "rendered"},
         UNCHANGED <<recVars, job, current, meta, whole, calm>>,
         running' \in Reader \cup {NoReader},
         {todo', overrides'} \subseteq [Reader -> SUBSET Key],
         retain' \in [Reader -> BOOLEAN],
         \A y \in Reader \ {x} : retain'[y] = retain[y],
         retain'[x] => mode = "copy_and_retain",
         registered /\ mode = "copy_and_retain" => retain'[x]
  PROVE  XInv'
<1> USE DEF XInv
<1>1. Moves(x) /\ at'[x] \in {"bodies", "rendering", "done"}
  BY DEF Loop, AfterBodies, Hold, Answer, Moves, Held, ReaderTypes,
     ExportTypeOK
<1>2. mainDoc' \in {mainDoc, [mainDoc EXCEPT ![x] = FirstDocument(x)]}
  BY DEF Loop, AfterBodies
<1>3. ReaderTypes'
  <2>1. /\ mainDoc' \in [Reader -> SUBSET Key]
        /\ \A y \in Reader : Cardinality(mainDoc'[y]) <= 1
    BY <1>2, OneDocument DEF ReaderTypes, ExportTypeOK
  <2> QED
    BY <1>1, <2>1, LockStep DEF ReaderTypes, ExportTypeOK, Held
<1>4. \A k \in mainDoc'[x] :
        current[x] # NoLoader /\ k[1] = current[x] /\ OwnerOf(k) = current[x]
  BY <1>2, OneDocument DEF ReaderTypes, ReaderInv, WarcInv
<1>5. WarcInv(x)'
  BY <1>1, <1>4 DEF ReaderInv, WarcInv, Past, OwnerOf, recVars, chromium
<1>6. BodyInv(x)'
  <2>1. at'[x] # "done" => reply' = reply /\ at[x] # "done"
    BY <1>1 DEF Moves, MayGo, Held, ReaderTypes, ExportTypeOK
  <2> QED
    BY <2>1 DEF ReaderInv, BodyInv
<1>7. \A y \in Reader \ {x} :
        /\ UNCHANGED <<job[y], at[y], current[y], retain[y]>>
        /\ UNCHANGED <<mainDoc[y], meta[y], reply[y], whole[y], calm[y]>>
  BY <1>1, <1>2, LockStep DEF ReaderTypes
<1> QED
  BY <1>3, <1>5, <1>6, <1>7, OneReader

\* get_warc gets the lock.
LEMMA WarcLockedInv == ASSUME XInv, NEW x \in Reader, WarcLocked(x) PROVE XInv'
<1> USE DEF XInv
<1> DEFINE keeps == mode_for = "copy_and_retain"
           asks == IF mode_for = "no_copy" THEN OfLoader(current[x]) \ body
                   ELSE {}
<1>1. /\ at[x] = "waiting" /\ lock = NoReader /\ running' = NoReader
      /\ job[x] \in {"warc", "rendered"}
      /\ retain' = [retain EXCEPT ![x] = keeps]
      /\ todo' = [todo EXCEPT ![x] = asks]
      /\ UNCHANGED <<recVars, job, current, overrides, meta, whole, calm>>
      /\ Loop(x)
  BY DEF WarcLocked, Locks
<1>2. retain' \in [Reader -> BOOLEAN]
      /\ \A y \in Reader \ {x} : retain'[y] = retain[y]
      /\ retain'[x] = keeps
  BY <1>1 DEF ReaderTypes
<1>3. asks \subseteq Key
  BY DEF OfLoader, IInv, RecTypeOK
<1>4. {todo', overrides'} \subseteq [Reader -> SUBSET Key]
  BY <1>1, <1>3 DEF ReaderTypes
<1>5. /\ keeps => mode = "copy_and_retain"
      /\ registered /\ mode = "copy_and_retain" => keeps
  BY DEF mode_for, IInv, CountInv
<1> QED
  BY <1>1, <1>2, <1>4, <1>5, LoopInv DEF MayGo

\* Chromium answers for one body.
LEMMA LiveBodyInv == ASSUME XInv, NEW x \in Reader, LiveBody(x) PROVE XInv'
<1> USE DEF XInv
<1>1. /\ at[x] = "bodies" /\ running' = running
      /\ UNCHANGED <<recVars, job, current, retain, meta, whole, calm>>
      /\ Loop(x)
  BY DEF LiveBody, Resumes
<1>2. PICK k \in todo[x] :
        /\ todo' = [todo EXCEPT ![x] = @ \ {k}]
        /\ overrides' \in {overrides, [overrides EXCEPT ![x] = @ \cup {k}]}
  BY DEF LiveBody
<1>3. {todo', overrides'} \subseteq [Reader -> SUBSET Key]
  BY <1>2 DEF ReaderTypes, ExportTypeOK
<1>4. WarcInv(x) /\ job[x] \in {"warc", "rendered"}
  BY <1>1 DEF ReaderInv, WarcInv
<1>5. running \in Reader \cup {NoReader} /\ retain \in [Reader -> BOOLEAN]
  BY DEF ReaderTypes, ExportTypeOK
<1> QED
  BY <1>1, <1>3, <1>4, <1>5, LoopInv DEF MayGo, Held, WarcInv

\* The other steps under the lock change only where the handler stands.
LEMMA StandInv ==
  ASSUME XInv, NEW x \in Reader,
         \/ Rendered(x) \/ BodyLocked(x) \/ BodyAnswered(x)
         \/ OtherLocked(x) \/ OtherDone(x)
  PROVE  XInv'
<1> USE DEF XInv
<1>1. /\ MayGo(x) /\ Moves(x) /\ running' \in {running, NoReader}
      /\ UNCHANGED <<recVars, job, current, retain, todo, overrides, mainDoc,
                     meta, whole, calm>>
  BY DEF Rendered, BodyLocked, BodyAnswered, OtherLocked, OtherDone, Locks,
     Resumes, Answer, Hold, MayGo, Moves, Held
<1>2. at'[x] \in {"done", "fetching", "working"}
  BY DEF Rendered, BodyLocked, BodyAnswered, OtherLocked, OtherDone, Answer,
     Hold, ReaderTypes, ExportTypeOK
<1>3. at'[x] \in {"fetching", "working"} => job[x] \in {"body", "other"}
  BY <1>1 DEF Rendered, BodyLocked, BodyAnswered, OtherLocked, OtherDone,
     Answer, Hold, ReaderTypes, ExportTypeOK
<1>4. ReaderTypes'
  BY <1>1, LockStep DEF ReaderTypes, ExportTypeOK, Held
<1>5. WarcInv(x)'
  BY <1>1, <1>2, <1>3 DEF ReaderInv, WarcInv, Past, OwnerOf, recVars,
     chromium, Held
<1>6. BodyInv(x)'
  <2>1. BodyInv(x) /\ body' = body
    BY <1>1 DEF ReaderInv, recVars
  <2>2. at'[x] # "done" => reply' = reply /\ at[x] # "done"
    BY <1>1 DEF Moves, MayGo, Held, ReaderTypes, ExportTypeOK
  <2>3. ASSUME whole[x], job[x] = "body"
        PROVE  at'[x] # "fetching" /\ reply'[x] # Gone
    <3>1. CASE BodyLocked(x)
      <4>1. Buffered(x) /\ Answer(x, Served)
        BY <2>1, <2>3, <3>1 DEF BodyInv, BodyLocked, Buffered
      <4> QED
        BY <1>1, <4>1 DEF Answer, Served, Gone, ReaderTypes, ExportTypeOK
    <3>2. CASE Rendered(x)
      BY <2>3, <3>2 DEF Rendered, Resumes, ReaderInv, WarcInv
    <3>3. CASE BodyAnswered(x)
      BY <2>1, <2>3, <3>3 DEF BodyInv, BodyAnswered, Resumes
    <3>4. CASE OtherLocked(x)
      BY <2>3, <3>4 DEF OtherLocked
    <3>5. CASE OtherDone(x)
      BY <3>5 DEF OtherDone, Answer, Other, Gone, ReaderTypes, ExportTypeOK
    <3> QED
      BY <3>1, <3>2, <3>3, <3>4, <3>5
  <2> QED
    BY <1>1, <2>1, <2>2, <2>3 DEF BodyInv
<1>7. \A y \in Reader \ {x} :
        /\ UNCHANGED <<job[y], at[y], current[y], retain[y]>>
        /\ UNCHANGED <<mainDoc[y], meta[y], reply[y], whole[y], calm[y]>>
  BY <1>1, LockStep DEF ReaderTypes
<1> QED
  BY <1>1, <1>4, <1>5, <1>6, <1>7, OneReader

\* The client has its answer.
LEMMA TakeInv == ASSUME XInv, NEW x \in Reader, Take(x) PROVE XInv'
<1> USE DEF XInv
<1>1. /\ at[x] = "done" /\ UNCHANGED <<recVars, lock, running, todo>>
      /\ at' = [at EXCEPT ![x] = "idle"]
      /\ job' = [job EXCEPT ![x] = "other"]
      /\ current' = [current EXCEPT ![x] = NoLoader]
      /\ mainDoc' = [mainDoc EXCEPT ![x] = {}]
      /\ meta' = [meta EXCEPT ![x] = {}]
      /\ overrides' = [overrides EXCEPT ![x] = {}]
      /\ reply' = [reply EXCEPT ![x] = Silence]
  BY DEF Take, Resumes
<1>2. /\ retain' = [retain EXCEPT ![x] = FALSE]
      /\ whole' = [whole EXCEPT ![x] = FALSE]
      /\ calm' = [calm EXCEPT ![x] = FALSE]
  BY DEF Take
<1>3. ReaderTypes'
  <2>1. {retain', whole', calm'} \subseteq [Reader -> BOOLEAN]
    BY <1>2 DEF ReaderTypes
  <2>2. {todo', overrides', mainDoc', meta'} \subseteq [Reader -> SUBSET Key]
    BY <1>1 DEF ReaderTypes
  <2>3. /\ at' \in [Reader -> {"idle", "waiting", "bodies", "rendering",
                               "fetching", "working", "done"}]
        /\ \A y \in Reader : lock' = y <=> at'[y] \in Held
    BY <1>1 DEF ReaderTypes, ExportTypeOK, Held
  <2>4. \A y \in Reader : Cardinality(mainDoc'[y]) <= 1
    BY <1>1, FS_EmptySet DEF ReaderTypes, ExportTypeOK
  <2>5. /\ current' \in [Reader -> Loader]
        /\ reply' = [y \in Reader |-> reply'[y]]
        /\ job' = [y \in Reader |-> job'[y]]
    BY <1>1 DEF ReaderTypes, ExportTypeOK, Loader
  <2> QED
    BY <1>1, <2>1, <2>2, <2>3, <2>4, <2>5 DEF ReaderTypes, ExportTypeOK, Held
<1>4. ~calm'[x] /\ ~whole'[x]
  BY <1>2 DEF ReaderTypes
<1>5. WarcInv(x)' /\ BodyInv(x)'
  BY <1>1, <1>4 DEF WarcInv, BodyInv, ReaderTypes, ExportTypeOK, Held,
     Silence, Gone
<1>6. \A y \in Reader \ {x} :
        /\ UNCHANGED <<job[y], at[y], current[y], retain[y]>>
        /\ UNCHANGED <<mainDoc[y], meta[y], reply[y], whole[y], calm[y]>>
  BY <1>1, <1>2 DEF ReaderTypes, ExportTypeOK
<1> QED
  BY <1>1, <1>3, <1>5, <1>6, OneReader

\* Every step keeps the invariant.
LEMMA XNext == XInv /\ [ExportNext]_vars => XInv'
<1> SUFFICES ASSUME XInv, [ExportNext]_vars PROVE XInv'
  OBVIOUS
<1>1. CASE UNCHANGED vars
  <2>1. UNCHANGED <<recVars, lock, running, handler, calm>>
    BY <1>1 DEF vars, exportVars
  <2>2. IInv'
    BY <2>1, NextInv DEF XInv
  <2> QED
    BY <2>1, <2>2 DEF XInv, recVars, chromium, handler, DocInv, ReaderTypes,
       ExportTypeOK, ReaderInv, WarcInv, BodyInv, Past, OwnerOf
<1>2. ASSUME NEW x \in Reader, Work(x) PROVE XInv'
  BY <1>2, WarcLockedInv, LiveBodyInv, StandInv DEF Work
<1> QED
  BY <1>1, <1>2, AskInv, TakeInv, RecInv DEF ExportNext

\* The invariant holds in every state of every execution.
THEOREM ExportInvHolds == ExportSafe => []XInv
  BY XInit, XNext, PTL DEF ExportSafe

\* The values of the variables; the lock is held by whom it says.
THEOREM ExportTypeCorrect == ExportSafe => []ExportTypeOK
<1>1. XInv => ExportTypeOK
  BY DEF XInv, ReaderTypes
<1> QED
  BY <1>1, ExportInvHolds, PTL

\* A buffered body is served.
THEOREM BufferedIsServed == ExportSafe => []BufferedServed
<1>1. XInv => BufferedServed
  BY DEF XInv, ReaderInv, BodyInv, BufferedServed
<1> QED
  BY <1>1, ExportInvHolds, PTL

----------------------------------------------------------------------------
(* What an archive is built of                                             *)

\* The archive of x: which entries, and what its conversion record refers to.
Archive(x) ==
  /\ reply'[x].entries = Select(x)
  /\ \/ reply'[x].refers = {}
     \/ /\ reply'[x].refers = mainDoc[x] \cap Select(x)
        /\ reply'[x].shown = page
  /\ UNCHANGED <<recVars, current>>
  /\ retain'[x] => mode = "copy_and_retain"
  /\ registered /\ mode = "copy_and_retain" => retain'[x]

\* The end of the loop over the bodies is one of the places.
LEMMA LoopBuilds ==
  ASSUME XInv, NEW x \in Reader, Loop(x), at'[x] = "done",
         UNCHANGED <<recVars, current>>,
         retain'[x] => mode = "copy_and_retain",
         registered /\ mode = "copy_and_retain" => retain'[x]
  PROVE  Archive(x)
<1>1. Answer(x, Warc(x, {}, NoLoader))
  BY DEF Loop, AfterBodies, Hold, XInv, ReaderTypes, ExportTypeOK
<1>2. reply'[x] = Warc(x, {}, NoLoader)
  BY <1>1 DEF Answer, XInv, ReaderTypes
<1> QED
  BY <1>2 DEF Archive, Warc

\* An archive is built by its own reader, and nowhere else.
LEMMA Builds ==
  ASSUME XInv, [ExportNext]_vars, NEW x \in Reader, Built(x)
  PROVE  Archive(x)
<1> USE DEF XInv
<1>1. at'[x] # at[x]
  BY DEF Built
<1>2. ASSUME NEW y \in Reader, Ask(y) \/ Take(y) PROVE FALSE
  BY <1>2 DEF Ask, Take, Built, ReaderTypes, ExportTypeOK
<1>3. ASSUME NEW y \in Reader, Work(y) PROVE y = x
  <2>1. /\ \E w : at' = [at EXCEPT ![y] = w]
    BY <1>3 DEF Work, WarcLocked, LiveBody, Loop, AfterBodies, Rendered,
       BodyLocked, BodyAnswered, OtherLocked, OtherDone, Answer, Hold
  <2> QED
    BY <1>1, <2>1 DEF ReaderTypes, ExportTypeOK
<1>4. Work(x)
  BY <1>1, <1>2, <1>3 DEF ExportNext, RecordingStep, Disturbance, exportVars,
     handler, vars
<1>5. WarcInv(x)
  BY DEF ReaderInv
<1>6. CASE WarcLocked(x)
  <2>1. retain' = [retain EXCEPT ![x] = mode_for = "copy_and_retain"]
        /\ Loop(x) /\ UNCHANGED <<recVars, current>>
    BY <1>6 DEF WarcLocked
  <2>2. retain'[x] = (mode_for = "copy_and_retain")
    BY <2>1 DEF ReaderTypes
  <2>3. /\ retain'[x] => mode = "copy_and_retain"
        /\ registered /\ mode = "copy_and_retain" => retain'[x]
    BY <2>2 DEF mode_for, IInv, CountInv
  <2> QED
    BY <2>1, <2>3, LoopBuilds DEF Built
<1>7. CASE LiveBody(x)
  <2>1. /\ Loop(x) /\ UNCHANGED <<recVars, current, retain>>
        /\ at[x] = "bodies"
    BY <1>7 DEF LiveBody, Resumes
  <2> QED
    BY <1>5, <2>1, LoopBuilds DEF Built, WarcInv, Held
<1>8. CASE Rendered(x)
  <2>1. at[x] = "rendering" /\ UNCHANGED <<recVars, current, retain>>
    BY <1>8 DEF Rendered, Resumes
  <2>2. Answer(x, Warc(x, Refers(x), page))
    BY <1>8 DEF Rendered, Answer, Failed, Built, ReaderTypes
  <2>3. reply'[x] = Warc(x, Refers(x), page)
    BY <2>2 DEF Answer, ReaderTypes
  <2> QED
    BY <1>5, <2>1, <2>3 DEF Archive, Warc, Refers, WarcInv, Held
<1>9. CASE BodyLocked(x) \/ BodyAnswered(x) \/ OtherLocked(x) \/ OtherDone(x)
  BY <1>9 DEF BodyLocked, BodyAnswered, OtherLocked, OtherDone, Answer, Hold,
     Served, Gone, Other, Built, ReaderTypes, ExportTypeOK
<1> QED
  BY <1>4, <1>6, <1>7, <1>8, <1>9 DEF Work

\* A conversion record refers to an entry of its archive.
THEOREM ConversionRefers == ExportSafe => NeverDangles
<1>1. ASSUME XInv, [ExportNext]_vars
      PROVE  [\A x \in Reader : Built(x) =>
                reply'[x].refers \subseteq reply'[x].entries]_vars
  BY <1>1, Builds DEF Archive
<1> QED
  BY <1>1, ExportInvHolds, PTL DEF ExportSafe, NeverDangles

\* Outside retain mode it refers to the document that was rendered.
THEOREM ConversionIsOfThePage == ExportSafe => RendersItsDocument
<1>1. ASSUME XInv, [ExportNext]_vars
      PROVE  [\A x \in Reader :
                Built(x) /\ registered /\ mode # "copy_and_retain" =>
                  \A k \in reply'[x].refers : OwnerOf(k) = reply'[x].shown]_vars
  <2> SUFFICES ASSUME NEW x \in Reader, Built(x), registered,
                      mode # "copy_and_retain", NEW k \in reply'[x].refers
               PROVE  OwnerOf(k) = reply'[x].shown
    OBVIOUS
  <2>1. Archive(x) /\ ~retain'[x] /\ UNCHANGED recVars
    BY <1>1, Builds DEF Archive
  <2>2. k \in mainDoc[x] /\ k \in Select(x) /\ reply'[x].shown = page
    BY <2>1 DEF Archive
  <2>3. k \in stored
    BY <2>1, <2>2 DEF Select, OfLoader
  <2>4. /\ current[x] # NoLoader /\ Past(current[x])
        /\ k[1] = current[x] /\ OwnerOf(k) = current[x]
    BY <1>1, <2>2 DEF XInv, ReaderInv, WarcInv
  <2>5. current[x] \in Doc
    BY <1>1, <2>4 DEF XInv, ReaderTypes, ExportTypeOK, Loader
  <2>6. k \notin fresh
    BY <1>1, <2>4, <2>5 DEF XInv, DocInv
  <2>7. OwnerOf(k) \in {page, NoLoader}
    BY <1>1, <2>3, <2>6 DEF XInv, IInv, Pruned, OwnerOf
  <2> QED
    BY <2>2, <2>4, <2>7
<1> QED
  BY <1>1, ExportInvHolds, PTL DEF ExportSafe, RendersItsDocument

\* The archive of a calm tab, and in retain mode of any registered one, is
\* complete.
THEOREM ArchivesAreComplete == ExportSafe => ArchiveComplete
<1>1. ASSUME XInv, [ExportNext]_vars
      PROVE  [\A x \in Reader :
                Built(x) /\ (IF mode = "copy_and_retain" THEN registered
                             ELSE calm[x])
                  => Told(Current) \subseteq reply'[x].entries]_vars
  <2> SUFFICES ASSUME NEW x \in Reader, Built(x),
                      IF mode = "copy_and_retain" THEN registered ELSE calm[x],
                      NEW k \in Told(Current)
               PROVE  k \in reply'[x].entries
    OBVIOUS
  <2>1. Archive(x) /\ UNCHANGED recVars
    BY <1>1, Builds DEF Archive
  <2>2. registered /\ (mode # "copy_and_retain" => current[x] = page)
    BY <1>1 DEF XInv, ReaderInv, WarcInv
  <2>3. /\ k \in Told(Request)
        /\ mode # "copy_and_retain" => owner[k[1]] \in {page, NoLoader}
    BY DEF Told, Current
  <2>4. k \in stored
    BY <1>1, <2>2, <2>3 DEF XInv, IInv, KeptInv
  <2>5. k \in Select(x)
    <3>1. CASE mode = "copy_and_retain"
      BY <2>1, <2>2, <2>4, <3>1 DEF Archive, Select
    <3>2. CASE mode # "copy_and_retain"
      BY <2>1, <2>2, <2>3, <2>4, <3>2 DEF Archive, Select, OfLoader, OwnerOf
    <3> QED
      BY <3>1, <3>2
  <2> QED
    BY <2>1, <2>5 DEF Archive
<1> QED
  BY <1>1, ExportInvHolds, PTL DEF ExportSafe, ArchiveComplete

----------------------------------------------------------------------------
(* The recorder under its readers                                          *)

\* No step of a request changes what the recorder keeps.
LEMMA ReadersOnlyRead ==
  ASSUME NEW x \in Reader, Ask(x) \/ Work(x) \/ Take(x)
  PROVE  UNCHANGED recVars
  BY DEF Ask, Work, Take, WarcLocked, LiveBody, Rendered, BodyLocked,
     BodyAnswered, OtherLocked, OtherDone

\* The recorder runs under the requests that read it as it does alone: seen
\* through its own variables, an execution of the whole is one of RecSpec.
THEOREM ExportsImplementRecorder == ExportSafe => RecSpec
<1>1. ExportInit => RecInit
  BY DEF ExportInit
<1>2. [ExportNext]_vars => [RecNext]_recVars
  <2> SUFFICES ASSUME [ExportNext]_vars PROVE [RecNext]_recVars
    OBVIOUS
  <2>1. CASE UNCHANGED vars
    BY <2>1 DEF vars
  <2>2. ASSUME NEW x \in Reader, Ask(x) \/ Work(x) \/ Take(x)
        PROVE  UNCHANGED recVars
    BY <2>2, ReadersOnlyRead
  <2>3. CASE RecordingStep
    BY <2>3 DEF RecordingStep, RecNext, CdpEvent
  <2>4. CASE Disturbance
    BY <2>4 DEF Disturbance, RecNext, CdpEvent
  <2> QED
    BY <2>1, <2>2, <2>3, <2>4 DEF ExportNext
<1> QED
  BY <1>1, <1>2, PTL DEF ExportSafe, RecSpec

\* So what the recorder promises alone it promises with readers: entries of
\* the page are kept and those of past pages are not, each with its own
\* request and with the body it was told, and none comes after its pruning.
THEOREM RecorderSafeUnderExports ==
  ExportSafe => /\ [](PageRecorded /\ Pruned /\ CarriesItsRequest /\ BuffersAsTold)
                /\ NoBodyAfterPrune
  BY ExportsImplementRecorder, NothingLost, OnlyThisPage, OwnRequest,
     BodiesAsTold, DroppedAfterPrune, PTL

=============================================================================
