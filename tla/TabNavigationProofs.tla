------------------------ MODULE TabNavigationProofs ------------------------
(***************************************************************************)
(* Every execution of the navigations of one tab, with any number of gotos *)
(* and iframes, keeps NavTypeOK, FreshReply and NewDownload.               *)
(***************************************************************************)
EXTENDS TabNavigation, TLAPS

\* Where a request stands between its navigation and its reply.
Under == {"sending", "waiting", "settling", "polling"}

\* status and url are of one response; with rec.nav set, all are heard.
CaptureInv ==
  /\ status = url
  /\ attached \/ at[Creator] \in {"enabling", "readying"} => hearing

\* create_tab navigates with NavCapture attached; a goto that navigates while
\* create_tab is under way is early.
CreatorInv ==
  /\ at[Creator] \notin {"idle", "toLock"}
  /\ at[Creator] \in Under => attached
  /\ \A x \in Goto : at[x] \in Under /\ x \notin early => at[Creator] = "done"

\* What is captured, and what a request has read of it, was delivered since
\* the request's reset; and while it waits nothing else was.
ToldInv ==
  \A x \in Undisturbed :
    /\ at[x] \in Under /\ attached => status \in told[x] \cup {Nothing}
    /\ at[x] \in {"sending", "waiting"} /\ attached /\ status = Nothing
         => told[x] = {}
    /\ at[x] = "polling" => seen[x] \in told[x] \cup {Nothing}

\* pre_existing is what there was when the request was made.
BaselineInv ==
  /\ baseline = before
  /\ before[Creator] = {}

IInv ==
  /\ NavTypeOK
  /\ CaptureInv
  /\ CreatorInv
  /\ ToldInv
  /\ BaselineInv

USE NavAssumption

\* Names of requests.
LEMMA Names ==
  /\ Nothing \notin Request
  /\ Creator \in Request /\ Creator \notin Goto /\ Goto \subseteq Request
  /\ Undisturbed \subseteq Request
  BY DEF Request, Origin, Undisturbed

\* The initial states satisfy the invariant.
LEMMA InitInv == NavInit => IInv
<1> SUFFICES ASSUME NavInit PROVE IInv
  OBVIOUS
<1>1. NavTypeOK
  BY DEF NavInit, NavTypeOK, OrNothing, Request, Origin, Where
<1>2. CaptureInv /\ BaselineInv
  BY Names DEF NavInit, CaptureInv, BaselineInv, Request
<1>3. CreatorInv
  BY DEF NavInit, CreatorInv, Under, Request
<1>4. ToldInv
  BY DEF NavInit, ToldInv, Undisturbed, Under, Request
<1> QED
  BY <1>1, <1>2, <1>3, <1>4 DEF IInv

\* A Document response is delivered: to all whom it may concern.
LEMMA AnswerInv ==
  ASSUME IInv, running = Nothing, NEW o \in Origin, DocumentAnswer(o)
  PROVE  IInv'
<1> USE DEF IInv
<1>1. /\ status' = (IF hearing THEN o ELSE status)
      /\ url' = (IF hearing THEN o ELSE url)
  BY DEF DocumentAnswer, OnResponse
<1>2. UNCHANGED <<registered, hearing, attached, asked, downloads, lock,
                  running, at, baseline, seen, before, early>>
        /\ reply' = Nothing /\ answered' = answered \cup {o}
  BY DEF DocumentAnswer, Silent
<1>3. \A x \in Request : told'[x] = IF at[x] \in {"idle", "done"} THEN {}
                                    ELSE told[x] \cup {o}
  BY DEF DocumentAnswer
<1>4. told' \in [Request -> SUBSET Origin]
  BY DEF DocumentAnswer, NavTypeOK
<1>5. NavTypeOK'
  BY <1>1, <1>2, <1>4 DEF NavTypeOK, OrNothing
<1>6. CaptureInv' /\ CreatorInv' /\ BaselineInv'
  BY <1>1, <1>2 DEF CaptureInv, CreatorInv, BaselineInv
<1>7. ToldInv'
  <2> SUFFICES ASSUME NEW x \in Undisturbed
               PROVE  /\ at[x] \in Under /\ attached
                           => status' \in told'[x] \cup {Nothing}
                      /\ at[x] \in {"sending", "waiting"} /\ attached
                           /\ status' = Nothing => told'[x] = {}
                      /\ at[x] = "polling" => seen[x] \in told'[x] \cup {Nothing}
    BY <1>2 DEF ToldInv, Undisturbed
  <2>1. at[x] \in Under => told'[x] = told[x] \cup {o}
    BY <1>3, Names DEF Under
  <2>2. attached => status' = o /\ o # Nothing
    BY <1>1 DEF CaptureInv, Origin
  <2> QED
    BY <2>1, <2>2 DEF ToldInv, Under
<1> QED
  BY <1>5, <1>6, <1>7

\* A download begins.
LEMMA DownloadInv ==
  ASSUME IInv, running = Nothing, NEW o \in Origin, DownloadBegins(o)
  PROVE  IInv'
<1> USE DEF IInv
<1>1. NavTypeOK'
  BY DEF NavTypeOK, DownloadBegins, Silent, capture, OrNothing
<1>2. CaptureInv' /\ CreatorInv' /\ BaselineInv' /\ ToldInv'
  BY DEF CaptureInv, CreatorInv, BaselineInv, ToldInv, Undisturbed,
     DownloadBegins, capture
<1> QED
  BY <1>1, <1>2

\* A goto is made.
LEMMA AskInv == ASSUME IInv, NEW x \in Goto, Ask(x) PROVE IInv'
<1> USE DEF IInv
<1>1. /\ at' = [at EXCEPT ![x] = "toLock"]
      /\ baseline' = [baseline EXCEPT ![x] = downloads]
      /\ before' = [before EXCEPT ![x] = downloads]
      /\ running' \in {x, Nothing}
      /\ UNCHANGED <<registered, hearing, attached, status, url, asked,
                     answered, downloads, lock, seen, early, told>>
      /\ reply' = Nothing
  BY DEF Ask, MoveTo, Silent, Baseline, capture, chromium
<1>2. at[x] = "idle"
  BY DEF Ask
<1>3. NavTypeOK'
  <2>1. at' \in [Request -> Where]
    BY <1>1, Names DEF NavTypeOK, Where
  <2>2. {baseline', told', before'} \subseteq [Request -> SUBSET Origin]
    BY <1>1, Names DEF NavTypeOK
  <2>3. \A y \in Goto : at'[y] \in {"sending", "waiting"} <=> lock' = y
    BY <1>1, <1>2, Names DEF NavTypeOK
  <2> QED
    BY <1>1, <2>1, <2>2, <2>3 DEF NavTypeOK, OrNothing
<1>4. \A y \in Request : y # x => at'[y] = at[y]
  BY <1>1 DEF NavTypeOK
<1>5. at'[x] = "toLock"
  BY <1>1, Names DEF NavTypeOK
<1>6. CaptureInv' /\ BaselineInv'
  BY <1>1, <1>4, Names DEF CaptureInv, BaselineInv, NavTypeOK
<1>7. CreatorInv'
  BY <1>1, <1>4, <1>5, Names DEF CreatorInv, Under
<1>8. ToldInv'
  <2>1. Undisturbed' = Undisturbed
    BY <1>1 DEF Undisturbed
  <2> QED
    BY <1>1, <1>4, <1>5, <2>1, Names DEF ToldInv, Under
<1> QED
  BY <1>3, <1>6, <1>7, <1>8

\* A request goes on to w, having read s.
LEMMA MoveInv ==
  ASSUME IInv, NEW x \in Request, NEW w \in Where, NEW s \in OrNothing(Origin),
         MoveTo(x, w),
         seen' = [seen EXCEPT ![x] = s],
         lock' = (IF w \in {"sending", "waiting"} \/ lock # x THEN lock
                  ELSE Nothing),
         w \in {"sending", "waiting"} => at[x] \in {"sending", "waiting"},
         w \in Under => at[x] \in Under,
         w = "polling" /\ x \in Undisturbed => s \in told[x] \cup {Nothing},
         x = Creator => at[x] # "done" /\ w \in Under,
         UNCHANGED <<registered, capture, chromium, running, early, baseline,
                     before>>
  PROVE  IInv'
<1> USE DEF IInv
<1>1. /\ at' = [at EXCEPT ![x] = w]
      /\ reply' = Nothing
      /\ UNCHANGED <<registered, hearing, attached, status, url, asked,
                     answered, downloads, running, early, baseline, before, told>>
  BY DEF MoveTo, Silent, capture, chromium
<1>2. at'[x] = w /\ \A y \in Request : y # x => at'[y] = at[y]
  BY <1>1 DEF NavTypeOK
<1>3. NavTypeOK'
  <2>1. at' \in [Request -> Where] /\ seen' \in [Request -> OrNothing(Origin)]
    BY <1>1 DEF NavTypeOK
  <2>2. lock' \in OrNothing(Goto)
    BY DEF NavTypeOK, OrNothing
  <2>3. \A y \in Goto : at'[y] \in {"sending", "waiting"} <=> lock' = y
    BY <1>2, Names DEF NavTypeOK
  <2> QED
    BY <1>1, <2>1, <2>2, <2>3 DEF NavTypeOK, OrNothing
<1>4. CaptureInv' /\ BaselineInv'
  BY <1>1, <1>2, Names DEF CaptureInv, BaselineInv, Under
<1>5. CreatorInv'
  <2>1. at'[Creator] \notin {"idle", "toLock"}
    BY <1>2, Names DEF CreatorInv, Under
  <2>2. \A y \in Request : at'[y] \in Under => at[y] \in Under
    BY <1>2
  <2>3. at[Creator] = "done" => at'[Creator] = "done"
    BY <1>2, Names
  <2> QED
    BY <1>1, <1>2, <2>1, <2>2, <2>3, Names DEF CreatorInv
<1>6. ToldInv'
  <2> SUFFICES ASSUME NEW y \in Undisturbed
               PROVE  /\ at'[y] \in Under /\ attached
                           => status \in told[y] \cup {Nothing}
                      /\ at'[y] \in {"sending", "waiting"} /\ attached
                           /\ status = Nothing => told[y] = {}
                      /\ at'[y] = "polling"
                           => seen'[y] \in told[y] \cup {Nothing}
    BY <1>1 DEF ToldInv, Undisturbed
  <2>1. y \in Request
    BY Names
  <2>2. CASE y = x
    BY <1>1, <1>2, <2>2 DEF ToldInv, NavTypeOK
  <2>3. CASE y # x
    BY <1>1, <1>2, <2>1, <2>3 DEF ToldInv, NavTypeOK
  <2> QED
    BY <2>2, <2>3
<1> QED
  BY <1>3, <1>4, <1>5, <1>6

\* A request is answered, and gives back rec.lock if it held it.
LEMMA EndInv ==
  ASSUME IInv, NEW x \in Request, NEW r \in Reply, Ends(x, r),
         registered' \in BOOLEAN,
         lock' = (IF lock = x THEN Nothing ELSE lock),
         UNCHANGED <<capture, chromium, running, early>>
  PROVE  IInv'
<1> USE DEF IInv
<1>1. /\ at' = [at EXCEPT ![x] = "done"]
      /\ told' = [told EXCEPT ![x] = {}]
      /\ before' = [before EXCEPT ![x] = {}]
      /\ baseline' = [baseline EXCEPT ![x] = {}]
      /\ seen' = [seen EXCEPT ![x] = Nothing]
      /\ reply' = r
      /\ UNCHANGED <<hearing, attached, status, url, asked, answered,
                     downloads, running, early>>
  BY DEF Ends, capture, chromium
<1>2. at'[x] = "done" /\ \A y \in Request : y # x => at'[y] = at[y]
  BY <1>1 DEF NavTypeOK
<1>3. NavTypeOK'
  <2>1. at' \in [Request -> Where] /\ seen' \in [Request -> OrNothing(Origin)]
    BY <1>1 DEF NavTypeOK, Where, OrNothing
  <2>2. {baseline', told', before'} \subseteq [Request -> SUBSET Origin]
    BY <1>1 DEF NavTypeOK
  <2>3. \A y \in Goto : at'[y] \in {"sending", "waiting"} <=> lock' = y
    BY <1>2, Names DEF NavTypeOK
  <2>4. lock' \in OrNothing(Goto)
    BY DEF NavTypeOK, OrNothing
  <2> QED
    BY <1>1, <2>1, <2>2, <2>3, <2>4 DEF NavTypeOK, OrNothing
<1>4. CaptureInv' /\ BaselineInv'
  BY <1>1, <1>2, Names DEF CaptureInv, BaselineInv, NavTypeOK
<1>5. CreatorInv'
  BY <1>1, <1>2, Names DEF CreatorInv, Under
<1>6. ToldInv'
  <2>1. \A y \in Request \ {x} : told'[y] = told[y] /\ seen'[y] = seen[y]
    BY <1>1 DEF NavTypeOK
  <2>2. Undisturbed' = Undisturbed
    BY <1>1 DEF Undisturbed
  <2> QED
    BY <1>1, <1>2, <2>1, <2>2, Names DEF ToldInv, Under
<1> QED
  BY <1>3, <1>4, <1>5, <1>6

\* A request navigates: NavCapture is reset, and nobody else is undisturbed
\* who would see the response of before.
LEMMA NavigateInv ==
  ASSUME IInv, NEW x \in Request, Navigate(x),
         at' = [at EXCEPT ![x] = "sending"],
         x = Creator => attached' /\ hearing /\ at[Creator] # "done" /\ lock' = lock
                        /\ at[Creator] \notin Under /\ early' = early,
         x \in Goto => /\ attached' = attached
                       /\ lock = Nothing /\ lock' = x
                       /\ at[x] \notin Under
                       /\ early' = IF at[Creator] = "done" THEN early
                                   ELSE early \cup {x},
         attached' \in BOOLEAN, running' \in OrNothing(Goto), reply' = Nothing,
         UNCHANGED <<registered, baseline, seen, before>>
  PROVE  IInv'
<1> USE DEF IInv
<1>1. /\ (status' = status /\ url' = url) \/ (status' = Nothing /\ url' = Nothing)
      /\ asked' = asked \cup {x}
      /\ told' = [told EXCEPT ![x] = {}]
      /\ UNCHANGED <<hearing, answered, downloads>>
  BY Zenon DEF Navigate, Reset
<1>2. attached' => status' = Nothing /\ url' = Nothing
  BY Names DEF Navigate, Reset, Request
<1>3. at'[x] = "sending" /\ \A y \in Request : y # x => at'[y] = at[y]
  BY DEF NavTypeOK
<1>4. told'[x] = {} /\ \A y \in Request : y # x => told'[y] = told[y]
  BY <1>1 DEF NavTypeOK
<1>5. NavTypeOK'
  <2>1. at' \in [Request -> Where] /\ told' \in [Request -> SUBSET Origin]
    BY <1>1 DEF NavTypeOK, Where
  <2>2. \A y \in Goto : at'[y] \in {"sending", "waiting"} <=> lock' = y
    BY <1>3, Names DEF NavTypeOK, Request
  <2>3. lock' \in OrNothing(Goto) /\ early' \subseteq Goto /\ asked' \subseteq Request
    BY <1>1, Names DEF NavTypeOK, OrNothing, Request
  <2> QED
    BY <1>1, <2>1, <2>2, <2>3 DEF NavTypeOK, OrNothing
<1>6. CaptureInv' /\ BaselineInv'
  BY <1>1, <1>2, <1>3, Names DEF CaptureInv, BaselineInv, Request
<1>7. CreatorInv'
  BY <1>3, Names DEF CreatorInv, Under, Request
<1>8. ToldInv'
  <2> SUFFICES ASSUME NEW y \in Undisturbed'
               PROVE  /\ at'[y] \in Under /\ attached'
                           => status' \in told'[y] \cup {Nothing}
                      /\ at'[y] \in {"sending", "waiting"} /\ attached'
                           /\ status' = Nothing => told'[y] = {}
                      /\ at'[y] = "polling"
                           => seen[y] \in told'[y] \cup {Nothing}
    BY DEF ToldInv
  <2>1. y \in Request
    BY DEF Undisturbed, Request
  <2>2. CASE y = x
    BY <1>2, <1>3, <1>4, <2>2
  <2>3. CASE y # x
    <3>1. y \in Undisturbed
      BY DEF Undisturbed, Request
    <3>2. at[y] \notin {"sending", "waiting"}
      <4>1. CASE y = Creator
        BY <2>1, <2>3, <4>1, Names DEF CreatorInv, Undisturbed, Under, Request
      <4>2. CASE y \in Goto
        BY <2>3, <4>2, Names DEF CreatorInv, Undisturbed, NavTypeOK, Under, Request
      <4> QED
        BY <2>1, <4>1, <4>2 DEF Request
    <3> QED
      BY <1>2, <1>3, <1>4, <2>1, <2>3, <3>1, <3>2 DEF ToldInv
  <2> QED
    BY <2>2, <2>3
<1> QED
  BY <1>5, <1>6, <1>7, <1>8

\* The replies of a request are replies.
LEMMA Replied ==
  ASSUME IInv, NEW x \in Request, NEW why \in {"refused", "raised"},
         NEW s \in OrNothing(Origin), NEW u \in OrNothing(Origin),
         NEW d \in OrNothing(Origin)
  PROVE  /\ [of |-> x, result |-> "ok", status |-> s,
             url |-> IF d # Nothing THEN d ELSE u, download |-> d] \in Reply
         /\ [of |-> x, result |-> why, status |-> Nothing, url |-> Nothing,
             download |-> Nothing] \in Reply
  BY DEF Reply, OrNothing

LEMMA FailInv ==
  ASSUME IInv, NEW x \in Request, NEW why \in {"refused", "raised"},
         Fails(x, why), registered' \in BOOLEAN,
         lock' = (IF lock = x THEN Nothing ELSE lock),
         UNCHANGED <<capture, chromium, running, early>>
  PROVE  IInv'
  BY Replied, EndInv DEF Fails, OrNothing

LEMMA ReplyInv ==
  ASSUME IInv, NEW x \in Request, NEW s \in OrNothing(Origin),
         NEW u \in OrNothing(Origin), NEW d \in OrNothing(Origin),
         Answers(x, s, u, d), registered' \in BOOLEAN,
         lock' = (IF lock = x THEN Nothing ELSE lock),
         UNCHANGED <<capture, chromium, running, early>>
  PROVE  IInv'
  BY Replied, EndInv DEF Answers, OrNothing

\* The steps of a goto.
LEMMA LockInv == ASSUME IInv, NEW x \in Goto, Lock(x) PROVE IInv'
<1>1. /\ Navigate(x) /\ at' = [at EXCEPT ![x] = "sending"]
      /\ at[x] = "toLock" /\ lock = Nothing /\ lock' = x
      /\ early' = (IF at[Creator] = "done" THEN early ELSE early \cup {x})
      /\ UNCHANGED <<registered, attached, baseline, seen, before>>
      /\ running' = Nothing /\ reply' = Nothing
  BY DEF Lock, Silent
<1>2. x \in Request /\ x # Creator
  BY Names
<1>3. attached' \in BOOLEAN
  BY <1>1 DEF IInv, NavTypeOK
<1>4. running' \in OrNothing(Goto)
  BY <1>1 DEF OrNothing
<1> QED
  BY <1>1, <1>2, <1>3, <1>4, NavigateInv DEF Under

\* The answer to a goto: what it captured, or 502.
LEMMA AfterWaitInv ==
  ASSUME IInv, NEW x \in Goto, at[x] \in {"sending", "waiting"}, AfterWait(x),
         UNCHANGED <<registered, capture, chromium, running, early>>
  PROVE  IInv'
<1> DEFINE s == IF attached THEN status ELSE Nothing
           u == IF attached THEN url ELSE Nothing
<1>1. x \in Request /\ x # Creator /\ lock = x /\ registered' \in BOOLEAN
  BY Names DEF IInv, NavTypeOK
<1>2. s \in OrNothing(Origin) /\ u \in OrNothing(Origin)
  BY DEF IInv, NavTypeOK, OrNothing
<1>3. CASE GotoFails(x, "refused")
  BY <1>1, <1>3, FailInv DEF GotoFails
<1>4. CASE LeaveLock(x)
  <2>1. lock' = Nothing
    BY <1>4 DEF LeaveLock
  <2>2. ASSUME NEW d \in NewDownloads(x), Answers(x, s, u, d) PROVE IInv'
    <3>1. d \in OrNothing(Origin)
      BY DEF NewDownloads, IInv, NavTypeOK, OrNothing
    <3> QED
      BY <1>1, <1>2, <2>1, <2>2, <3>1, ReplyInv
  <2>3. ASSUME seen' = [seen EXCEPT ![x] = s], MoveTo(x, "polling"),
               UNCHANGED <<baseline, before>>
        PROVE  IInv'
    <3>1. x \in Undisturbed => s \in told[x] \cup {Nothing}
      BY DEF IInv, ToldInv, Under
    <3> QED
      BY <1>1, <1>2, <2>1, <2>3, <3>1, MoveInv DEF Where, Under
  <2> QED
    BY <1>4, <2>2, <2>3 DEF LeaveLock
<1> QED
  BY <1>3, <1>4 DEF AfterWait

LEMMA GotoInv == ASSUME IInv, NEW x \in Goto, GotoGoes(x) PROVE IInv'
<1> USE DEF GotoStep
<1>1. x \in Request /\ x # Creator /\ (registered' = registered => registered' \in BOOLEAN)
  BY Names DEF IInv, NavTypeOK
<1>2. CASE Lock(x)
  BY <1>2, LockInv
<1>3. CASE Sent(x)
  <2>1. CASE attached /\ status = Nothing
    <3>1. seen' = [seen EXCEPT ![x] = seen[x]] /\ seen[x] \in OrNothing(Origin)
      BY <1>1, <1>3, <2>1 DEF Sent, IInv, NavTypeOK
    <3>2. MoveTo(x, "waiting") /\ at[x] = "sending"
            /\ UNCHANGED <<registered, capture, chromium, running, early, lock,
                           baseline, before>>
      BY <1>3, <2>1 DEF Sent
    <3> QED
      BY <1>1, <3>1, <3>2, MoveInv DEF Where, Under
  <2>2. CASE ~(attached /\ status = Nothing)
    BY <1>3, <2>2, AfterWaitInv DEF Sent
  <2> QED
    BY <2>1, <2>2
<1>4. CASE SendRaises(x)
  <2>1. lock = x
    BY <1>4 DEF SendRaises, IInv, NavTypeOK
  <2> QED
    BY <1>1, <1>4, <2>1, FailInv DEF SendRaises, GotoFails
<1>5. CASE Waited(x)
  BY <1>5, AfterWaitInv DEF Waited
<1>6. CASE Poll(x)
  <2> DEFINE u == IF attached THEN url ELSE Nothing
  <2>1. PICK d \in NewDownloads(x) \cup {Nothing} : Answers(x, seen[x], u, d)
    BY <1>6 DEF Poll
  <2>2. /\ seen[x] \in OrNothing(Origin)
        /\ u \in OrNothing(Origin)
        /\ d \in OrNothing(Origin)
    BY <1>1 DEF IInv, NavTypeOK, OrNothing, NewDownloads
  <2>3. lock # x /\ lock' = lock
    BY <1>6 DEF Poll, IInv, NavTypeOK
  <2> QED
    BY <1>1, <1>6, <2>1, <2>2, <2>3, ReplyInv DEF Poll
<1> QED
  BY <1>2, <1>3, <1>4, <1>5, <1>6 DEF GotoGoes

\* create_tab never holds rec.lock.
LEMMA CreatorFree ==
  ASSUME IInv, UNCHANGED lock
  PROVE  lock # Creator /\ lock' = (IF lock = Creator THEN Nothing ELSE lock)
  BY Names DEF IInv, NavTypeOK, OrNothing, Request, Origin

\* A step of create_tab that attaches NavCapture.
LEMMA AttachInv ==
  ASSUME IInv, NEW w \in Where \ (Under \cup {"idle", "toLock"}),
         MoveTo(Creator, w), at[Creator] \notin Under \cup {"done"},
         hearing' \in BOOLEAN, attached' \in BOOLEAN,
         attached => attached', hearing',
         UNCHANGED <<registered, status, url, chromium, lock, running, early,
                     baseline, seen, before>>
  PROVE  IInv'
<1> USE DEF IInv
<1>1. /\ at' = [at EXCEPT ![Creator] = w]
      /\ reply' = Nothing
      /\ UNCHANGED <<asked, answered, downloads, told>>
  BY DEF MoveTo, Silent, chromium
<1>2. at'[Creator] = w /\ \A y \in Request : y # Creator => at'[y] = at[y]
  BY <1>1, Names DEF NavTypeOK
<1>3. NavTypeOK'
  <2>1. at' \in [Request -> Where]
    BY <1>1 DEF NavTypeOK
  <2>2. \A y \in Goto : at'[y] \in {"sending", "waiting"} <=> lock' = y
    BY <1>2, Names DEF NavTypeOK
  <2> QED
    BY <1>1, <2>1, <2>2 DEF NavTypeOK, OrNothing
<1>4. CaptureInv' /\ BaselineInv'
  BY <1>1 DEF CaptureInv, BaselineInv
<1>5. CreatorInv'
  BY <1>1, <1>2, Names DEF CreatorInv
<1>6. ToldInv'
  <2> SUFFICES ASSUME NEW y \in Undisturbed, at'[y] \in Under PROVE FALSE
    BY <1>1 DEF ToldInv, Undisturbed, Under
  <2>1. CASE y = Creator
    BY <1>2, <2>1
  <2>2. CASE y \in Goto
    BY <1>2, <2>2, Names DEF CreatorInv, Undisturbed
  <2> QED
    BY <2>1, <2>2, Names DEF Request
<1> QED
  BY <1>3, <1>4, <1>5, <1>6

\* The steps of create_tab.
LEMMA CreateInv == ASSUME IInv, CreateGoes PROVE IInv'
<1> DEFINE x == Creator
<1>1. /\ x \in Request /\ x \notin Goto
      /\ registered \in BOOLEAN /\ attached \in BOOLEAN
      /\ attached \/ at[x] \in {"enabling", "readying"} => hearing
      /\ seen[x] \in OrNothing(Origin)
      /\ seen = [seen EXCEPT ![x] = seen[x]]
      /\ status \in OrNothing(Origin) /\ url \in OrNothing(Origin) /\ status = url
  BY Names DEF IInv, NavTypeOK, CaptureInv
<1>2. CASE AddHandler
  BY <1>1, <1>2, AttachInv DEF AddHandler, CreatorGoes, CreatorStep, Where, Under
<1>3. CASE SetCookies
  BY <1>1, <1>3, AttachInv DEF SetCookies, CreatorGoes, CreatorStep, Where, Under
<1>4. CASE CreatorNavigates
  <2>1. /\ at[x] \in {"enabling", "readying"}
        /\ hearing /\ attached' /\ attached' \in BOOLEAN
        /\ UNCHANGED <<lock, running, early, registered, baseline, seen, before>>
        /\ reply' = Nothing
    BY <1>1, <1>4 DEF CreatorNavigates, CreatorStep, Silent
  <2>2. running' \in OrNothing(Goto)
    BY <2>1 DEF IInv, NavTypeOK
  <2> QED
    BY <1>1, <1>4, <2>1, <2>2, NavigateInv DEF CreatorNavigates, Under
<1>5. CASE CreatorRaises
  <2>1. /\ Fails(x, "raised") /\ registered' = FALSE
        /\ UNCHANGED <<capture, chromium, lock, running, early>>
    BY <1>5 DEF CreatorRaises, CreatorFails, CreatorStep
  <2> QED
    BY <1>1, <2>1, CreatorFree, FailInv
<1>6. ASSUME CreatorAfterWait, at[x] \in {"sending", "waiting"},
             UNCHANGED <<capture, chromium, lock, running, early>>
      PROVE  IInv'
  <2>1. CASE CreatorFails("refused")
    BY <1>1, <1>6, <2>1, CreatorFree, FailInv DEF CreatorFails
  <2>2. CASE MoveTo(x, "settling") /\ UNCHANGED <<registered, baseline, seen, before>>
    BY <1>1, <1>6, <2>2, CreatorFree, MoveInv DEF Where, Under
  <2> QED
    BY <1>6, <2>1, <2>2 DEF CreatorAfterWait
<1>7. CASE CreatorSent
  <2>1. CASE status = Nothing
    <3>1. /\ MoveTo(x, "waiting") /\ at[x] = "sending"
          /\ UNCHANGED <<registered, baseline, seen, before, capture, chromium,
                         lock, running, early>>
      BY <1>7, <2>1 DEF CreatorSent, CreatorStep
    <3> QED
      BY <1>1, <3>1, MoveInv DEF Where, Under
  <2>2. CASE status # Nothing
    BY <1>6, <1>7, <2>2 DEF CreatorSent, CreatorStep
  <2> QED
    BY <2>1, <2>2
<1>8. CASE CreatorWaited
  BY <1>6, <1>8 DEF CreatorWaited, CreatorStep
<1>9. CASE Settled
  <2>1. /\ at[x] = "settling"
        /\ UNCHANGED <<lock, running, early, registered, capture, chromium>>
    BY <1>9 DEF Settled, CreatorStep
  <2>2. ASSUME NEW d \in downloads, Answers(x, status, url, d) PROVE IInv'
    <3>1. d \in OrNothing(Origin)
      BY DEF IInv, NavTypeOK, OrNothing
    <3> QED
      BY <1>1, <2>1, <2>2, <3>1, CreatorFree, ReplyInv
  <2>3. ASSUME seen' = [seen EXCEPT ![x] = url], MoveTo(x, "polling"),
               UNCHANGED <<baseline, before>>
        PROVE  IInv'
    <3>1. x \in Undisturbed => url \in told[x] \cup {Nothing}
      BY <1>1, <2>1 DEF IInv, ToldInv, CreatorInv, Under
    <3> QED
      BY <1>1, <2>1, <2>3, <3>1, CreatorFree, MoveInv DEF Where, Under
  <2> QED
    BY <1>9, <2>2, <2>3 DEF Settled
<1>10. CASE CreatorPolled
  <2>1. /\ at[x] = "polling"
        /\ UNCHANGED <<lock, running, early, registered, capture, chromium>>
    BY <1>10 DEF CreatorPolled, CreatorStep
  <2>2. PICK d \in downloads \cup {Nothing} : Answers(x, status, seen[x], d)
    BY <1>10 DEF CreatorPolled
  <2>3. d \in OrNothing(Origin)
    BY DEF IInv, NavTypeOK, OrNothing
  <2> QED
    BY <1>1, <2>1, <2>2, <2>3, CreatorFree, ReplyInv
<1> QED
  BY <1>2, <1>3, <1>4, <1>5, <1>7, <1>8, <1>9, <1>10 DEF CreateGoes

\* Every step preserves the invariant.
LEMMA NextInv == ASSUME IInv, [NavNext]_vars PROVE IInv'
<1>1. CASE UNCHANGED vars
  BY <1>1 DEF vars, capture, chromium, IInv, NavTypeOK, CaptureInv, CreatorInv,
     ToldInv, BaselineInv, Undisturbed
<1>2. CASE ChromeGoes
  BY <1>2, AnswerInv, DownloadInv DEF ChromeGoes
<1>3. CASE CreateGoes
  BY <1>3, CreateInv
<1>4. CASE \E x \in Goto : Ask(x) \/ GotoGoes(x)
  BY <1>4, AskInv, GotoInv
<1> QED
  BY <1>1, <1>2, <1>3, <1>4 DEF NavNext

\* The invariant holds in every state of every execution.
THEOREM InvHolds == NavSafe => []IInv
  BY InitInv, NextInv, PTL DEF NavSafe

\* The variables keep their types, and rec.lock is held by the goto that
\* navigates.
THEOREM TypeCorrect == NavSafe => []NavTypeOK
<1>1. IInv => NavTypeOK
  BY DEF IInv
<1> QED
  BY <1>1, InvHolds, PTL

\* What a reply may speak of.
Fresh(x) ==
  /\ {reply'.status, reply'.url} \subseteq told[x] \cup {Nothing, reply'.download}
  /\ reply'.result = "refused" => told[x] = {}

Justified ==
  /\ \A x \in Undisturbed : Replies(x) => Fresh(x)
  /\ \A x \in Request : Replies(x) => reply'.download \notin before[x]

\* A request that is answered with what it captured or read, or with 502.
LEMMA Answered ==
  ASSUME IInv, NEW y \in Request,
         NEW s, NEW u, NEW d,
         Answers(y, s, u, d),
         y \in Undisturbed => {s, u} \subseteq told[y] \cup {Nothing},
         d \notin before[y]
  PROVE  Justified
<1>1. reply' = [of |-> y, result |-> "ok", status |-> s,
                url |-> IF d # Nothing THEN d ELSE u, download |-> d]
  BY DEF Answers, Ends
<1>2. /\ reply'.of = y /\ reply'.result = "ok" /\ reply'.status = s
      /\ reply'.url \in {d, u} /\ reply'.download = d
  BY <1>1
<1> QED
  BY <1>2 DEF Justified, Replies, Fresh

LEMMA Failed ==
  ASSUME IInv, NEW y \in Request, NEW why \in {"refused", "raised"},
         Fails(y, why), why = "refused" /\ y \in Undisturbed => told[y] = {}
  PROVE  Justified
<1>1. reply' = [of |-> y, result |-> why, status |-> Nothing, url |-> Nothing,
                download |-> Nothing]
  BY DEF Fails, Ends
<1>2. /\ reply'.of = y /\ reply'.result = why /\ reply'.status = Nothing
      /\ reply'.url = Nothing /\ reply'.download = Nothing
  BY <1>1
<1>3. Nothing \notin before[y]
  BY DEF IInv, NavTypeOK, Origin, Request
<1> QED
  BY <1>2, <1>3 DEF Justified, Replies, Fresh

\* A step that sends none.
LEMMA Silently == ASSUME reply' \in {Nothing, reply} PROVE Justified
  BY DEF Justified, Replies

LEMMA AfterWaitFresh ==
  ASSUME IInv, NEW x \in Goto, at[x] \in {"sending", "waiting"}, AfterWait(x)
  PROVE  Justified
<1> DEFINE s == IF attached THEN status ELSE Nothing
           u == IF attached THEN url ELSE Nothing
<1>1. x \in Request
  BY Names
<1>2. x \in Undisturbed => {s, u} \subseteq told[x] \cup {Nothing}
  BY DEF IInv, ToldInv, CaptureInv, Under
<1>3. CASE attached /\ status = Nothing /\ GotoFails(x, "refused")
  BY <1>1, <1>3, Failed DEF GotoFails, IInv, ToldInv
<1>4. CASE LeaveLock(x)
  <2>1. ASSUME NEW d \in NewDownloads(x), Answers(x, s, u, d) PROVE Justified
    BY <1>1, <1>2, <2>1, Answered DEF NewDownloads, IInv, BaselineInv
  <2>2. CASE MoveTo(x, "polling")
    BY <2>2, Silently DEF MoveTo, Silent
  <2> QED
    BY <1>4, <2>1, <2>2 DEF LeaveLock
<1> QED
  BY <1>3, <1>4 DEF AfterWait

LEMMA GotoFresh == ASSUME IInv, NEW x \in Goto, GotoGoes(x) PROVE Justified
<1> USE DEF GotoStep
<1>1. x \in Request /\ Nothing \notin before[x]
  BY Names DEF IInv, NavTypeOK, Origin
<1>2. CASE Lock(x)
  BY <1>2, Silently DEF Lock, Silent
<1>3. CASE Sent(x)
  BY <1>3, AfterWaitFresh, Silently DEF Sent, MoveTo, Silent
<1>4. CASE SendRaises(x)
  BY <1>1, <1>4, Failed DEF SendRaises, GotoFails
<1>5. CASE Waited(x)
  BY <1>5, AfterWaitFresh DEF Waited
<1>6. CASE Poll(x)
  <2> DEFINE u == IF attached THEN url ELSE Nothing
  <2>1. PICK d \in NewDownloads(x) \cup {Nothing} : Answers(x, seen[x], u, d)
    BY <1>6 DEF Poll
  <2>2. d \notin before[x]
    BY <1>1 DEF NewDownloads, IInv, BaselineInv
  <2>3. x \in Undisturbed => {seen[x], u} \subseteq told[x] \cup {Nothing}
    BY <1>6 DEF Poll, IInv, ToldInv, CaptureInv, Under
  <2> QED
    BY <1>1, <2>1, <2>2, <2>3, Answered
<1> QED
  BY <1>2, <1>3, <1>4, <1>5, <1>6 DEF GotoGoes

LEMMA CreateFresh == ASSUME IInv, CreateGoes PROVE Justified
<1> DEFINE x == Creator
<1>1. x \in Request /\ before[x] = {}
  BY Names DEF IInv, BaselineInv
<1>2. at[x] \in Under => attached
  BY DEF IInv, CreatorInv
<1>3. CASE AddHandler \/ SetCookies \/ CreatorNavigates
  BY <1>3, Silently
  DEF AddHandler, SetCookies, CreatorNavigates, CreatorGoes, MoveTo, Silent
<1>4. CASE CreatorRaises
  BY <1>1, <1>4, Failed DEF CreatorRaises, CreatorFails
<1>5. ASSUME CreatorAfterWait, at[x] \in {"sending", "waiting"} PROVE Justified
  <2>1. CASE status = Nothing /\ CreatorFails("refused")
    BY <1>1, <1>2, <1>5, <2>1, Failed DEF CreatorFails, IInv, ToldInv, Under
  <2>2. CASE MoveTo(x, "settling")
    BY <2>2, Silently DEF MoveTo, Silent
  <2> QED
    BY <1>5, <2>1, <2>2 DEF CreatorAfterWait
<1>6. CASE CreatorSent
  BY <1>5, <1>6, Silently DEF CreatorSent, CreatorStep, MoveTo, Silent
<1>7. CASE CreatorWaited
  BY <1>5, <1>7 DEF CreatorWaited, CreatorStep
<1>8. CASE Settled
  <2>1. at[x] = "settling"
    BY <1>8 DEF Settled, CreatorStep
  <2>2. x \in Undisturbed => {status, url} \subseteq told[x] \cup {Nothing}
    BY <1>2, <2>1 DEF IInv, ToldInv, CaptureInv, Under
  <2>3. ASSUME NEW d \in downloads, Answers(x, status, url, d) PROVE Justified
    BY <1>1, <2>2, <2>3, Answered
  <2>4. CASE MoveTo(x, "polling")
    BY <2>4, Silently DEF MoveTo, Silent
  <2> QED
    BY <1>8, <2>3, <2>4 DEF Settled
<1>9. CASE CreatorPolled
  <2>1. at[x] = "polling"
    BY <1>9 DEF CreatorPolled, CreatorStep
  <2>2. PICK d \in downloads \cup {Nothing} : Answers(x, status, seen[x], d)
    BY <1>9 DEF CreatorPolled
  <2>3. x \in Undisturbed => {status, seen[x]} \subseteq told[x] \cup {Nothing}
    BY <1>2, <2>1 DEF IInv, ToldInv, Under
  <2> QED
    BY <1>1, <2>2, <2>3, Answered
<1> QED
  BY <1>3, <1>4, <1>6, <1>7, <1>8, <1>9 DEF CreateGoes

LEMMA NextFresh == ASSUME IInv, [NavNext]_vars PROVE Justified
<1>1. CASE UNCHANGED vars
  BY <1>1, Silently DEF vars
<1>2. CASE ChromeGoes
  BY <1>2, Silently DEF ChromeGoes, DocumentAnswer, DownloadBegins, Silent
<1>3. CASE CreateGoes
  BY <1>3, CreateFresh
<1>4. CASE \E x \in Goto : Ask(x) \/ GotoGoes(x)
  BY <1>4, GotoFresh, Silently DEF Ask, MoveTo, Silent
<1> QED
  BY <1>1, <1>2, <1>3, <1>4 DEF NavNext

\* A reply's status and URL were delivered since its request's own
\* navigation, and none was if it is refused.
THEOREM RepliesAreFresh == NavSafe => FreshReply
<1>1. ASSUME IInv, [NavNext]_vars
      PROVE  [\A x \in Undisturbed : Replies(x) =>
                /\ {reply'.status, reply'.url} \subseteq
                     told[x] \cup {Nothing, reply'.download}
                /\ reply'.result = "refused" => told[x] = {}]_vars
  BY <1>1, NextFresh DEF Justified, Fresh
<1> QED
  BY <1>1, InvHolds, PTL DEF NavSafe, FreshReply

\* A reply's download began after its request was made.
THEOREM DownloadsAreNew == NavSafe => NewDownload
<1>1. ASSUME IInv, [NavNext]_vars
      PROVE  [\A x \in Request :
                Replies(x) => reply'.download \notin before[x]]_vars
  BY <1>1, NextFresh DEF Justified
<1> QED
  BY <1>1, InvHolds, PTL DEF NavSafe, NewDownload

=============================================================================
