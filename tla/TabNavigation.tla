---------------------------- MODULE TabNavigation ---------------------------
(***************************************************************************)
(* POST /tabs/{id}/goto of app.py, the second half of POST /tabs (from the *)
(* registration of the tab to its reply), and NavCapture of nav_capture.py *)
(* on one tab.  A goto holds rec.lock from the reset of NavCapture to its  *)
(* status; create_tab navigates without the lock, while the tab is already *)
(* registered.  A Document response, and a download, is named by where it  *)
(* came from: the request whose Page.navigate it answers, or an iframe.    *)
(***************************************************************************)
EXTENDS Naturals, FiniteSets

CONSTANTS
  Goto,          \* requests POST /tabs/{id}/goto
  Creator,       \* the request POST /tabs that opens the tab
  Frame,         \* iframes of the pages: each may answer and download once
  Nothing,       \* Python's None; no request
  MaxDownloads   \* bound on the downloads that begin

Request == Goto \cup {Creator}
Origin == Request \cup Frame

ASSUME NavAssumption ==
  /\ Creator \notin Goto
  /\ Frame \cap Request = {}
  /\ Nothing \notin Origin
  /\ MaxDownloads \in Nat

VARIABLES
  registered,    \* the registry has the tab
  hearing,       \* NavCapture's handler is added to the tab
  attached,      \* rec.nav is set
  status,        \* NavCapture.status and mime_type; not None iff _ready is set
  url,           \* NavCapture.url
  asked,         \* Chromium: the requests whose Page.navigate it was sent
  answered,      \* the Document responses that were delivered
  downloads,     \* rec.downloads
  lock,          \* the holder of rec.lock
  running,       \* the request that found rec.lock free and goes on at once
  at,            \* where a request stands
  baseline,      \* goto's pre_existing
  seen,          \* what it has read: goto's status, create_tab's final_url
  reply,         \* the reply this step sent, if it sent one
  told,          \* history: the responses delivered since a request's reset
  before,        \* history: the downloads there were when a goto was made
  early          \* history: the gotos that got the lock before create_tab ended

capture == <<hearing, attached, status, url>>
chromium == <<asked, answered, downloads>>
vars == <<registered, capture, chromium, lock, running, at, baseline, seen,
          reply, told, before, early>>

Silent == reply' = Nothing

NavInit ==
  /\ registered = TRUE
  /\ hearing = FALSE
  /\ attached = FALSE
  /\ status = Nothing
  /\ url = Nothing
  /\ asked = {}
  /\ answered = {}
  /\ downloads = {}
  /\ lock = Nothing
  /\ running = Nothing
  /\ at = [x \in Request |-> IF x = Creator THEN "attaching" ELSE "idle"]
  /\ baseline = [x \in Request |-> {}]
  /\ seen = [x \in Request |-> Nothing]
  /\ reply = Nothing
  /\ told = [x \in Request |-> {}]
  /\ before = [x \in Request |-> {}]
  /\ early = {}

----------------------------------------------------------------------------
(* Chromium: Document responses and downloads                              *)

\* An iframe is of a page that has been answered.
Possible(o) ==
  IF o \in Frame THEN answered \cap Request # {} ELSE o \in asked

\* _on_response of type Document: status, mime_type and url are overwritten
\* and _ready is set, whichever frame or navigation the answer is of.
OnResponse(o) ==
  IF hearing THEN status' = o /\ url' = o ELSE UNCHANGED <<status, url>>

DocumentAnswer(o) ==
  /\ o \notin answered
  /\ Possible(o)
  /\ answered' = answered \cup {o}
  /\ OnResponse(o)
  /\ told' = [x \in Request |-> IF at[x] \in {"idle", "done"} THEN {}
                               ELSE told[x] \cup {o}]
  /\ Silent
  /\ UNCHANGED <<registered, hearing, attached, asked, downloads, lock,
                 running, at, baseline, seen, before, early>>

\* Browser.downloadWillBegin makes a record.
DownloadBegins(o) ==
  /\ o \notin downloads
  /\ Possible(o)
  /\ Cardinality(downloads) < MaxDownloads
  /\ downloads' = downloads \cup {o}
  /\ Silent
  /\ UNCHANGED <<registered, capture, asked, answered, lock, running, at,
                 baseline, seen, told, before, early>>

----------------------------------------------------------------------------
(* Steps the two routes share                                              *)

\* Fault: reset leaves the status of the navigation before.
Reset_Url == url' = Nothing /\ UNCHANGED status

\* NavCapture.reset
Reset == status' = Nothing /\ url' = Nothing

\* reset, and Page.navigate is sent.
Navigate(x) ==
  /\ IF attached \/ x = Creator THEN Reset ELSE UNCHANGED <<status, url>>
  /\ asked' = asked \cup {x}
  /\ told' = [told EXCEPT ![x] = {}]
  /\ UNCHANGED <<hearing, answered, downloads>>

\* What a request makes of the downloads it finds: _wait_for_first_download
\* looks at once, then twenty times in half a second.
NewDownloads(x) == downloads \ baseline[x]

MoveTo(x, where) ==
  at' = [at EXCEPT ![x] = where] /\ Silent /\ UNCHANGED told

\* A reply is sent; what was noted for its request is over.
Ends(x, r) ==
  /\ at' = [at EXCEPT ![x] = "done"]
  /\ told' = [told EXCEPT ![x] = {}]
  /\ before' = [before EXCEPT ![x] = {}]
  /\ baseline' = [baseline EXCEPT ![x] = {}]
  /\ seen' = [seen EXCEPT ![x] = Nothing]
  /\ reply' = r

\* With the first new download d, or none.  With no URL captured the tab's
\* own is used.
Answers(x, s, u, d) ==
  Ends(x, [of |-> x, result |-> "ok", status |-> s,
           url |-> IF d # Nothing THEN d ELSE u, download |-> d])

\* 502, for want of a response or because the browser raised.
Fails(x, why) ==
  Ends(x, [of |-> x, result |-> why, status |-> Nothing, url |-> Nothing,
           download |-> Nothing])

----------------------------------------------------------------------------
(* POST /tabs/{id}/goto                                                    *)

\* rec.lock is free and nobody queues for it.
Uncontended == lock = Nothing /\ \A y \in Goto : at[y] # "toLock"

\* Fault: downloads of before the request are not told from new ones.
Baseline_Empty == {}

\* pre_existing
Baseline == downloads

\* The tab is found, unless create_tab has failed and removed it.
Ask(x) ==
  /\ at[x] = "idle"
  /\ running = Nothing
  /\ registered
  /\ baseline' = [baseline EXCEPT ![x] = Baseline]
  /\ before' = [before EXCEPT ![x] = downloads]
  /\ MoveTo(x, "toLock")
  /\ running' = IF Uncontended THEN x ELSE Nothing
  /\ UNCHANGED <<registered, capture, chromium, lock, seen, early>>

Lock(x) ==
  /\ at[x] = "toLock"
  /\ lock = Nothing
  /\ running \in {x, Nothing}
  /\ lock' = x
  /\ running' = Nothing
  /\ Navigate(x)
  /\ at' = [at EXCEPT ![x] = "sending"]
  /\ Silent
  /\ early' = IF at[Creator] = "done" THEN early ELSE early \cup {x}
  /\ UNCHANGED <<registered, attached, baseline, seen, before>>

\* Fault: the lock is kept on the way out by the except block.
GotoFails_Locked(x, why) == Fails(x, why) /\ UNCHANGED lock

GotoFails(x, why) == Fails(x, why) /\ lock' = Nothing

\* The lock is given back, and with no await in between the status is read
\* and the downloads are looked at.
LeaveLock(x) ==
  LET s == IF attached THEN status ELSE Nothing
      u == IF attached THEN url ELSE Nothing
  IN /\ lock' = Nothing
     /\ \/ \E d \in NewDownloads(x) : Answers(x, s, u, d)
        \/ /\ NewDownloads(x) = {}
           /\ seen' = [seen EXCEPT ![x] = s]
           /\ MoveTo(x, "polling")
           /\ UNCHANGED <<baseline, before>>

\* nav.wait has ended.
AfterWait(x) ==
  \/ attached /\ status = Nothing /\ GotoFails(x, "refused")
  \/ LeaveLock(x)                  \* status, or no http(s) URL

GotoStep(x, from) ==
  /\ at[x] = from
  /\ running = Nothing
  /\ UNCHANGED <<registered, capture, chromium, running, early>>

\* Page.navigate is answered: the wait is over at once if a response came.
Sent(x) ==
  /\ GotoStep(x, "sending")
  /\ IF attached /\ status = Nothing
     THEN MoveTo(x, "waiting") /\ UNCHANGED <<lock, baseline, seen, before>>
     ELSE AfterWait(x)

SendRaises(x) == GotoStep(x, "sending") /\ GotoFails(x, "raised")

\* A response has come, or two seconds have passed.
Waited(x) == GotoStep(x, "waiting") /\ AfterWait(x)

\* A new download is found, or none was at the last look; nav.url is read
\* only now.
Poll(x) ==
  /\ GotoStep(x, "polling")
  /\ \E d \in NewDownloads(x) \cup {Nothing} :
       Answers(x, seen[x], IF attached THEN url ELSE Nothing, d)
  /\ UNCHANGED lock

----------------------------------------------------------------------------
(* POST /tabs, from the registration of the tab on                         *)

CreatorStep(from) ==
  /\ at[Creator] = from
  /\ running = Nothing
  /\ UNCHANGED <<lock, running, early>>

CreatorGoes(from, to) ==
  CreatorStep(from) /\ MoveTo(Creator, to) /\ UNCHANGED <<baseline, seen, before>>

\* nav.attach adds the handler, then waits for Network.enable.
AddHandler ==
  /\ CreatorGoes("attaching", "enabling")
  /\ hearing' = TRUE
  /\ UNCHANGED <<registered, attached, status, url, chromium>>

\* rec.nav is set; with cookies to set there is one more await before the
\* navigation.
SetCookies ==
  /\ CreatorGoes("enabling", "readying")
  /\ attached' = TRUE
  /\ UNCHANGED <<registered, hearing, status, url, chromium>>

CreatorNavigates ==
  /\ CreatorStep("enabling") \/ CreatorStep("readying")
  /\ attached' = TRUE
  /\ Navigate(Creator)
  /\ at' = [at EXCEPT ![Creator] = "sending"]
  /\ Silent
  /\ UNCHANGED <<registered, baseline, seen, before>>

\* The except block; what else it undoes is in TabLifecycle.
CreatorFails(why) ==
  /\ Fails(Creator, why)
  /\ registered' = FALSE

\* nav.wait has ended.
CreatorAfterWait ==
  \/ status = Nothing /\ CreatorFails("refused")
  \/ MoveTo(Creator, "settling") /\ UNCHANGED <<registered, baseline, seen, before>>

CreatorSent ==
  /\ CreatorStep("sending")
  /\ IF status = Nothing
     THEN /\ MoveTo(Creator, "waiting")
          /\ UNCHANGED <<registered, baseline, seen, before>>
     ELSE CreatorAfterWait
  /\ UNCHANGED <<capture, chromium>>

CreatorWaited ==
  /\ CreatorStep("waiting")
  /\ CreatorAfterWait
  /\ UNCHANGED <<capture, chromium>>

CreatorRaises ==
  /\ \E p \in {"attaching", "enabling", "readying", "sending"} : CreatorStep(p)
  /\ CreatorFails("raised")
  /\ UNCHANGED <<capture, chromium>>

\* Half a second later the URL is read, and downloads are looked for.
Settled ==
  /\ CreatorStep("settling")
  /\ \/ \E d \in downloads : Answers(Creator, status, url, d)
     \/ /\ downloads = {}
        /\ seen' = [seen EXCEPT ![Creator] = url]
        /\ MoveTo(Creator, "polling")
        /\ UNCHANGED <<baseline, before>>
  /\ UNCHANGED <<registered, capture, chromium>>

\* The status is read only now.
CreatorPolled ==
  /\ CreatorStep("polling")
  /\ \E d \in downloads \cup {Nothing} :
       Answers(Creator, status, seen[Creator], d)
  /\ UNCHANGED <<registered, capture, chromium>>

----------------------------------------------------------------------------

GotoGoes(x) == Lock(x) \/ Sent(x) \/ SendRaises(x) \/ Waited(x) \/ Poll(x)

CreateGoes ==
  \/ AddHandler
  \/ SetCookies
  \/ CreatorNavigates
  \/ CreatorSent
  \/ CreatorWaited
  \/ CreatorRaises
  \/ Settled
  \/ CreatorPolled

ChromeGoes ==
  running = Nothing /\ \E o \in Origin : DocumentAnswer(o) \/ DownloadBegins(o)

NavNext ==
  \/ ChromeGoes
  \/ CreateGoes
  \/ \E x \in Goto : Ask(x) \/ GotoGoes(x)

NavSafe == NavInit /\ [][NavNext]_vars

----------------------------------------------------------------------------
(* Properties                                                              *)

Where == {"idle", "toLock", "attaching", "enabling", "readying", "sending",
          "waiting", "settling", "polling", "done"}

OrNothing(S) == S \cup {Nothing}

Reply == [of : Request, result : {"ok", "refused", "raised"},
          status : OrNothing(Origin), url : OrNothing(Origin),
          download : OrNothing(Origin)]

\* The values of the variables; a goto that navigates holds rec.lock, and
\* nobody else does.
NavTypeOK ==
  /\ {registered, hearing, attached} \subseteq BOOLEAN
  /\ {status, url} \subseteq OrNothing(Origin)
  /\ asked \subseteq Request
  /\ answered \subseteq Origin
  /\ downloads \subseteq Origin
  /\ {lock, running} \subseteq OrNothing(Goto)
  /\ at \in [Request -> Where]
  /\ {baseline, told, before} \subseteq [Request -> SUBSET Origin]
  /\ seen \in [Request -> OrNothing(Origin)]
  /\ reply \in OrNothing(Reply)
  /\ early \subseteq Goto
  /\ \A x \in Goto : at[x] \in {"sending", "waiting"} <=> lock = x

\* Requests under whose navigation no other handler resets NavCapture: the
\* gotos that got the lock after create_tab had ended, and create_tab if no
\* goto got it before.
Undisturbed ==
  (Goto \ early) \cup (IF early = {} THEN {Creator} ELSE {})

Replies(x) == reply' # Nothing /\ reply' # reply /\ reply'.of = x

\* No reply speaks of a response of before its request's own navigation: its
\* status, content type and URL were delivered since.  And a request that is
\* refused because no response was captured has not been sent any.
FreshReply ==
  [][\A x \in Undisturbed : Replies(x) =>
       /\ {reply'.status, reply'.url} \subseteq
            told[x] \cup {Nothing, reply'.download}
       /\ reply'.result = "refused" => told[x] = {}]_vars

\* The download a reply names began after its request was made.
NewDownload ==
  [][\A x \in Request : Replies(x) => reply'.download \notin before[x]]_vars

=============================================================================
