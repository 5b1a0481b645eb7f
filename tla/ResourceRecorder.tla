-------------------------- MODULE ResourceRecorder --------------------------
(***************************************************************************)
(* ResourceRecorder of resources.py for one tab: the handlers of the CDP   *)
(* events requestWillBeSent, responseReceived, loadingFinished and         *)
(* frameNavigated, and the tasks that fetch bodies, interleaved with the   *)
(* removal of the tab.  Chromium delivers the events of a tab in order and *)
(* the handlers do not await, so an event and its handler are one action.  *)
(*                                                                         *)
(* In CDP the id of a document's request is also the id of its loader, so  *)
(* loaders are named by documents.  A request redirected n times sends     *)
(* n + 1 requests under one id; an entry of rec.resources is <<r, n>> for  *)
(* the key "r:rn" of the n-th redirect and Final(r) for the key "r".       *)
(***************************************************************************)
EXTENDS Integers, FiniteSets

CONSTANTS
  Request,       \* request ids
  Doc,           \* of these, the documents of the main frame
  NoLoader,      \* the empty loader id
  Modes,         \* the capture modes tabs are created with
  MaxHops        \* bound on the redirects of one request

ASSUME RecorderAssumption ==
  /\ Doc \subseteq Request
  /\ NoLoader \notin Request
  /\ Modes \subseteq {"no_copy", "copy", "copy_and_retain"}
  /\ MaxHops \in Nat

VARIABLES
  net,           \* Chromium: how far a request has come
  hop,           \* Chromium: the redirects it has followed
  owner,         \* Chromium: the loader the request belongs to
  page,          \* Chromium: the loader of the main frame's document
  going,         \* Chromium: the navigation in progress, NoLoader if none
  mode,          \* TabRecord.capture_mode
  registered,    \* TabRegistry has the tab
  attached,      \* ResourceRecorder._mode has the tab
  loader,        \* ResourceRecorder._current_loader, NoLoader if absent
  pending,       \* the RequestRecord kept for a request id
  hops,          \* redirect_hops
  stored,        \* the keys of rec.resources
  carries,       \* the request whose line and headers an entry carries
  body,          \* the entries with a buffered body
  capture,       \* where the _capture_body task of a request stands
  fresh          \* history: the entries made since the last navigation

chromium == <<net, hop, owner, page, going>>
recVars == <<chromium, mode, registered, attached, loader, pending, hops,
             stored, carries, body, capture, fresh>>

Chain == 0 .. MaxHops
Nothing == -1                 \* no RequestRecord
Loader == Doc \cup {NoLoader}
Key == Request \X Chain
Final(r) == <<r, MaxHops>>
HopKey(r, n) == <<r, n>>

RecInit ==
  /\ net = [r \in Request |-> "unused"]
  /\ hop = [r \in Request |-> 0]
  /\ owner = [r \in Request |-> NoLoader]
  /\ page = NoLoader
  /\ going = NoLoader
  /\ mode \in Modes
  /\ registered = TRUE
  /\ attached = TRUE
  /\ loader = NoLoader
  /\ pending = [r \in Request |-> Nothing]
  /\ hops = [r \in Request |-> 0]
  /\ stored = {}
  /\ carries = [k \in Key |-> Nothing]
  /\ body = {}
  /\ capture = [r \in Request |-> "none"]
  /\ fresh = {}

mode_for == IF attached THEN mode ELSE "no_copy"

----------------------------------------------------------------------------
(* requestWillBeSent                                                       *)

\* A document is its own loader; what a page or one of its workers asks for
\* belongs to the page or to no loader.
SentBy(r) == IF r \in Doc THEN {r} ELSE {page, NoLoader}

\* A navigation that another one has replaced gets no further.
Goes(r) == r \in Doc => going = r

RequestSent(r) ==
  /\ net[r] = "unused"
  /\ r \in Doc \/ page # NoLoader
  /\ net' = [net EXCEPT ![r] = "sent"]
  /\ owner' \in {[owner EXCEPT ![r] = l] : l \in SentBy(r)}
  /\ going' = IF r \in Doc THEN r ELSE going
  /\ pending' = [pending EXCEPT ![r] = 0]
  /\ UNCHANGED <<hop, page, mode, registered, attached, loader, hops, stored,
                 carries, body, capture, fresh>>

\* Faults: the entry takes the request that follows; redirects count double.
StoreHop_Next(r) ==
  /\ hops' = [hops EXCEPT ![r] = @ + 1]
  /\ stored' = stored \cup {HopKey(r, hops[r])}
  /\ carries' = [carries EXCEPT ![HopKey(r, hops[r])] = hop[r] + 1]
  /\ fresh' = fresh \cup {HopKey(r, hops[r])}

StoreHop_Double(r) ==
  /\ hops' = [hops EXCEPT ![r] = @ + 2]
  /\ stored' = stored \cup {HopKey(r, hops[r])}
  /\ carries' = [carries EXCEPT ![HopKey(r, hops[r])] = pending[r]]
  /\ fresh' = fresh \cup {HopKey(r, hops[r])}

\* An entry for the redirect, made from the request that was pending.
StoreHop(r) ==
  IF registered /\ pending[r] # Nothing
  THEN LET k == HopKey(r, hops[r]) IN
       /\ hops' = [hops EXCEPT ![r] = @ + 1]
       /\ stored' = stored \cup {k}
       /\ carries' = [carries EXCEPT ![k] = pending[r]]
       /\ fresh' = fresh \cup {k}
  ELSE UNCHANGED <<hops, stored, carries, fresh>>

\* The same request id again, with the redirect_response of the last one.
Redirected(r) ==
  /\ net[r] = "sent"
  /\ Goes(r)
  /\ hop[r] < MaxHops
  /\ hop' = [hop EXCEPT ![r] = @ + 1]
  /\ StoreHop(r)
  /\ pending' = [pending EXCEPT ![r] = hop[r] + 1]
  /\ UNCHANGED <<net, owner, page, going, mode, registered, attached, loader,
                 body, capture>>

----------------------------------------------------------------------------
(* responseReceived and loadingFinished                                    *)

ResponseReceived(r) ==
  /\ net[r] = "sent"
  /\ Goes(r)
  /\ net' = [net EXCEPT ![r] = "answered"]
  /\ IF registered
     THEN /\ stored' = stored \cup {Final(r)}
          /\ carries' = [carries EXCEPT ![Final(r)] = pending[r]]
          /\ pending' = [pending EXCEPT ![r] = Nothing]
          /\ fresh' = fresh \cup {Final(r)}
     ELSE UNCHANGED <<stored, carries, pending, fresh>>
  /\ UNCHANGED <<hop, owner, page, going, mode, registered, attached, loader,
                 hops, body, capture>>

\* Fault: bodies are buffered in every mode.
Buffers_Always == TRUE

Buffers == mode_for \in {"copy", "copy_and_retain"}

\* Chromium streams a document once it is shown.
LoadingFinished(r) ==
  /\ net[r] = (IF r \in Doc THEN "shown" ELSE "answered")
  /\ net' = [net EXCEPT ![r] = "finished"]
  /\ capture' = IF registered /\ Buffers
                THEN [capture EXCEPT ![r] = "queued"] ELSE capture
  /\ UNCHANGED <<hop, owner, page, going, mode, registered, attached, loader,
                 pending, hops, stored, carries, body, fresh>>

----------------------------------------------------------------------------
(* _capture_body                                                           *)

Unfetched(r) == Final(r) \in stored /\ Final(r) \notin body

CaptureStarts(r) ==
  /\ capture[r] = "queued"
  /\ capture' = [capture EXCEPT
       ![r] = IF registered /\ Unfetched(r) THEN "asking" ELSE "none"]
  /\ UNCHANGED <<chromium, mode, registered, attached, loader, pending, hops,
                 stored, carries, body, fresh>>

\* Network.getResponseBody is answered, or raises.
CaptureAnswered(r) ==
  /\ capture[r] = "asking"
  /\ capture' \in {[capture EXCEPT ![r] = a] : a \in {"got", "none"}}
  /\ UNCHANGED <<chromium, mode, registered, attached, loader, pending, hops,
                 stored, carries, body, fresh>>

\* Fault: the record of before the await is written to.
StoreBody_Unchecked(r) == body' = body \cup {Final(r)}

StoreBody(r) ==
  body' = IF Final(r) \in stored THEN body \cup {Final(r)} ELSE body

CaptureStores(r) ==
  /\ capture[r] = "got"
  /\ StoreBody(r)
  /\ capture' = [capture EXCEPT ![r] = "none"]
  /\ UNCHANGED <<chromium, mode, registered, attached, loader, pending, hops,
                 stored, carries, fresh>>

----------------------------------------------------------------------------
(* frameNavigated                                                          *)

\* Fault: what was recorded for the page being left stays, the rest goes.
Stale_Old(d) == {k \in stored : owner[k[1]] \notin {NoLoader, loader}}

Stale(d) == {k \in stored : owner[k[1]] \notin {NoLoader, d}}

\* Fault: copies are taken for retained.
Prunes_NoCopy == mode_for = "no_copy"

Prunes == mode_for # "copy_and_retain"

\* The main frame shows d, a document that was answered or one without a
\* request (about:blank).
FrameNavigated(d) ==
  /\ d \in Doc
  /\ net[d] \in {"unused", "answered"}
  /\ net[d] = "answered" => Goes(d)
  /\ net' = [net EXCEPT ![d] = IF @ = "answered" THEN "shown" ELSE "blank"]
  /\ page' = d
  /\ going' = NoLoader
  /\ loader' = d
  /\ stored' = IF Prunes /\ registered THEN stored \ Stale(d) ELSE stored
  /\ fresh' = {}
  /\ UNCHANGED <<hop, owner, mode, registered, attached, pending, hops,
                 carries, body, capture>>

----------------------------------------------------------------------------
(* The end of the tab: registry.remove, close_context, detach_tab          *)

RegistryRemove ==
  /\ registered
  /\ registered' = FALSE
  /\ UNCHANGED <<chromium, mode, attached, loader, pending, hops, stored,
                 carries, body, capture, fresh>>

DetachTab ==
  /\ ~registered
  /\ attached
  /\ attached' = FALSE
  /\ loader' = NoLoader
  /\ UNCHANGED <<chromium, mode, registered, pending, hops, stored, carries,
                 body, capture, fresh>>

CdpEvent(r) ==
  \/ RequestSent(r)
  \/ Redirected(r)
  \/ ResponseReceived(r)
  \/ LoadingFinished(r)
  \/ FrameNavigated(r)

CaptureStep(r) ==
  \/ CaptureStarts(r)
  \/ CaptureAnswered(r)
  \/ CaptureStores(r)

RecNext ==
  \/ \E r \in Request : CdpEvent(r) \/ CaptureStep(r)
  \/ RegistryRemove
  \/ DetachTab

RecSpec == RecInit /\ [][RecNext]_recVars

----------------------------------------------------------------------------
(* Properties                                                              *)

\* The values of the variables.
RecTypeOK ==
  /\ net \in [Request -> {"unused", "sent", "answered", "shown", "blank",
                          "finished"}]
  /\ hop \in [Request -> Chain]
  /\ owner \in [Request -> Loader]
  /\ page \in Loader
  /\ going \in Loader
  /\ mode \in Modes
  /\ registered \in BOOLEAN
  /\ attached \in BOOLEAN
  /\ loader \in Loader
  /\ pending \in [Request -> Chain \cup {Nothing}]
  /\ hops \in [Request -> Chain]
  /\ stored \subseteq Key
  /\ carries \in [Key -> Chain \cup {Nothing}]
  /\ body \subseteq Key
  /\ capture \in [Request -> {"none", "queued", "asking", "got"}]
  /\ fresh \subseteq Key

Answered(r) == net[r] \in {"answered", "shown", "finished"}

\* What Chromium has told about the requests of S: their redirects, and the
\* answer once it came.
Told(S) ==
  {k \in S \X Chain :
     \/ k[2] < hop[k[1]]
     \/ k = Final(k[1]) /\ Answered(k[1])}

\* The requests a client of the tab expects to find.
Current ==
  IF mode = "copy_and_retain" THEN Request
  ELSE {r \in Request : owner[r] \in {page, NoLoader}}

\* While the tab is registered every answer and redirect of the current page
\* and of its workers, the ones that came before the page was shown included,
\* has its entry; in retain mode those of all pages have.
PageRecorded == registered => Told(Current) \subseteq stored

\* A navigation leaves only the entries of its page and of workers: any other
\* entry was made since.
Pruned ==
  registered /\ mode # "copy_and_retain" =>
    \A k \in stored \ fresh : owner[k[1]] \in {page, NoLoader}

\* An entry carries the request that drew it: the n-th redirect the n-th
\* request of its chain, the answer the last one.
CarriesItsRequest ==
  \A k \in stored :
    carries[k] = (IF k = Final(k[1]) THEN hop[k[1]] ELSE k[2])

\* Bodies are buffered only in the copy modes, and only of finished answers.
BuffersAsTold ==
  /\ body # {} => mode # "no_copy"
  /\ \A k \in body : net[k[1]] = "finished" /\ k = Final(k[1])

\* A body that comes back after its entry was pruned is dropped.
NoBodyAfterPrune == [][body' \ body \subseteq stored]_recVars

=============================================================================
