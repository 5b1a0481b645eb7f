----------------------- MODULE ResourceRecorderProofs -----------------------
(***************************************************************************)
(* Every execution of the recorder, with any requests, documents, capture  *)
(* modes and bound on redirects, keeps RecTypeOK, PageRecorded, Pruned,    *)
(* CarriesItsRequest and BuffersAsTold.                                    *)
(***************************************************************************)
EXTENDS ResourceRecorder, TLAPS

\* A registered tab is attached, and numbers redirects as Chromium does; a
\* request under way is the one that is pending.
CountInv ==
  registered =>
    /\ attached
    /\ \A r \in Request :
         /\ hops[r] = hop[r]
         /\ net[r] = "sent" => pending[r] = hop[r]

\* A request that was not sent belongs to nobody and was not redirected; the
\* page, and the owner of a request, are documents Chromium has got to.
OwnerInv ==
  /\ \A r \in Request :
       /\ net[r] = "unused" => owner[r] = NoLoader /\ hop[r] = 0
       /\ owner[r] # NoLoader => net[owner[r]] # "unused"
  /\ page # NoLoader => net[page] # "unused"

\* What is stored was told.
StoredInv == stored \subseteq Told(Request)

\* What was told of the page, of the navigation in progress and of workers
\* is stored, and in retain mode everything.
KeptInv ==
  registered =>
    \A k \in Told(Request) :
      \/ mode = "copy_and_retain"
      \/ owner[k[1]] \in {page, going, NoLoader}
      => k \in stored

\* Bodies are fetched in the copy modes, for finished answers.
CaptureInv ==
  /\ \A r \in Request :
       capture[r] # "none" => mode # "no_copy" /\ net[r] = "finished"
  /\ BuffersAsTold

IInv ==
  /\ RecTypeOK
  /\ CountInv
  /\ OwnerInv
  /\ StoredInv
  /\ KeptInv
  /\ Pruned
  /\ CarriesItsRequest
  /\ CaptureInv

USE RecorderAssumption

\* The initial states satisfy the invariant.
LEMMA InitInv == RecInit => IInv
<1> SUFFICES ASSUME RecInit PROVE IInv
  OBVIOUS
<1>1. RecTypeOK
  BY DEF RecInit, RecTypeOK, Loader, Chain, Nothing
<1>2. CountInv /\ OwnerInv
  BY DEF RecInit, CountInv, OwnerInv
<1>3. Told(Request) = {}
  BY DEF RecInit, Told, Answered, Chain
<1>4. StoredInv /\ KeptInv
  BY <1>3 DEF RecInit, StoredInv, KeptInv
<1>5. Pruned /\ CarriesItsRequest /\ CaptureInv
  BY DEF RecInit, Pruned, CarriesItsRequest, CaptureInv, BuffersAsTold
<1> QED
  BY <1>1, <1>2, <1>4, <1>5 DEF IInv

\* The keys of one request, whatever it is named.
LEMMA Keys ==
  /\ \A k \in Key : k[1] \in Request /\ k[2] \in Chain /\ k = <<k[1], k[2]>>
  /\ \A r \in Request, n \in Chain : <<r, n>> \in Key
  /\ \A r \in Request : Final(r) \in Key
  BY DEF Key, Chain, Final

\* A request is sent: nothing was told of it yet.
LEMMA SentInv == ASSUME IInv, NEW r \in Request, RequestSent(r) PROVE IInv'
<1> USE DEF IInv
<1>1. RecTypeOK'
  BY DEF RequestSent, RecTypeOK, SentBy, Loader, Chain, Nothing
<1>2. CountInv' /\ OwnerInv'
  BY DEF RequestSent, CountInv, OwnerInv, SentBy, RecTypeOK, Loader
<1>3. Told(Request)' = Told(Request)
  BY DEF RequestSent, Told, Answered, RecTypeOK
<1>4. \A k \in Told(Request) : k[1] # r
  BY DEF Told, Answered, OwnerInv, RequestSent, RecTypeOK, Chain
<1>5. \A q \in Request : q # r => owner'[q] = owner[q]
  BY DEF RequestSent, RecTypeOK
<1>6. \A k \in Told(Request) : k[1] \in Request
  BY DEF Told
<1>7. StoredInv'
  BY <1>3 DEF StoredInv, RequestSent
<1>8. KeptInv'
  BY <1>3, <1>4, <1>5, <1>6 DEF KeptInv, RequestSent, OwnerInv, RecTypeOK,
     RecorderAssumption
<1>9. \A k \in stored : k[1] # r /\ k[1] \in Request
  BY <1>4, <1>6 DEF StoredInv
<1>10. Pruned' /\ CarriesItsRequest'
  BY <1>5, <1>9 DEF Pruned, CarriesItsRequest, RequestSent
<1>11. CaptureInv'
  BY DEF CaptureInv, BuffersAsTold, RequestSent, RecTypeOK, Key
<1> QED
  BY <1>1, <1>2, <1>7, <1>8, <1>10, <1>11

\* What a step that only adds the key of what it tells preserves.
LEMMA Adds ==
  ASSUME IInv,
         NEW k \in Key,
         Told(Request)' = Told(Request) \cup {k},
         registered => stored' = stored \cup {k} /\ fresh' = fresh \cup {k},
         ~registered => UNCHANGED <<stored, fresh>>,
         UNCHANGED <<owner, page, going, mode, registered>>
  PROVE  StoredInv' /\ KeptInv' /\ Pruned'
<1>1. StoredInv'
  BY DEF IInv, StoredInv
<1>2. KeptInv'
  BY DEF IInv, KeptInv
<1>3. Pruned'
  BY DEF IInv, Pruned
<1> QED
  BY <1>1, <1>2, <1>3

\* A redirect: its key is told and stored, with the request it answered.
LEMMA RedirectedInv == ASSUME IInv, NEW r \in Request, Redirected(r) PROVE IInv'
<1> USE DEF IInv
<1> DEFINE k == HopKey(r, hop[r])
<1>1. /\ hop[r] \in Chain /\ hop[r] + 1 \in Chain /\ hop[r] # MaxHops
      /\ hop' = [hop EXCEPT ![r] = hop[r] + 1]
  BY DEF Redirected, RecTypeOK, Chain, RecorderAssumption
<1>2. k \in Key /\ k # Final(r) /\ k[1] = r /\ k[2] = hop[r]
  BY <1>1 DEF Key, HopKey, Final
<1>3. registered =>
        /\ hops' = [hops EXCEPT ![r] = hop[r] + 1]
        /\ stored' = stored \cup {k}
        /\ carries' = [carries EXCEPT ![k] = hop[r]]
        /\ fresh' = fresh \cup {k}
  BY <1>1 DEF Redirected, StoreHop, CountInv, Chain, Nothing
<1>4. ~registered => UNCHANGED <<hops, stored, carries, fresh>>
  BY DEF Redirected, StoreHop
<1>5. RecTypeOK'
  <2>1. hops' \in [Request -> Chain] /\ stored' \subseteq Key
          /\ carries' \in [Key -> Chain \cup {Nothing}] /\ fresh' \subseteq Key
    BY <1>1, <1>2, <1>3, <1>4 DEF RecTypeOK
  <2>2. hop' \in [Request -> Chain]
          /\ pending' \in [Request -> Chain \cup {Nothing}]
    BY <1>1 DEF Redirected, RecTypeOK
  <2> QED
    BY <2>1, <2>2 DEF Redirected, RecTypeOK
<1>6. CountInv'
  <2> SUFFICES ASSUME registered, NEW q \in Request
               PROVE  /\ attached
                      /\ hops'[q] = hop'[q]
                      /\ net[q] = "sent" => pending'[q] = hop'[q]
    BY DEF CountInv, Redirected
  <2> QED
    BY <1>1, <1>3 DEF Redirected, CountInv, RecTypeOK
<1>7. OwnerInv'
  BY DEF Redirected, OwnerInv, RecTypeOK
<1>8. Told(Request)' = Told(Request) \cup {k}
  <2>1. \A j \in Key : j \in Told(Request)' <=> j \in Told(Request) \/ j = k
    <3> SUFFICES ASSUME NEW j \in Key
                 PROVE  j \in Told(Request)' <=> j \in Told(Request) \/ j = k
      OBVIOUS
    <3>1. j[1] \in Request /\ j[2] \in Chain /\ j = <<j[1], j[2]>>
      BY Keys
    <3>2. CASE j[1] # r
      BY <1>1, <1>2, <3>1, <3>2 DEF Told, Answered, Redirected, RecTypeOK, Key
    <3>3. CASE j[1] = r
      <4>1. ~Answered(r) /\ ~Answered(r)'
        BY DEF Answered, Redirected
      <4>2. j[2] \in Int /\ hop[r] \in Int /\ hop'[r] = hop[r] + 1
        BY <1>1, <3>1 DEF RecTypeOK, Chain
      <4>3. j = k <=> j[2] = hop[r]
        BY <3>1, <3>3 DEF HopKey
      <4> QED
        BY <3>1, <3>3, <4>1, <4>2, <4>3 DEF Told, Key
    <3> QED
      BY <3>2, <3>3
  <2>2. Told(Request)' \subseteq Key /\ Told(Request) \subseteq Key
    BY DEF Told, Key
  <2> QED
    BY <1>2, <2>1, <2>2
<1>9. StoredInv' /\ KeptInv' /\ Pruned'
  BY <1>2, <1>3, <1>4, <1>8, Adds DEF Redirected
<1>10. CarriesItsRequest'
  <2> SUFFICES ASSUME NEW j \in stored'
               PROVE  carries'[j] = (IF j = Final(j[1]) THEN hop'[j[1]]
                                     ELSE j[2])
    BY DEF CarriesItsRequest
  <2>1. CASE j \in stored /\ j # k
    <3>1. carries'[j] = carries[j]
      BY <1>2, <1>3, <1>4, <2>1 DEF RecTypeOK
    <3>2. j = Final(j[1]) => j[1] # r
      BY <1>1, <2>1 DEF StoredInv, Told, Answered, Redirected, Final, Chain
    <3>3. j[1] \in Request
      BY <2>1 DEF RecTypeOK, Key
    <3> QED
      BY <1>1, <2>1, <3>1, <3>2, <3>3 DEF CarriesItsRequest, RecTypeOK
  <2>2. CASE j = k /\ registered
    BY <1>2, <1>3, <2>2 DEF RecTypeOK
  <2>3. CASE j = k /\ ~registered
    <3>1. j \in stored
      BY <1>4, <2>3
    <3> QED
      BY <1>2, <1>4, <2>3, <3>1 DEF CarriesItsRequest
  <2> QED
    BY <1>3, <1>4, <2>1, <2>2, <2>3
<1>11. CaptureInv'
  BY DEF Redirected, CaptureInv, BuffersAsTold
<1> QED
  BY <1>5, <1>6, <1>7, <1>9, <1>10, <1>11

\* An answer: likewise.
LEMMA ResponseInv ==
  ASSUME IInv, NEW r \in Request, ResponseReceived(r) PROVE IInv'
<1> USE DEF IInv
<1> DEFINE k == Final(r)
<1>1. k \in Key /\ k[1] = r /\ k[2] = MaxHops
  BY DEF Key, Final, Chain, RecorderAssumption
<1>2. registered =>
        /\ stored' = stored \cup {k}
        /\ carries' = [carries EXCEPT ![k] = hop[r]]
        /\ fresh' = fresh \cup {k}
  BY DEF ResponseReceived, CountInv
<1>3. ~registered => UNCHANGED <<stored, carries, fresh>>
  BY DEF ResponseReceived
<1>4. RecTypeOK'
  <2>1. stored' \subseteq Key /\ fresh' \subseteq Key
          /\ carries' \in [Key -> Chain \cup {Nothing}]
    BY <1>1, <1>2, <1>3 DEF RecTypeOK
  <2>2. net' \in [Request -> {"unused", "sent", "answered", "shown", "blank",
                              "finished"}]
          /\ pending' \in [Request -> Chain \cup {Nothing}]
    BY DEF ResponseReceived, RecTypeOK
  <2> QED
    BY <2>1, <2>2 DEF ResponseReceived, RecTypeOK
<1>5. CountInv' /\ OwnerInv'
  BY DEF ResponseReceived, CountInv, OwnerInv, RecTypeOK
<1>6. Told(Request)' = Told(Request) \cup {k}
  <2>1. ASSUME NEW j \in Key
        PROVE  j \in Told(Request)' <=> j \in Told(Request) \/ j = k
    <3>1. j[1] \in Request /\ j[2] \in Chain /\ j = <<j[1], j[2]>>
      BY <2>1, Keys
    <3>2. \A q \in Request : Answered(q)' <=> Answered(q) \/ q = r
      BY DEF Answered, ResponseReceived, RecTypeOK
    <3>3. j = Final(j[1]) /\ j[1] = r <=> j = k
      BY <1>1
    <3>4. hop' = hop
      BY DEF ResponseReceived
    <3> QED
      BY <3>1, <3>2, <3>3, <3>4 DEF Told
  <2>2. Told(Request)' \subseteq Key /\ Told(Request) \subseteq Key
    BY DEF Told, Key
  <2> QED
    BY <1>1, <2>1, <2>2
<1>7. StoredInv' /\ KeptInv' /\ Pruned'
  BY <1>1, <1>2, <1>3, <1>6, Adds DEF ResponseReceived
<1>8. CarriesItsRequest'
  <2> SUFFICES ASSUME NEW j \in stored'
               PROVE  carries'[j] = (IF j = Final(j[1]) THEN hop[j[1]]
                                     ELSE j[2])
    BY DEF CarriesItsRequest, ResponseReceived
  <2>1. CASE j = k /\ registered
    BY <1>1, <1>2, <2>1 DEF RecTypeOK
  <2>2. CASE j # k \/ ~registered
    <3>1. j \in stored /\ j \in Key
      BY <1>1, <1>2, <1>3, <2>2 DEF RecTypeOK
    <3>2. carries'[j] = carries[j]
      BY <1>1, <1>2, <1>3, <2>2, <3>1 DEF RecTypeOK
    <3> QED
      BY <3>1, <3>2 DEF CarriesItsRequest
  <2> QED
    BY <2>1, <2>2
<1>9. CaptureInv'
  BY DEF ResponseReceived, CaptureInv, BuffersAsTold, RecTypeOK, Key
<1> QED
  BY <1>4, <1>5, <1>7, <1>8, <1>9

\* The end of an answer: nothing new is told, and a capture may begin.
LEMMA FinishedInv ==
  ASSUME IInv, NEW r \in Request, LoadingFinished(r) PROVE IInv'
<1> USE DEF IInv
<1>1. RecTypeOK'
  BY DEF LoadingFinished, RecTypeOK
<1>2. CountInv' /\ OwnerInv'
  BY DEF LoadingFinished, CountInv, OwnerInv, RecTypeOK
<1>3. \A q \in Request : Answered(q)' <=> Answered(q)
  BY DEF LoadingFinished, Answered, RecTypeOK
<1>4. Told(Request)' = Told(Request)
  BY <1>3 DEF Told, LoadingFinished
<1>5. StoredInv' /\ KeptInv' /\ Pruned' /\ CarriesItsRequest'
  BY <1>4 DEF LoadingFinished, StoredInv, KeptInv, Pruned, CarriesItsRequest
<1>6. CaptureInv'
  BY DEF LoadingFinished, CaptureInv, BuffersAsTold, Buffers, mode_for,
     RecTypeOK, Key
<1> QED
  BY <1>1, <1>2, <1>5, <1>6

\* The capture task: only bodies change.
LEMMA CaptureStepInv ==
  ASSUME IInv, NEW r \in Request, CaptureStep(r) PROVE IInv'
<1> USE DEF IInv
<1>1. UNCHANGED <<chromium, mode, registered, attached, loader, pending, hops,
                  stored, carries, fresh>>
  BY DEF CaptureStep, CaptureStarts, CaptureAnswered, CaptureStores
<1>2. Told(Request)' = Told(Request)
  BY <1>1 DEF Told, Answered, chromium
<1>3. RecTypeOK'
  <2>1. capture' \in [Request -> {"none", "queued", "asking", "got"}]
    BY DEF CaptureStep, CaptureStarts, CaptureAnswered, CaptureStores, RecTypeOK
  <2>2. body' \subseteq Key
    BY Keys DEF CaptureStep, CaptureStarts, CaptureAnswered, CaptureStores,
       StoreBody, RecTypeOK
  <2> QED
    BY <1>1, <2>1, <2>2 DEF RecTypeOK, chromium
<1>4. CountInv' /\ OwnerInv'
  BY <1>1 DEF CountInv, OwnerInv, chromium
<1>5. StoredInv' /\ KeptInv' /\ Pruned' /\ CarriesItsRequest'
  BY <1>1, <1>2 DEF StoredInv, KeptInv, Pruned, CarriesItsRequest, chromium
<1>6. CaptureInv'
  <2>1. \A q \in Request : capture'[q] # "none" => capture[q] # "none"
    BY DEF CaptureStep, CaptureStarts, CaptureAnswered, CaptureStores,
       RecTypeOK
  <2>2. body' \subseteq body \cup {Final(r)}
          /\ (body' # body => capture[r] # "none")
    BY DEF CaptureStep, CaptureStarts, CaptureAnswered, CaptureStores,
       StoreBody
  <2>3. Final(r) = <<r, MaxHops>>
    BY DEF Final
  <2> QED
    BY <1>1, <2>1, <2>2, <2>3 DEF CaptureInv, BuffersAsTold, chromium
<1> QED
  BY <1>3, <1>4, <1>5, <1>6

\* A navigation: what goes belongs to neither the new page nor a worker.
LEMMA NavigatedInv ==
  ASSUME IInv, NEW d \in Request, FrameNavigated(d) PROVE IInv'
<1> USE DEF IInv
<1>1. d \in Doc /\ d # NoLoader /\ net[d] \in {"answered", "unused"}
  BY DEF FrameNavigated, RecorderAssumption
<1>2. stored' \subseteq stored
  BY DEF FrameNavigated
<1>3. \A q \in Request : Answered(q)' <=> Answered(q)
  BY DEF FrameNavigated, Answered, RecTypeOK
<1>4. Told(Request)' = Told(Request)
  BY <1>3 DEF Told, FrameNavigated
<1>5. RecTypeOK'
  BY <1>1, <1>2 DEF FrameNavigated, RecTypeOK, Loader
<1>6. CountInv'
  BY DEF FrameNavigated, CountInv, RecTypeOK
<1>7. OwnerInv'
  BY <1>1 DEF FrameNavigated, OwnerInv, RecTypeOK
<1>8. StoredInv'
  BY <1>2, <1>4 DEF StoredInv
<1>9. KeptInv'
  <2> SUFFICES ASSUME registered,
                      NEW k \in Told(Request),
                      mode = "copy_and_retain" \/ owner[k[1]] \in {d, NoLoader}
               PROVE  k \in stored'
    BY <1>4 DEF KeptInv, FrameNavigated
  <2>1. k[1] \in Request
    BY DEF Told
  <2>2. owner[k[1]] = d => going = d
    BY <1>1, <2>1 DEF OwnerInv, FrameNavigated, Goes
  <2>3. k \in stored
    BY <2>2 DEF KeptInv
  <2>4. mode = "copy_and_retain" => ~Prunes
    BY DEF Prunes, mode_for, CountInv
  <2> QED
    BY <2>3, <2>4 DEF FrameNavigated, Stale
<1>10. Pruned'
  BY DEF Pruned, FrameNavigated, Prunes, mode_for, CountInv, Stale
<1>11. CarriesItsRequest'
  BY <1>2 DEF CarriesItsRequest, FrameNavigated
<1>12. CaptureInv'
  BY <1>1 DEF FrameNavigated, CaptureInv, BuffersAsTold, RecTypeOK, Key
<1> QED
  BY <1>5, <1>6, <1>7, <1>8, <1>9, <1>10, <1>11, <1>12

\* The end of the tab.
LEMMA GoneInv == ASSUME IInv, RegistryRemove \/ DetachTab PROVE IInv'
<1> USE DEF IInv
<1>1. UNCHANGED <<chromium, mode, pending, hops, stored, carries, body,
                  capture, fresh>>
  BY DEF RegistryRemove, DetachTab
<1>2. loader' \in Loader
  BY DEF RegistryRemove, DetachTab, RecTypeOK, Loader
<1>3. registered' = FALSE
  <2>1. CASE RegistryRemove
    BY <2>1 DEF RegistryRemove
  <2>2. CASE DetachTab
    <3>1. ~registered /\ registered' = registered
      BY <2>2 DEF DetachTab
    <3>2. registered \in BOOLEAN
      BY DEF RecTypeOK
    <3> QED
      BY <3>1, <3>2, Zenon
  <2> QED
    BY <2>1, <2>2
<1>4. attached' \in BOOLEAN
  <2>1. CASE RegistryRemove
    BY <2>1, Zenon DEF RegistryRemove, RecTypeOK
  <2>2. CASE DetachTab
    BY <2>2, Zenon DEF DetachTab
  <2> QED
    BY <2>1, <2>2
<1>5. RecTypeOK'
  <2>1. registered' \in BOOLEAN
    BY <1>3, Zenon
  <2> QED
    BY <1>1, <1>2, <1>4, <2>1, Zenon DEF RecTypeOK, chromium
<1>6. CountInv' /\ KeptInv' /\ Pruned'
  BY <1>3 DEF CountInv, KeptInv, Pruned
<1>7. OwnerInv' /\ CarriesItsRequest' /\ CaptureInv'
  BY <1>1 DEF OwnerInv, CarriesItsRequest, CaptureInv, BuffersAsTold, chromium
<1>8. StoredInv'
  BY <1>1 DEF StoredInv, Told, Answered, chromium
<1> QED
  BY <1>5, <1>6, <1>7, <1>8

\* A stuttering step.
LEMMA StutterInv == ASSUME IInv, UNCHANGED recVars PROVE IInv'
  BY DEF IInv, recVars, chromium, RecTypeOK, CountInv, OwnerInv, StoredInv,
     KeptInv, Pruned, CarriesItsRequest, CaptureInv, BuffersAsTold, Told,
     Answered

\* Every step keeps the invariant.
LEMMA NextInv == IInv /\ [RecNext]_recVars => IInv'
<1> SUFFICES ASSUME IInv, [RecNext]_recVars PROVE IInv'
  OBVIOUS
<1>1. ASSUME NEW r \in Request, CdpEvent(r) PROVE IInv'
  BY <1>1, SentInv, RedirectedInv, ResponseInv, FinishedInv, NavigatedInv
     DEF CdpEvent
<1>2. ASSUME NEW r \in Request, CaptureStep(r) PROVE IInv'
  BY <1>2, CaptureStepInv
<1>3. CASE RegistryRemove \/ DetachTab
  BY <1>3, GoneInv
<1>4. CASE UNCHANGED recVars
  BY <1>4, StutterInv
<1> QED
  BY <1>1, <1>2, <1>3, <1>4 DEF RecNext

\* The invariant holds in every state of every execution.
THEOREM Invariance == RecSpec => []IInv
  BY InitInv, NextInv, PTL DEF RecSpec

\* The values of the variables.
THEOREM TypeCorrect == RecSpec => []RecTypeOK
<1>1. IInv => RecTypeOK
  BY DEF IInv
<1> QED
  BY <1>1, Invariance, PTL

\* No answer or redirect of the current page, of its workers or, in retain
\* mode, of any page is lost while the tab is registered: frameNavigated
\* spares what came before the page was shown.
THEOREM NothingLost == RecSpec => []PageRecorded
<1>1. ASSUME IInv PROVE PageRecorded
  <2> SUFFICES ASSUME registered, NEW k \in Told(Current) PROVE k \in stored
    BY DEF PageRecorded
  <2>1. k \in Told(Request)
    BY DEF Told, Current
  <2>2. mode = "copy_and_retain" \/ owner[k[1]] \in {page, NoLoader}
    BY DEF Told, Current
  <2> QED
    BY <1>1, <2>1, <2>2 DEF IInv, KeptInv
<1> QED
  BY <1>1, Invariance, PTL

\* A navigation leaves nothing of the pages before it.
THEOREM OnlyThisPage == RecSpec => []Pruned
<1>1. IInv => Pruned
  BY DEF IInv
<1> QED
  BY <1>1, Invariance, PTL

\* Through any chain of redirects, an entry carries the request that drew it.
THEOREM OwnRequest == RecSpec => []CarriesItsRequest
<1>1. IInv => CarriesItsRequest
  BY DEF IInv
<1> QED
  BY <1>1, Invariance, PTL

\* Bodies are buffered in the copy modes only, and of finished answers only.
THEOREM BodiesAsTold == RecSpec => []BuffersAsTold
<1>1. IInv => BuffersAsTold
  BY DEF IInv, CaptureInv
<1> QED
  BY <1>1, Invariance, PTL

\* A body that was fetched over a navigation is not put into a pruned entry.
THEOREM DroppedAfterPrune == RecSpec => NoBodyAfterPrune
<1>1. [RecNext]_recVars => [body' \ body \subseteq stored]_recVars
  <2> SUFFICES ASSUME RecNext PROVE body' \ body \subseteq stored
    OBVIOUS
  <2>1. ASSUME NEW r \in Request, CdpEvent(r) PROVE body' = body
    BY <2>1 DEF CdpEvent, RequestSent, Redirected, ResponseReceived,
       LoadingFinished, FrameNavigated
  <2>2. ASSUME NEW r \in Request, CaptureStep(r)
        PROVE  body' \ body \subseteq stored
    BY <2>2 DEF CaptureStep, CaptureStarts, CaptureAnswered, CaptureStores,
       StoreBody
  <2>3. CASE RegistryRemove \/ DetachTab
    BY <2>3 DEF RegistryRemove, DetachTab
  <2> QED
    BY <2>1, <2>2, <2>3 DEF RecNext
<1> QED
  BY <1>1, PTL DEF RecSpec, NoBodyAfterPrune

=============================================================================
