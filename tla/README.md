# TLA+ models of passe-partout

passe-partout is a FastAPI service (`src/src/passe_partout/`) that drives one
Chromium through nodriver: HTTP requests open tabs, navigate them, read them,
record their traffic and downloads, and close them. It runs on one asyncio event
loop. There are no threads to speak of; what is hard is that every `await` lets
another request, the idle sweeper, a timer or a CDP event handler run, that
Chromium may fail at any of them, and that the state those coroutines share
(`BrowserPool`, `TabRegistry`, each `TabRecord`, the download coordinator, the
resource recorder) is guarded by locks only in places.

Paths below are relative to `src/src/passe_partout/`.

## Inventory

| Component | State | Operations | Interacts with | Hard behaviour |
|---|---|---|---|---|
| Browser pool (`browser_pool.py`) | `_browser`, `_active`, `_lock`, `_idle_task` | `start`, `create_context`, `close_context`, `stop_if_idle`, `_idle_shutdown`, `stop` | every handler that opens or closes a tab | the lock is held across `uc.start`; the count is read by three deciders; timers are cancelled and replaced |
| Tab registry (`tab_registry.py`) | `_records`, `_next_id`, `_mu`, `last_used_at` | `register`, `get`, `remove`, `touch`, `count`, `idle_ids` | handlers, sweeper, download and resource handlers | check and act separated by awaits; a snapshot iterated over awaits |
| Tab lifecycle handlers (`app.py`) | the local state of each coroutine | POST /tabs, POST /fetch, DELETE /tabs/{id}, DELETE /browser, sweeper, lifespan | pool, registry, coordinator, recorder | error paths at every await; several owners of one tab |
| Navigation (`app.py` goto, `nav_capture.py`) | `NavCapture.status/url/mime_type/_ready`, `rec.lock` | `reset`, `_on_response`, `wait`, `_wait_for_first_download` | downloads, CDP events | answers of one navigation read after the next has begun |
| Page operations (`app.py` click, type, eval, html, cookies, behaviors) | `rec.lock` | one request each | the tab | serialised by `rec.lock`, touched only at the start |
| Network idle (`app.py` wait) | in-flight counter, `last_activity` | handlers added per request | CDP events | events of requests that began before; redirects |
| Downloads (`downloads.py`, routes in `app.py`) | `TabRecord.downloads`, `_tab_lookup`, `_pending_content_type`, directories | attach/detach, will-begin, progress, cancel, delete, serve | registry, Chromium, file system | events routed by guid, late events, cancel racing completion |
| Resource recorder (`resources.py`) | `TabRecord.resources`, `_current_loader`, `_mode`, pending requests | CDP request/response/finished/frameNavigated, body capture | registry, WARC export | bodies fetched asynchronously, eviction by navigation |
| WARC export (`warc.py`, `get_warc`) | none of its own | selection by loader, record building | recorder | loader read before the lock is held |
| CSSOM folding (`cssom.py`) | none; works on the page | extract, plan, splice | serialised DOM | structure matched between two moments of the page |
| Serialisation (`rendered.py`, `domsnapshot.py`, `isolated.py`) | none | DOM to HTML | cssom | pure, large |
| Behaviors (`behaviors.py`) | catalogue | load traces, play | page operations | timing of input events |
| Configuration, API models, entry point (`config.py`, `models.py`, `__main__.py`) | none | parse the environment, validate bodies | all | pure |

What makes each correct:

* pool: Chromium runs while any context needs it, is stopped some time after the
  last one is gone, and a stop decided on a count never hits a live context;
* registry and lifecycle: a tab is always reachable by somebody who will close
  it, is closed once, and leaves no directory or recorder state; the cap and the
  idle rule hold; every request is answered;
* navigation: a reply speaks of the navigation its request made;
* downloads: a download belongs to the tab and the navigation that began it, its
  state only goes forward, and its file does not outlive the tab;
* recorder and export: the entries kept are those of the current page (or all, in
  retain mode), a body is attached to the entry it was fetched for, an archive
  holds the page that was asked for;
* CSSOM: a rule list is put into the element it was taken from.

## Modules

| Module | Models | State | Actions |
|---|---|---|---|
| `BrowserLease` | what the pool promises | `up`, `users`, `over` | acquire, leave, take down, finish |
| `BrowserPool` | `browser_pool.py` | the attributes of `BrowserPool` under their names (`running` is `_browser is not None`); `task`: the idle tasks; `call`, `arg`: where each coroutine stands in its pool call; `ctx`: the contexts as Chromium has them | one per stretch of code between two awaits |
| `TabLifecycle` | the handlers of `app.py` that create, close and sweep tabs, and `TabRegistry` | `pc` per handler, `registry`, `older` (the order of the dict), `expired`, `dirs`, `modes`, `sweepList` | one per stretch between two awaits, for each of create, fetch, delete, reset and the sweeper |
| `ResourceRecorder` | `resources.py` for one tab | the recorder's dictionaries under short names; `stored`: the keys of `rec.resources`; `capture`: the body task of each request; `net`, `hop`, `owner`, `page`, `going`: Chromium | one per CDP event with its handler, one per stretch of a body task, the two ends of a tab |
| `WarcExport` | `get_warc` with `build_warc`, `get_resource_body`, and any other handler that holds `rec.lock` | the local variables of each handler (`current`, `retain`, `todo`, `overrides`, `mainDoc`, `meta`), `lock`, `reply` | one per stretch between two awaits |
| `Downloads` | `downloads.py`, cancel and delete in `app.py` | `shared` (the profile, set at the start), `records`, `state`, `content_type`, `_tab_lookup`, `_pending_content_type`; `chrome`, `by`, `file`: Chromium and the disk; `begun`, `ended`: what each tab was told | one per event with its handler, per step of a tab's end, per stretch of a request |
| `TabNavigation` | goto, `create_tab` from its registration to its reply, `nav_capture.py`, `_wait_for_first_download` | `NavCapture`'s `status` and `url` (`_ready` is set exactly if `status` is not None); `rec.downloads`, `lock`; `at`, `baseline` (`pre_existing`), `seen`: the local state of a request; `asked`, `answered`: Chromium; `told`, `before`, `early`: histories the properties read | one per stretch between two awaits, one per Document response and per download |
| `NetworkIdle` | POST /wait from the lock on | `inflight`, `last_zero_at`, a clock in polls of 50 ms, where the two coroutines of `gather` stand, the reply; `net`, `hops`: Chromium; `old`, `lastBusy`: histories | one per CDP event with its handler, one per look of the loop, the ends of the request |
| `CssomFold` | `fold_cssom`, `EXTRACT_JS`, `apply_css_plan` | `dom`: the page; `html`: the serialised one; `attempt`, `max_attempts`, `into`: where the sheets were spliced; `fallback` | serialise, extract and apply, retry, give up, and any change of the page in between |
| `BrowserPoolProofs`, `TabLifecycleProofs`, `ResourceRecorderProofs`, `WarcExportProofs`, `DownloadsProofs`, `TabNavigationProofs`, `NetworkIdleProofs`, `CssomFoldProofs` | theorems | | |
| `MCTabLifecycle`, `MCWarcExport`, `MCDownloads` | symmetry for TLC, and what a run of both download profiles uses | | |

`TabLifecycle` extends `BrowserPool`: its handlers make the pool's calls
(`CallCreate`, `CallClose`, `CallStopIfIdle`), the pool's own steps
(`CallStep`, `TimerStep`) run in between, and the handlers act on the result.
In `BrowserPool` alone any caller may make any call, and a context is closed once.
`WarcExport` extends `ResourceRecorder` in the same way: recorder steps and
requests interleave, and the end of a tab is the recorder's. The other modules
stand alone: what they share with the rest is `rec.lock` and the registration of
the tab, which each of them has.

How code becomes actions. A coroutine gives way only at an `await`, so the code
between two awaits is one action, its conditions are guards and its early returns
are alternatives. A critical section without an await in it (all of the pool's
but the one that starts Chromium) is one action guarded by `lock = NoCaller`;
`CreateCold` takes the lock and `StartOk`, `StartRaises` or `Settled` gives it
back. `asyncio.Lock` is first come first served; the models let any waiter go
next, which allows more, and liveness assumes strong fairness instead. A cancelled
task is dead at once: it sits in a `sleep` or in the acquisition of the lock, and
both end it. A stop makes every context that is held "lost".

`rec.lock` is never waited for when it is free and nobody queues: then no `await`
gives way between the code before `async with rec.lock` and the code after it. In
`WarcExport`, `Downloads` and `TabNavigation` the token `running` says so: a handler
that found the lock free goes on before anything else. Without it the models would
show races that only a contended lock makes possible.

CDP events. Handlers of the recorder, of downloads, of `NavCapture` and of the idle
wait do not await before their last assignment, so an event and its handler are one
action; events of one tab arrive in the order Chromium sent them. The body tasks are
separate: queued, asking Chromium, holding its answer.

Responses and downloads have names, not contents. In `TabNavigation` a Document
response is named by the request whose `Page.navigate` it answers, or by the iframe
it is of, so that a reply shows whose status, content type and URL it carries. In
`CssomFold` a sheet is named by the place it belongs in: its `<style>`, the shadow
root that adopted it, or the document. The two reads of the page, `getOuterHTML`
and the walk of `EXTRACT_JS`, are two readers of one document that differ in the
shadow roots they see; paths, keys and signatures are computed for each.

Time, in `NetworkIdle`, is what the idle loop sees of it: it looks once in every
tick, 0.5 s are `Quiet` ticks, `timeout_s` is `Timeout` ticks, and CDP events come
before or after a look. An answer to `Network.enable` may take any number of ticks.

Names ending in a suffix after an underscore (`Dec_Twice`, `Undo_NoClose`, ...)
are faulty variants of the definition they precede. No specification uses them;
each shows that a property tells the fault from the code.

## Runs

| Run | Question | Instance | Result |
|---|---|---|---|
| `pool` | Does the count cover the contexts, is the timer armed and owned, does no stop hit a context, is the lease implemented, is an idle Chromium shut down, does every call end? | 3 callers, 2 idle tasks, settle on, at most 1 leaked count, fair | holds |
| `tabs_safe` | Is every tab reachable, is every residue owned, how is the count lost? | 2 clients and the sweeper, all requests | holds |
| `tabs_live` | Is every request answered, does an idle tab go, and, with the idle shutdown off, does Chromium stay up? | 2 clients, create and fetch, fair | holds |
| `recorder` | Is what is kept that of the page, with its own requests and bodies? | 2 documents, 1 resource, 2 redirects each, all modes | holds |
| `warc` | Is an archive complete, are its references sound, is a buffered body served? | 2 documents, 2 readers, all modes | holds |
| `downloads_safe` | Do ends last, deletions hold, is nothing left of a tab, is a content type given once? | 1 isolated tab with 2 downloads, and 2 tabs of a shared profile with 1; 2 clients | holds |
| `nav_safe` | Does a reply speak of its own navigation, and of a download that is new? | the creator, 2 gotos, 1 iframe, 1 download | holds |
| `idle` | Is an idle network quiet, and has a timeout a reason? | 3 requests, 1 redirect each, quiet for 2 polls, timeout 5 | holds |
| `css` | Do rules go into the style they came from, and is a page that stood still folded? | 2 styles, 2 hosts (1 closed), pages of up to 3 elements, 0 or 2 attempts | holds |
| `tabs_lost` | Does a registered tab keep its Chromium? | 2 clients and the sweeper | violated: context closed twice |
| `idle_redirect` | Is a quiet network found idle in time? | as `idle` | violated: a redirect is counted twice |
| `css_adopted` | Does an adopted sheet go to its own host? | as `css`, no closed root | violated: the signature covers styles only |

Bounds. Two clients and the sweeper give three coroutines on up to two tabs: two
closers of one tab while another is open, a sweep of two tabs with one failing
(`tabs_live`), a create waiting on a lock held by another's cold start (`tabs_safe`,
and `pool` for its end). Three callers of the pool
add a third context, and one waiter more. Two idle tasks are the current one and
its replacement; a dead one is used again. `MaxLeaked` caps the contexts counted
in `_active` that failed to open, the only unbounded counter. `Methods` limits the
requests of an instance where the liveness graph would not fit. Tab names are
used again once nothing refers to them, so executions are unbounded in length.

For the recorder, two documents are a page and its successor in either order, with
overlapping navigations; one resource belongs to the page being left, to its
worker or to the page to come; two redirects let hop keys collide if they could
(`MaxHops`). Request ids are used once, so executions end when all are spent:
`CHECK_DEADLOCK FALSE` in the runs of one tab's life. Two readers are one that
waits and one that holds the lock. For downloads, two guids on one tab are what
the shared slot and the routing can confuse, and two clients let a delete meet a
cancel; tabs of isolated mode share nothing, so one is enough. In shared mode the
case that matters is one download that two tabs hear of: either may be the one that
began it, either may end first, and each client may delete the record of its own
tab while the other tab has one too. The profile is chosen at the start, so that one
run checks both; the constraint `Small` of `MCDownloads` keeps each to its instance. `warc` has no
redirects and no workers, whose entries `recorder` covers.

Two gotos and the creator are three navigations of one tab: one that polls, one
that holds the lock and one that waits for it, and every answer may be late enough
to meet the next. The iframe is the response that belongs to no request
(`MaxDownloads` = 1: what matters of downloads is whether there was one before).
For the idle wait, three requests are one that was open before, one that hides
behind the count it took off, and one that keeps the wait busy; two ticks of quiet
tell "for the quiet time" from "now", and five leave room for the quiet time to be
broken and begin again. For the folding, three elements are a style inside a host
beside another style, or two hosts beside one; `root` adopts a sheet, one host
does, one style has rules that cannot be read. The code's default of three attempts
differs from two only in one more round of the same loop; zero is the caller that
asks for the fallback at once.

Assumed of Chromium: a document's request id is its loader id; a navigation that
another replaces gets no further (no answer, no commit), so that one navigation of
a frame is under way at a time; a body can be read once the answer has finished,
and may be refused at any time; `Browser.cancelDownload` of an ended download
changes nothing; with the download behaviour set without a context, all tabs hear
of all downloads; the end of a browser context ends its downloads, and a tab that
has no context of its own (shared mode) ends none. Loaders of
iframes are not enumerated in the recorder: their entries go as a past page's do.
`TabNavigation` is weaker: answers of all navigations that were asked for may come,
in any order, each once, and iframes answer once some page has. In `NetworkIdle` a
redirect announces the request again under the same id, and one `loadingFinished`
or `loadingFailed` ends it. In `CssomFold`, `getOuterHTML` shows every shadow root
as a `<template>` and the walk enters open ones only.

Fairness. `CallFairness`: a caller inside the pool goes on (Chromium answers or
raises; the lock is fair, hence strong fairness, since it may be taken and freed
in between). `TimerFairness`: a sleeping timer fires and then gets the lock. In
`TabLifecycle` the event loop runs every handler that can go on, and the sweeper
wakes up, hence weak fairness on each. Clients need not send anything, and a tab
need not expire.

The other modules are checked for safety only: whether a request ends there
depends on one answer of Chromium per await, or on a clock.

What the violations say of the code is in `PROJECT.json` under `findings`. The
invariant `CountedUnlessTwice` of `tabs_safe` says that the double close is the
only way to lose count, and `OnlyOwnerClosesTwice` that only fetch and the error
path of `create_tab` do it. `TimeoutIsBusy` of `idle` says in the same way that a
redirect is the only way to wait in vain, and `StylesInPlace` of `css` that of all
sheets only the adopted ones go astray while the styles stand as they were.

## Known gaps

Behaviour of the code that was met while modelling and that no run states; the
positive property next to it says what does hold.

* `create_context` counts a context before it is opened (`browser_pool.py:95`), and
  nothing takes the count back when opening raises: `stop_if_idle` then refuses and
  the idle shutdown never comes. `LeaksOnlyByRaise`: nothing else leaks.
* The cap is checked under the registry's lock and the tab registered several awaits
  later (`app.py:283-295`): concurrent requests may exceed what the design calls a
  hard cap.
* The sweep goes on from a list of ids taken before its awaits (`app.py:93`): a tab
  that was used meanwhile is closed. `IdleTabGoes`: an idle one always goes.
* `get_warc` reads the loader before it waits for `rec.lock` (`app.py:510`): an export
  queued behind a navigation archives the page of before, which by then has been
  pruned. `ArchiveComplete` holds of a tab that did not navigate from the request on,
  or retains.
* `get_warc` fetches bodies for the entries there are when its loop begins
  (`app.py:522`) and archives those there are when it ends: a late one ships truncated.
* After a redirect the conversion record refers to the hop, the first document entry
  of the loader (`app.py:543`), not to the answer. `NeverDangles`: it refers to an
  entry of the archive.
* In retain mode a page that navigates while it is rendered (`app.py:553`) is linked
  to the document of before. `RendersItsDocument` holds in the other modes.
* A cancel checks the state before it waits for `rec.lock` (`app.py:671`): a download
  that ends meanwhile is answered 204 instead of 409. `EndIsFinal`: it stays ended.
* A tab has one slot for the content type of the response a download grows from
  (`downloads.py:174`): overlapping responses overwrite it, and a response that is
  no download leaves it for the next. `TypeGivenOnce`: no two downloads get one type.
* In shared mode the download behaviour is browser-wide (`downloads.py:233`), so each
  tab hears of, and makes a record of, every tab's downloads. The route of a download
  goes to the tab that heard of it last, so only that tab's record sees its progress
  (`downloads.py:110-113`): the record of another may say `in_progress` for ever, and
  the clean-up of the tab that has the route removes the file of the tab that began
  the download. The second part of `EndIsFinal` is therefore about isolated profiles,
  and so is the part of `NothingKept` about files. That a record which says how a
  download ended is right, `StaysDeleted` and the rest of `NothingKept` hold in both.
* A download of a shared profile that runs when its tab is closed goes on, and its
  file is written after the clean-up (`downloads.py:84-93`) and stays, though the
  repository's README (line 72) has the files in the shared directory removed when
  the tab closes. `NothingKept`: of a tab that is gone no route and no type is left.
* `NavCapture` takes any response of type Document (`nav_capture.py:36`), an iframe's
  too, though the reply's status is described as that of the main document. And a
  goto that gets `rec.lock` before `create_tab` has ended resets the capture under
  it. `FreshReply` says what is left: of a request that nobody else resets, status
  and URL were delivered since its own reset.
* The idle wait knows nothing of the requests that were open before it: when one of
  them ends it takes one off the count (never below zero), so the network may be
  found idle while a later request is open (`app.py:887`). `MissesNoMoreThanOld`: one
  for each. Its three handlers are never removed (`app.py:891`).
* The signature of `cssom.py` tells styles by their place and number: a page whose
  styles changed places, or where one was removed and another added, keeps it, and the
  rules go into the wrong ones. `StylesInPlace` asks that the styles be the same.
* The `<template>` of a closed shadow root is in the HTML but the walk does not count
  it: the styles that follow have other keys and the page falls to the fallback.
  `StillPageFolds` asks for a page without closed roots.
* When a later attempt of `fold_cssom` fails to serialise or to extract
  (`cssom.py:366,371-373`) the plan of an earlier one is dropped: the HTML is returned
  without its rules.

## Proofs

The theorems hold for every value of the constants that the named assumptions of the
modules admit (finite sets, a bound that is a number, None that is nothing else), and
for nothing more. Each is proved as an invariant
that is true initially, kept by every step (one proof step per action), and
stronger than the property; the invariants were checked by TLC first. An action
property follows from the invariant before the step.

`BrowserPoolProofs` proves, for every finite set of callers, every set of idle
tasks and every setting, that executions of `PoolSafe` satisfy `PoolTypeOK`,
`ActiveCoversHeld`, `LeaksOnlyByRaise`, `NoTabLost`, `TimersOwned` and
`IdleArmed`. The count is not inductive
by itself: lowering it by one is right only if exactly one held context goes with
it, so `IInv` adds that a context being closed is being closed by one caller
(`CloseInv`), that a creation finds its context absent before and present after
admission (`PhaseInv`), who holds the lock (`LockInv`), and that nothing runs after
the end (`HaltInv`). `HeldCard`, `AddCaller` and `RemoveCaller` turn each change of
`Held` into a change of its cardinality. `StopFindsNone` then says that a stop
finding the count at zero finds no context. The timer invariant is inductive
relative to `IInv`.

`PoolImplementsLease` is the refinement, `PoolSafe => Lease!LeaseSpec` with
`users <- Held`: admission acquires, a release or a failed opening leaves, both
stops take down. `UpUntilAsked` says that with the idle shutdown off Chromium goes
down only when somebody asks for it, in a `stop_if_idle` or in the final `stop`
(`StaysUp`); it rests on `NoTimer`, no idle task exists then, and on the invariant:
the timer's stop is the one step that could do it unasked.

`TabLifecycleProofs` proves all six properties of `tabs_safe`. `LInv` ties the two
halves of a handler's state together: `CallInv`, where `pc` stands says where its
pool call stands; `ArgInv`, which context it is closing; `SweeperInv`, what the sweep
may hold; `FreshInv`, nothing refers to a tab that is being created; `CtxInv`, a
closing context has a closer; `RegistryInv`, a registered tab is not closed and what
is being closed or given up is not registered; `UndoneInv`, what a
failed create has undone before it closes its context.
`OpenTabReachable` and `ResidueOwned` need all of them. `CountedUnlessTwice` is then
proved without a second look at the pool: while no context has been closed twice,
every step of the handlers is a step the pool allows or leaves it alone
(`StepOfThePool`), so the pool's own invariant is kept by the lemma that proved it.
`LeaseUntilTwice` says the same of the abstract specification: an execution of
`LifeSafe` in which no context is ever closed twice implements the lease, handlers
included. (Both kinds exist: run `tabs_lost` shows an execution with a double close, and a tab
that only DELETE closes is closed once.) `LifeUpUntilAsked` is `StaysUp` for the whole
lifecycle, and has no hypothesis: the double close does not touch it.

`ResourceRecorderProofs` proves, for every set of requests and documents, every
bound on redirects and every capture mode, that executions of `RecSpec` satisfy
all that run `recorder` checks. `IInv`
adds to the properties: `CountInv`, while the tab is registered the recorder
counts the redirects as Chromium does and the pending request is the last one
sent; `OwnerInv`, a request that was not sent belongs to nobody, and every owner is
a document Chromium has got to; `StoredInv`, what is stored was told; `KeptInv`,
what was told of the page, of the navigation in progress and of workers is stored,
in retain mode everything; `CaptureInv`, bodies are fetched only in the copy modes
and for finished answers. `PageRecorded` alone is not inductive: pruning is safe
because the answer of the navigation in progress was kept before its page became
the page, which is what `KeptInv` adds.

`WarcExportProofs` proves all that `warc` checks, and the type invariant. It keeps the
recorder's invariant (recorder steps are the recorder's own; requests leave it
alone) and adds `DocInv`, a document that is shown is told nothing more and the
recorder's loader is the page while the tab is registered; `ReaderTypes`; and
`ReaderInv`, what each handler has noted still holds of the recorder: `WarcInv` for
an export, by how far it has come, `BodyInv` for a body.
`ExportsImplementRecorder` is the composition as a refinement: seen through the
recorder's variables an execution of `ExportSafe` is one of `RecSpec`, so that the
recorder's theorems hold under its readers (`RecorderSafeUnderExports`).

`DownloadsProofs` proves what `downloads_safe` checks, for both profiles. `IInv` has
three parts that hold in either: `HearInv`, what a tab has heard has happened, and its
records say no more than that; `RouteInv`, a tab that is gone has no route and no
pending type; `DeleteInv`, how far a deletion has come: until its request has had the
download cancelled it may run, and until that has unlinked the file there may be one.
By `OnceInv` a pending type belongs to a download of the tab and no record has it. Two
parts hold of isolated profiles only: `OwnInv`, who hears of a download is who began
it, and its record and route are that tab's; `FileInv`, downloads end with the context
of their tab and their files go after that. The isolated halves of `EndIsFinal` and
`NothingKept` need them; nothing else does. A deletion holds in shared mode too: the
other tab's record of the download stays, but the file does not come back, because
the deleter waits for the cancellation and Chromium writes nothing after it.

`TabNavigationProofs` proves all that `nav_safe` checks. `CaptureInv`: status and URL
are of one response and the handler was added before; `CreatorInv`: what the place
of `create_tab` implies; `ToldInv`: what an undisturbed request will read was told
since its reset, and while it waits with no status it was told nothing; `BaselineInv`:
`pre_existing` is what was there when the request was made.

`NetworkIdleProofs` proves all that `idle` checks, for every quiet time, timeout and
number of requests. `CountInv`: the wait's own open requests are at most `inflight`
plus the old ones that ended, and without redirects `inflight` is at most the own
open ones; `ZeroInv`: how `last_zero_at` compares with the last moment a
request was open, and that the last look found the quiet time not yet over; `TaskInv` and `BeforeInv`: where the coroutines stand,
and that nothing is counted before the handlers are added.

`CssomFoldProofs` proves both properties of `css`, `StylesInPlace` and
`StillPageFolds`, for pages of any size and depth. The invariant is short: the page
and the serialised HTML are trees (`Tree`: every element in one place, none inside
itself), and the result was made of those two reads. The work is in what a tree
gives. `TreeInduction` and `TreeRecursion` do induction along the owner of an
element with sets in place of operators (a set of elements that has the root, and
with the owner of an element the element, is all of them); `PathOf` and `SeenOf`
unfold the recursive functions of the model with them. `PathsApart`: no two places
of a page have one path, since no two under one holder have one number;
`KeysApart`: so styles have keys of their own. `Listing`: the styles of a page have one
order by document position, whatever the walk. `TreeInsert` and `TreeDelete`:
changes of the page keep it a tree. `FoldStylesInPlace` then compares the two lists
of keys place by place, and `FoldStillPage` shows that on a page that stood still,
without closed roots, all keys agree and each sheet finds its own place.

Only model-checked: liveness (`IdleShutsDown`, `CallsEnd`, `RequestsAnswered`,
`IdleTabGoes`), since fairness and ENABLED are out of the prover's reach. Every
other property of a passing run is stated by a theorem.

## Not modelled, and why

* Chromium crashing by itself: the code never looks at the process.
* Cancellation of a handler by a client that hangs up: the framework runs
  handlers to their end.
* Authentication, `/healthz`, listing: they change nothing.
* The bytes of a WARC record, file names and byte counts of downloads: no decision
  reads them.
* What click, type, eval, cookies and screenshot do to a page: one command each under
  `rec.lock`, and no state of the service changes. `WarcExport` has them as handlers
  that hold the lock for a while.
* Byte offsets, the escaping of `</style>`, `<template>` content, and selectors of
  hosts in `cssom.py`: text, not control.
* Serialisation of the DOM (`rendered.py`, `domsnapshot.py`, `isolated.py`): long,
  sequential conversions of one answer.
* `behaviors.py`: a catalogue that is read once and played back.
* `models.py`, `config.py`, `__main__.py`: declarations and parsing. `tools/`: scripts
  for trying out Chromium, no part of the service.

## Plan

The suite is kept to a run for each question: the run of a new module takes the
place of one whose question is settled, or of a violation moved to "Known gaps".

1. (done) Pool and lifecycle, with the lease and their theorems.
2. (done) `ResourceRecorder`, and composed with it `WarcExport`, with their theorems.
3. (done) `Downloads` and its theorems.
4. (done) `TabNavigation` and its theorems.
5. (done) `NetworkIdle` and its theorems.
6. (done) `CssomFold` and its theorems.
7. (done) Shared mode in `Downloads`, checked and proved with two tabs or more.
8. `warc` with redirects; page operations in `TabLifecycle`, against the sweeper
   (`touch`).
9. `<template>` content in `CssomFold`; the records of `warc.py` as a pure function.
