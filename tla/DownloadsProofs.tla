--------------------------- MODULE DownloadsProofs ---------------------------
(***************************************************************************)
(* Every execution of the download coordinator, with any number of tabs,   *)
(* downloads and requests, keeps DownTypeOK, TypeGivenOnce, EndIsFinal,    *)
(* NothingKept and StaysDeleted, in isolated and shared mode.              *)
(***************************************************************************)
EXTENDS Downloads, TLAPS

USE DownloadAssumption

Place == {"idle", "toCancel", "cancelling", "toDelete", "stopping",
          "unlinking"}

\* The rest of the types, and whose lock a request may hold.
TypeInv ==
  /\ DownTypeOK
  /\ at \in [Client -> Place]
  /\ lock \in [Tab -> Client \cup {Nobody}]
  /\ deleted \subseteq Pair
  /\ \A t \in Tab, x \in Client : lock[t] = x => t = TabOf(x)

\* A content type that is pending was noted for a download of that tab, and
\* no record has it; no two records have the same.
OnceInv ==
  /\ \A t \in Tab, d \in Guid :
       pendingType[t] = d => by[d] = t /\ chrome[d] # "none"
  /\ \A p \in Pair, d \in Guid : content_type[p] = d => chrome[d] # "none"
  /\ \A t \in Tab, p \in Pair, d \in Guid :
       pendingType[t] = d => content_type[p] # d
  /\ \A p, q \in Pair, d \in Guid :
       content_type[p] = d /\ content_type[q] = d => p = q

\* What a tab has heard has happened, and its records say no more than that.
HearInv ==
  /\ records \cup ended \subseteq begun
  /\ \A t \in Tab, g \in Guid :
       /\ <<t, g>> \in begun => chrome[g] \in {"running"} \cup Terminal
       /\ <<t, g>> \in ended => chrome[g] \in Terminal
       /\ <<t, g>> \in records /\ state[<<t, g>>] \in Terminal
            => state[<<t, g>>] = chrome[g]

\* A tab that is gone has no route and no pending type.
RouteInv ==
  \A t \in Tab : phase[t] = "gone" =>
    pendingType[t] = Nobody /\ \A g \in Guid : lookup[g] # t

Works(x, t, g) == at[x] \in {"stopping", "unlinking"} /\ target[x] = <<t, g>>

\* What a tab has deleted has begun, and the tab has no record of it; until its
\* request has had it cancelled it may run, and until that has unlinked it it
\* may have a file.
DeleteInv ==
  \A t \in Tab, g \in Guid : <<t, g>> \in deleted =>
    /\ <<t, g>> \in begun \ records
    /\ \/ chrome[g] \in Terminal
       \/ \E x \in Client : at[x] = "stopping" /\ target[x] = <<t, g>>
    /\ g \in file => \E x \in Client : Works(x, t, g)

\* Isolated: who hears of a download is who began it, and its record and its
\* route are that tab's.
OwnInv ==
  \A t \in Tab, g \in Guid :
    /\ <<t, g>> \in begun => by[g] = t
    /\ lookup[g] = t => <<t, g>> \in begun
    /\ <<t, g>> \in records /\ Registered(t) => lookup[g] = t
    /\ <<t, g>> \in ended \cap records /\ Registered(t)
         => state[<<t, g>>] = chrome[g]

\* Isolated: the downloads of a tab end with its context, and then its files
\* go.
FileInv ==
  /\ \A g \in Guid : chrome[g] = "none" => by[g] = Nobody
  /\ \A t \in Tab, g \in Guid : by[g] = t =>
       /\ phase[t] \in {"closed", "cleaned", "gone"}
            => chrome[g] \in {"dropped"} \cup Terminal
       /\ phase[t] \in {"cleaned", "gone"} => g \notin file

BothInv == HearInv /\ RouteInv /\ DeleteInv
IsolatedInv == OwnInv /\ FileInv

IInv == TypeInv /\ OnceInv /\ BothInv /\ (~shared => IsolatedInv)

\* What there is to know of pairs, and of the states with one entry changed.
LEMMA Pairs ==
  /\ \A t \in Tab, g \in Guid : <<t, g>> \in Pair
  /\ \E p \in Pair : TRUE
  /\ \A p \in Pair : p[1] \in Tab /\ p[2] \in Guid /\ p = <<p[1], p[2]>>
<1>1. PICK t \in Tab, g \in Guid : TRUE
  OBVIOUS
<1>2. <<t, g>> \in Pair
  BY DEF Pair
<1> QED
  BY <1>2 DEF Pair

States == {"in_progress"} \cup Terminal

LEMMA StateSet ==
  ASSUME state \in [Pair -> States], NEW v \in States,
         NEW t \in Tab, NEW g \in Guid,
         state' = [state EXCEPT ![<<t, g>>] = v]
  PROVE  /\ state' \in [Pair -> States]
         /\ \A u \in Tab, h \in Guid :
              state'[<<u, h>>] = IF u = t /\ h = g THEN v ELSE state[<<u, h>>]
<1>1. <<t, g>> \in Pair
  BY Pairs
<1>2. state' \in [Pair -> States]
  BY <1>1
<1>3. ASSUME NEW u \in Tab, NEW h \in Guid
      PROVE  state'[<<u, h>>] = IF u = t /\ h = g THEN v ELSE state[<<u, h>>]
  <2>1. <<u, h>> \in Pair
    BY Pairs
  <2> QED
    BY <1>1, <2>1
<1> QED
  BY <1>2, <1>3

\* While no request that deletes moves, nothing comes back that was deleted.
LEMMA DeleteKept ==
  ASSUME DeleteInv, deleted' = deleted, begun \subseteq begun',
         \A x \in Client : at[x] \in {"stopping", "unlinking"} =>
           at'[x] = at[x] /\ target'[x] = target[x],
         \A t \in Tab, g \in Guid : <<t, g>> \in deleted =>
           /\ <<t, g>> \in records' => <<t, g>> \in records
           /\ chrome[g] \in Terminal => chrome'[g] \in Terminal
           /\ g \in file' => g \in file
  PROVE  DeleteInv'
<1> SUFFICES ASSUME NEW t \in Tab, NEW g \in Guid, <<t, g>> \in deleted'
             PROVE  /\ <<t, g>> \in begun' \ records'
                    /\ \/ chrome'[g] \in Terminal
                       \/ \E x \in Client :
                            at'[x] = "stopping" /\ target'[x] = <<t, g>>
                    /\ g \in file' => \E x \in Client : Works(x, t, g)'
  BY DEF DeleteInv
<1>1. /\ <<t, g>> \in begun \ records
      /\ \/ chrome[g] \in Terminal
         \/ \E x \in Client : at[x] = "stopping" /\ target[x] = <<t, g>>
      /\ g \in file => \E x \in Client : /\ at[x] \in {"stopping", "unlinking"}
                                        /\ target[x] = <<t, g>>
  BY DEF DeleteInv, Works
<1>2. <<t, g>> \in begun' \ records'
  BY <1>1
<1>3. \/ chrome'[g] \in Terminal
      \/ \E x \in Client : at'[x] = "stopping" /\ target'[x] = <<t, g>>
  <2>1. CASE chrome[g] \in Terminal
    BY <2>1
  <2>2. ASSUME NEW x \in Client, at[x] = "stopping", target[x] = <<t, g>>
        PROVE  at'[x] = "stopping" /\ target'[x] = <<t, g>>
    BY <2>2
  <2> QED
    BY <1>1, <2>1, <2>2
<1>4. ASSUME g \in file'
      PROVE  \E x \in Client : Works(x, t, g)'
  <2>1. PICK x \in Client : /\ at[x] \in {"stopping", "unlinking"}
                            /\ target[x] = <<t, g>>
    BY <1>1, <1>4
  <2>2. at'[x] = at[x] /\ target'[x] = target[x]
    BY <2>1
  <2> QED
    BY <2>1, <2>2 DEF Works
<1> QED
  BY <1>2, <1>3, <1>4

\* OwnInv is kept by a step that tells no tab anything, and registers none.
LEMMA OwnKept ==
  ASSUME OwnInv, UNCHANGED <<begun, ended, records, state, lookup>>,
         \A t \in Tab, g \in Guid :
           /\ <<t, g>> \in begun => by'[g] = by[g]
           /\ <<t, g>> \in ended => chrome'[g] = chrome[g],
         \A t \in Tab : Registered(t)' => Registered(t)
  PROVE  OwnInv'
<1> SUFFICES ASSUME NEW t \in Tab, NEW g \in Guid
             PROVE  /\ <<t, g>> \in begun => by'[g] = t
                    /\ lookup[g] = t => <<t, g>> \in begun
                    /\ <<t, g>> \in records /\ Registered(t)' => lookup[g] = t
                    /\ <<t, g>> \in ended \cap records /\ Registered(t)'
                         => state[<<t, g>>] = chrome'[g]
  BY DEF OwnInv
<1>1. /\ <<t, g>> \in begun => by[g] = t
      /\ lookup[g] = t => <<t, g>> \in begun
      /\ <<t, g>> \in records /\ Registered(t) => lookup[g] = t
      /\ <<t, g>> \in ended \cap records /\ Registered(t)
           => state[<<t, g>>] = chrome[g]
  BY DEF OwnInv
<1> QED
  BY <1>1

\* The initial states satisfy the invariant.
LEMMA InitInv == DownInit => IInv
<1> SUFFICES ASSUME DownInit PROVE IInv
  OBVIOUS
<1>1. TypeInv
  <2>1. (CHOOSE p \in Pair : TRUE) \in Pair
    BY Pairs, Zenon
  <2>2. target \in [Client -> Pair]
    BY <2>1 DEF DownInit
  <2>3. state \in [Pair -> {"in_progress"} \cup Terminal]
        /\ content_type \in [Pair -> Guid \cup {Nobody}]
    BY DEF DownInit
  <2> QED
    BY <2>2, <2>3, Pairs DEF DownInit, TypeInv, DownTypeOK, Place, TabOf
<1>2. OnceInv
  BY DEF DownInit, OnceInv
<1>3. BothInv
  BY DEF DownInit, BothInv, HearInv, RouteInv, DeleteInv
<1>4. IsolatedInv
  BY DEF DownInit, IsolatedInv, OwnInv, FileInv
<1> QED
  BY <1>1, <1>2, <1>3, <1>4 DEF IInv

\* An answer is paused, or a download offered without one.
LEMMA OfferInv ==
  ASSUME IInv, NEW t \in Tab, NEW g \in Guid, Paused(t, g) \/ Unpaused(t, g)
  PROVE  IInv'
<1>1. /\ chrome[g] = "none" /\ phase[t] \in {"open", "removed"}
      /\ chrome' = [chrome EXCEPT ![g] = "offered"]
      /\ by' = [by EXCEPT ![g] = t]
      /\ pendingType' \in {pendingType, [pendingType EXCEPT ![t] = g]}
      /\ UNCHANGED <<shared, file, begun, ended, phase, records, state,
                     content_type, lookup, lock, running, at, target,
                     deleted>>
  BY DEF Paused, Unpaused, delivery, handlers, kept
<1>2. TypeInv'
  <2>1. /\ pendingType' \in [Tab -> Guid \cup {Nobody}]
        /\ by' \in [Guid -> Tab \cup {Nobody}]
        /\ chrome' \in [Guid -> {"none", "offered", "dropped", "running",
                               "completed", "canceled"}]
    BY <1>1 DEF IInv, TypeInv, DownTypeOK
  <2>2. UNCHANGED <<shared, file, begun, ended, phase, records, state,
                    content_type, lookup, lock, running, at, target, deleted>>
    BY <1>1
  <2> QED
    BY <2>1, <2>2 DEF IInv, TypeInv, DownTypeOK, TabOf
<1>3. OnceInv'
  BY <1>1 DEF IInv, OnceInv, TypeInv, DownTypeOK
<1>4. chrome[g] \notin {"running"} \cup Terminal
      /\ \A h \in Guid : h # g => chrome'[h] = chrome[h]
  BY <1>1 DEF IInv, TypeInv, DownTypeOK, Terminal
<1>5. BothInv'
  <2>1. HearInv /\ RouteInv /\ DeleteInv
    BY DEF IInv, BothInv
  <2>2. \A u \in Tab : <<u, g>> \notin begun
    BY <1>4, <2>1 DEF HearInv
  <2>3. HearInv'
    BY <1>1, <1>4, <2>1, <2>2 DEF HearInv
  <2>4. RouteInv'
    BY <1>1, <2>1 DEF RouteInv, IInv, TypeInv, DownTypeOK
  <2>5. DeleteInv'
    <3>1. \A u \in Tab : <<u, g>> \notin deleted
      BY <2>1, <2>2 DEF DeleteInv
    <3>2. UNCHANGED <<begun, records, file, at, target, deleted>>
      BY <1>1
    <3> QED
      BY <1>4, <2>1, <3>1, <3>2, DeleteKept
  <2> QED
    BY <2>3, <2>4, <2>5 DEF BothInv
<1>6. ASSUME ~shared PROVE IsolatedInv'
  <2>1. OwnInv /\ FileInv
    BY <1>6 DEF IInv, IsolatedInv
  <2>2. HearInv
    BY DEF IInv, BothInv
  <2>3. OwnInv'
    <3>1. \A u \in Tab, h \in Guid : <<u, h>> \in begun \cup ended => h # g
      BY <1>4, <2>2 DEF HearInv
    <3>2. \A h \in Guid : h # g => by'[h] = by[h]
      BY <1>1 DEF IInv, TypeInv, DownTypeOK
    <3>3. UNCHANGED <<begun, ended, records, state, lookup, phase>>
      BY <1>1
    <3> QED
      BY <1>4, <2>1, <3>1, <3>2, <3>3, OwnKept DEF Registered
  <2>4. FileInv'
    BY <1>1, <2>1 DEF FileInv, IInv, TypeInv, DownTypeOK
  <2> QED
    BY <2>3, <2>4 DEF IsolatedInv
<1> QED
  BY <1>1, <1>2, <1>3, <1>5, <1>6 DEF IInv

\* Chromium begins, completes or ends a download.
LEMMA ChromeInv ==
  ASSUME IInv, NEW g \in Guid,
         Begins(g) \/ Withdrawn(g) \/ Completes(g) \/ Fails(g)
  PROVE  IInv'
<1>1. PICK from \in {"offered", "running"} :
        \E to \in {"dropped", "running", "completed", "canceled"} :
          /\ ChromeStep(g, from, to)
          /\ IF from = "offered" THEN to \in {"running", "dropped"}
             ELSE to \in Terminal
  BY DEF Begins, Withdrawn, Completes, Fails, Terminal
<1>2. PICK to \in {"dropped", "running", "completed", "canceled"} :
        /\ ChromeStep(g, from, to)
        /\ IF from = "offered" THEN to \in {"running", "dropped"}
           ELSE to \in Terminal
  BY <1>1
<1>3. /\ chrome[g] = from /\ chrome' = [chrome EXCEPT ![g] = to]
      /\ file' \in {file \cup {g}, file \ {g}}
      /\ UNCHANGED <<shared, by, begun, ended, phase, records, state,
                     content_type, lookup, pendingType, lock, running, at,
                     target, deleted>>
  BY <1>2 DEF ChromeStep, delivery, handlers, kept
<1>4. TypeInv'
  BY <1>2, <1>3 DEF IInv, TypeInv, DownTypeOK, TabOf, Terminal
<1>5. OnceInv'
  BY <1>2, <1>3 DEF IInv, OnceInv, TypeInv, DownTypeOK
<1>6. /\ \A h \in Guid : h # g => chrome'[h] = chrome[h] /\ (h \in file' <=> h \in file)
      /\ chrome'[g] = to /\ chrome[g] \notin Terminal
  BY <1>3 DEF IInv, TypeInv, DownTypeOK, Terminal
<1>7. BothInv'
  <2>1. HearInv /\ RouteInv /\ DeleteInv
    BY DEF IInv, BothInv
  <2>2. HearInv'
    BY <1>2, <1>3, <1>6, <2>1 DEF HearInv, Terminal
  <2>3. RouteInv'
    BY <1>3, <2>1 DEF RouteInv
  <2>4. DeleteInv'
    <3>1. UNCHANGED <<begun, records, at, target, deleted>>
      BY <1>3
    <3> SUFFICES ASSUME NEW u \in Tab, NEW h \in Guid, <<u, h>> \in deleted
                 PROVE  /\ <<u, h>> \in begun \ records
                        /\ \/ chrome'[h] \in Terminal
                           \/ \E x \in Client :
                                at[x] = "stopping" /\ target[x] = <<u, h>>
                        /\ h \in file' => \E x \in Client : Works(x, u, h)
      BY <3>1 DEF DeleteInv, Works
    <3>2. CASE h # g
      BY <1>6, <2>1, <3>2 DEF DeleteInv
    <3>3. CASE h = g
      <4>1. \E x \in Client : at[x] = "stopping" /\ target[x] = <<u, h>>
        BY <1>6, <2>1, <3>3 DEF DeleteInv
      <4>2. <<u, h>> \in begun \ records
        BY <2>1 DEF DeleteInv
      <4> QED
        BY <4>1, <4>2 DEF Works
    <3> QED
      BY <3>2, <3>3
  <2> QED
    BY <2>2, <2>3, <2>4 DEF BothInv
<1>8. ASSUME ~shared PROVE IsolatedInv'
  <2>1. OwnInv /\ FileInv
    BY <1>8 DEF IInv, IsolatedInv
  <2>2. HearInv
    BY DEF IInv, BothInv
  <2>3. OwnInv'
    <3>1. \A u \in Tab, h \in Guid : <<u, h>> \in ended => chrome'[h] = chrome[h]
      BY <1>6, <2>2 DEF HearInv
    <3>2. UNCHANGED <<by, begun, ended, records, state, lookup, phase>>
      BY <1>3
    <3> QED
      BY <2>1, <3>1, <3>2, OwnKept DEF Registered
  <2>4. FileInv'
    BY <1>2, <1>3, <2>1 DEF FileInv, IInv, TypeInv, DownTypeOK, Terminal
  <2> QED
    BY <2>3, <2>4 DEF IsolatedInv
<1> QED
  BY <1>3, <1>4, <1>5, <1>7, <1>8 DEF IInv

\* A tab hears that a download begins.
LEMMA WillBeginInv ==
  ASSUME IInv, NEW t \in Tab, NEW g \in Guid, WillBegin(t, g)
  PROVE  IInv'
<1>1. /\ chrome[g] \in {"running"} \cup Terminal /\ Hears(t, g)
      /\ <<t, g>> \notin begun /\ begun' = begun \cup {<<t, g>>}
      /\ UNCHANGED <<shared, chrome, by, file, ended, phase, lock, running,
                     at, target, deleted>>
  BY DEF WillBegin, chromium, handlers
<1>2. IF Registered(t)
      THEN /\ records' = records \cup {<<t, g>>}
           /\ state' = [state EXCEPT ![<<t, g>>] = "in_progress"]
           /\ content_type' = [content_type EXCEPT ![<<t, g>>] = pendingType[t]]
           /\ pendingType' = [pendingType EXCEPT ![t] = Nobody]
           /\ lookup' = [lookup EXCEPT ![g] = t]
      ELSE UNCHANGED <<records, state, content_type, lookup, pendingType>>
  BY DEF WillBegin, Heeds, PendingTaken, Route, kept
<1>3. <<t, g>> \in Pair
  BY Pairs
<1>4. TypeInv'
  <2>1. /\ state' \in [Pair -> {"in_progress"} \cup Terminal]
        /\ content_type' \in [Pair -> Guid \cup {Nobody}]
    <3>1. /\ state \in [Pair -> {"in_progress"} \cup Terminal]
          /\ content_type \in [Pair -> Guid \cup {Nobody}]
          /\ pendingType[t] \in Guid \cup {Nobody}
      BY DEF IInv, TypeInv, DownTypeOK
    <3>2. CASE Registered(t)
      BY <1>2, <3>1, <3>2
    <3>3. CASE ~Registered(t)
      BY <1>2, <3>1, <3>3
    <3> QED
      BY <3>2, <3>3
  <2>2. /\ lookup' \in [Guid -> Tab \cup {Nobody}]
        /\ pendingType' \in [Tab -> Guid \cup {Nobody}]
        /\ (begun \cup ended \cup records)' \subseteq Pair
    <3>1. /\ lookup \in [Guid -> Tab \cup {Nobody}]
          /\ pendingType \in [Tab -> Guid \cup {Nobody}]
          /\ begun \cup ended \cup records \subseteq Pair
      BY DEF IInv, TypeInv, DownTypeOK
    <3>2. begun' = begun \cup {<<t, g>>} /\ ended' = ended
      BY <1>1
    <3>3. CASE Registered(t)
      BY <1>2, <1>3, <3>1, <3>2, <3>3
    <3>4. CASE ~Registered(t)
      BY <1>2, <1>3, <3>1, <3>2, <3>4
    <3> QED
      BY <3>3, <3>4
  <2> QED
    BY <1>1, <2>1, <2>2 DEF IInv, TypeInv, DownTypeOK, TabOf
<1>5. OnceInv'
  <2>1. \A p \in Pair :
          content_type'[p] = IF Registered(t) /\ p = <<t, g>>
                             THEN pendingType[t] ELSE content_type[p]
    BY <1>2, <1>3 DEF IInv, TypeInv, DownTypeOK
  <2>2. \A u \in Tab :
          pendingType'[u] = IF Registered(t) /\ u = t
                            THEN Nobody ELSE pendingType[u]
    BY <1>2 DEF IInv, TypeInv, DownTypeOK
  <2> QED
    BY <1>1, <1>3, <2>1, <2>2 DEF IInv, OnceInv
<1>6. \A u \in Tab, h \in Guid :
        state'[<<u, h>>] = IF Registered(t) /\ <<u, h>> = <<t, g>>
                           THEN "in_progress" ELSE state[<<u, h>>]
  <2>1. state \in [Pair -> States] /\ "in_progress" \in States
    BY DEF IInv, TypeInv, DownTypeOK, States
  <2>2. CASE Registered(t)
    <3>1. state' = [state EXCEPT ![<<t, g>>] = "in_progress"]
      BY <1>2, <2>2
    <3>2. \A u \in Tab, h \in Guid :
            state'[<<u, h>>] = IF u = t /\ h = g THEN "in_progress"
                               ELSE state[<<u, h>>]
      BY <2>1, <3>1, StateSet
    <3> QED
      BY <2>2, <3>2
  <2> QED
    BY <1>2, <2>2
<1>7. /\ \A h \in Guid : lookup'[h] = IF Registered(t) /\ h = g
                                     THEN t ELSE lookup[h]
      /\ \A u \in Tab : pendingType'[u] = IF Registered(t) /\ u = t
                                           THEN Nobody ELSE pendingType[u]
      /\ \A u \in Tab, h \in Guid :
           <<u, h>> \in records' <=>
             <<u, h>> \in records \/ (Registered(t) /\ u = t /\ h = g)
  <2>1. lookup \in [Guid -> Tab \cup {Nobody}]
        /\ pendingType \in [Tab -> Guid \cup {Nobody}]
    BY DEF IInv, TypeInv, DownTypeOK
  <2>2. CASE Registered(t)
    <3>1. /\ records' = records \cup {<<t, g>>}
          /\ pendingType' = [pendingType EXCEPT ![t] = Nobody]
          /\ lookup' = [lookup EXCEPT ![g] = t]
      BY <1>2, <2>2
    <3>2. \A u \in Tab, h \in Guid :
            <<u, h>> \in records' <=> <<u, h>> \in records \/ (u = t /\ h = g)
      BY <3>1
    <3> QED
      BY <2>1, <2>2, <3>1, <3>2
  <2>3. CASE ~Registered(t)
    BY <1>2, <2>3
  <2> QED
    BY <2>2, <2>3
<1>8. BothInv'
  <2>1. HearInv /\ RouteInv /\ DeleteInv
    BY DEF IInv, BothInv
  <2>2. HearInv'
    <3>1. (records \cup ended)' \subseteq begun'
      BY <1>1, <1>2, <2>1 DEF HearInv
    <3> QED
      BY <1>1, <1>6, <1>7, <2>1, <3>1 DEF HearInv, Terminal
  <2>3. RouteInv'
    BY <1>1, <1>7, <2>1 DEF RouteInv, Registered
  <2>4. DeleteInv'
    <3>1. UNCHANGED <<chrome, file, at, target, deleted>> /\ begun \subseteq begun'
      BY <1>1
    <3>2. \A u \in Tab, h \in Guid : <<u, h>> \in deleted => ~(u = t /\ h = g)
      BY <1>1, <2>1 DEF DeleteInv
    <3> QED
      BY <1>7, <2>1, <3>1, <3>2, DeleteKept
  <2> QED
    BY <2>2, <2>3, <2>4 DEF BothInv
<1>9. ASSUME ~shared PROVE IsolatedInv'
  <2>1. OwnInv /\ FileInv /\ by[g] = t
    BY <1>1, <1>9 DEF IInv, IsolatedInv, Hears
  <2>2. <<t, g>> \notin ended
    BY <1>1 DEF IInv, BothInv, HearInv
  <2>3. OwnInv'
    <3> SUFFICES ASSUME NEW u \in Tab, NEW h \in Guid
                 PROVE  /\ <<u, h>> \in begun' => by[h] = u
                        /\ lookup'[h] = u => <<u, h>> \in begun'
                        /\ <<u, h>> \in records' /\ Registered(u) => lookup'[h] = u
                        /\ <<u, h>> \in ended \cap records' /\ Registered(u)
                             => state'[<<u, h>>] = chrome[h]
      BY <1>1 DEF OwnInv, Registered
    <3>1. CASE u = t /\ h = g
      BY <1>1, <1>7, <2>1, <2>2, <3>1 DEF OwnInv
    <3>2. CASE ~(u = t /\ h = g)
      <4>1. <<u, h>> \in begun' <=> <<u, h>> \in begun
        BY <1>1, <3>2
      <4>2. <<u, h>> \in records' <=> <<u, h>> \in records
        BY <1>7, <3>2
      <4>3. state'[<<u, h>>] = state[<<u, h>>]
        BY <1>6, <3>2
      <4>4. h = g /\ <<u, h>> \in begun => u = t
        BY <2>1 DEF OwnInv
      <4>5. lookup'[h] = lookup[h] \/ (h = g /\ lookup'[h] = t)
        BY <1>7
      <4>6. <<u, h>> \in records => <<u, h>> \in begun
        BY DEF IInv, BothInv, HearInv
      <4> QED
        BY <2>1, <3>2, <4>1, <4>2, <4>3, <4>4, <4>5, <4>6 DEF OwnInv
    <3> QED
      BY <3>1, <3>2
  <2>4. FileInv'
    BY <1>1, <2>1 DEF FileInv
  <2> QED
    BY <2>3, <2>4 DEF IsolatedInv
<1> QED
  BY <1>1, <1>4, <1>5, <1>8, <1>9 DEF IInv

\* A tab hears how far a download is; the last it hears is how it ended.
LEMMA ProgressInv ==
  ASSUME IInv, NEW t \in Tab, NEW g \in Guid, Progress(t, g)
  PROVE  IInv'
<1>1. /\ <<t, g>> \in begun \ ended
      /\ UNCHANGED <<shared, chrome, by, file, begun, phase, records,
                     content_type, lookup, pendingType, lock, running, at,
                     target, deleted>>
  BY DEF Progress, chromium, handlers
<1>2. PICK s \in {"in_progress"} \cup Terminal :
        /\ OnProgress(g, s)
        /\ s = "in_progress" => ended' = ended
        /\ s # "in_progress" => s = chrome[g] /\ ended' = ended \cup {<<t, g>>}
  BY DEF Progress, Terminal
<1>3. state' \in [Pair -> {"in_progress"} \cup Terminal]
      /\ \A u \in Tab, h \in Guid :
           state'[<<u, h>>] =
             IF h = g /\ lookup[g] = u /\ Registered(u) /\ <<u, g>> \in records
             THEN s ELSE state[<<u, h>>]
  <2>1. state \in [Pair -> States] /\ s \in States
    BY DEF IInv, TypeInv, DownTypeOK, States
  <2>2. CASE \E u \in Tab : lookup[g] = u /\ Registered(u) /\ <<u, g>> \in records
    <3>1. lookup[g] \in Tab /\ state' = [state EXCEPT ![<<lookup[g], g>>] = s]
      BY <1>2, <2>2 DEF OnProgress
    <3>2. /\ state' \in [Pair -> States]
          /\ \A u \in Tab, h \in Guid :
               state'[<<u, h>>] = IF u = lookup[g] /\ h = g THEN s
                                  ELSE state[<<u, h>>]
      BY <2>1, <3>1, StateSet
    <3> QED
      BY <2>2, <3>2 DEF States
  <2>3. CASE ~\E u \in Tab : lookup[g] = u /\ Registered(u) /\ <<u, g>> \in records
    BY <1>2, <2>1, <2>3 DEF OnProgress, States
  <2> QED
    BY <2>2, <2>3
<1>4. ended' \subseteq Pair
  BY <1>1, <1>2 DEF IInv, TypeInv, DownTypeOK
<1>5. TypeInv'
  BY <1>1, <1>3, <1>4 DEF IInv, TypeInv, DownTypeOK, TabOf
<1>6. OnceInv'
  BY <1>1 DEF IInv, OnceInv
<1>7. BothInv'
  <2>1. HearInv /\ RouteInv /\ DeleteInv
    BY DEF IInv, BothInv
  <2>2. s \in Terminal => s = chrome[g]
    BY <1>2 DEF Terminal
  <2>3. HearInv'
    <3>1. (records \cup ended)' \subseteq begun'
      BY <1>1, <1>2, <2>1 DEF HearInv
    <3>2. \A u \in Tab, h \in Guid : <<u, h>> \in ended' => chrome[h] \in Terminal
      BY <1>1, <1>2, <2>1, <2>2 DEF HearInv, Terminal
    <3>3. ASSUME NEW u \in Tab, NEW h \in Guid, <<u, h>> \in records,
                 state'[<<u, h>>] \in Terminal
          PROVE  state'[<<u, h>>] = chrome[h]
      <4>1. CASE state'[<<u, h>>] = state[<<u, h>>]
        BY <2>1, <3>3, <4>1 DEF HearInv
      <4>2. CASE h = g /\ state'[<<u, h>>] = s
        BY <2>2, <3>3, <4>2
      <4> QED
        BY <1>3, <4>1, <4>2
    <3> QED
      BY <1>1, <2>1, <3>1, <3>2, <3>3 DEF HearInv
  <2>4. RouteInv'
    BY <1>1, <2>1 DEF RouteInv
  <2>5. DeleteInv'
    BY <1>1, <2>1, DeleteKept
  <2> QED
    BY <2>3, <2>4, <2>5 DEF BothInv
<1>8. ASSUME ~shared PROVE IsolatedInv'
  <2>1. OwnInv /\ FileInv
    BY <1>8 DEF IInv, IsolatedInv
  <2>2. ended \subseteq begun
    BY DEF IInv, BothInv, HearInv
  <2>3. \A u \in Tab : <<u, g>> \notin ended
    BY <1>1, <2>1, <2>2 DEF OwnInv
  <2>4. ASSUME NEW u \in Tab, NEW h \in Guid,
               <<u, h>> \in ended' \cap records, Registered(u)
        PROVE  state'[<<u, h>>] = chrome[h]
    <3>1. CASE h # g
      <4>1. <<u, h>> \in ended
        BY <1>2, <2>4, <3>1
      <4>2. state'[<<u, h>>] = state[<<u, h>>]
        BY <1>3, <3>1
      <4> QED
        BY <2>1, <2>4, <4>1, <4>2 DEF OwnInv
    <3>2. CASE h = g
      <4>1. ended' # ended
        BY <2>3, <2>4, <3>2
      <4>2. s = chrome[g] /\ lookup[g] = u
        BY <1>2, <2>1, <2>4, <3>2, <4>1 DEF OwnInv
      <4> QED
        BY <1>3, <2>4, <3>2, <4>2
    <3> QED
      BY <3>1, <3>2
  <2>5. OwnInv' /\ FileInv'
    BY <1>1, <2>1, <2>4 DEF OwnInv, FileInv, Registered
  <2> QED
    BY <2>5 DEF IsolatedInv
<1> QED
  BY <1>1, <1>5, <1>6, <1>7, <1>8 DEF IInv

\* A tab ends.
LEMMA RemoveInv == ASSUME IInv, NEW t \in Tab, Remove(t) PROVE IInv'
<1>1. /\ phase[t] = "open" /\ phase' = [phase EXCEPT ![t] = "removed"]
      /\ UNCHANGED <<shared, chrome, by, file, begun, ended, records, state,
                     content_type, lookup, pendingType, lock, running, at,
                     target, deleted>>
  BY DEF Remove, chromium, delivery, kept, handlers
<1>2. \A u \in Tab : phase'[u] = IF u = t THEN "removed" ELSE phase[u]
  BY <1>1 DEF IInv, TypeInv, DownTypeOK
<1>3. TypeInv' /\ OnceInv'
  BY <1>1 DEF IInv, TypeInv, DownTypeOK, TabOf, OnceInv
<1>4. BothInv'
  <2>1. HearInv' /\ RouteInv'
    BY <1>1, <1>2 DEF IInv, BothInv, HearInv, RouteInv
  <2>2. DeleteInv'
    BY <1>1, DeleteKept DEF IInv, BothInv
  <2> QED
    BY <2>1, <2>2 DEF BothInv
<1>5. ASSUME IsolatedInv PROVE IsolatedInv'
  <2>1. OwnInv'
    BY <1>1, <1>2, <1>5, OwnKept DEF IsolatedInv, Registered
  <2>2. FileInv'
    BY <1>1, <1>2, <1>5 DEF IsolatedInv, FileInv
  <2> QED
    BY <2>1, <2>2 DEF IsolatedInv
<1> QED
  BY <1>1, <1>3, <1>4, <1>5 DEF IInv

LEMMA CloseInv == ASSUME IInv, NEW t \in Tab, CloseContext(t) PROVE IInv'
<1>1. /\ phase[t] = "removed" /\ phase' = [phase EXCEPT ![t] = "closed"]
      /\ chrome' = [g \in Guid |-> IF by[g] = t /\ ~shared
                                    THEN EndOf(chrome[g]) ELSE chrome[g]]
      /\ UNCHANGED <<shared, by, file, begun, ended, records, state,
                     content_type, lookup, pendingType, lock, running, at,
                     target, deleted>>
  BY DEF CloseContext, delivery, kept, handlers
<1>2. \A u \in Tab : phase'[u] = IF u = t THEN "closed" ELSE phase[u]
  BY <1>1 DEF IInv, TypeInv, DownTypeOK
<1>3. \A g \in Guid :
        /\ chrome'[g] = IF by[g] = t /\ ~shared THEN EndOf(chrome[g])
                        ELSE chrome[g]
        /\ EndOf(chrome[g]) = IF chrome[g] = "offered" THEN "dropped"
                              ELSE IF chrome[g] = "running" THEN "canceled"
                              ELSE chrome[g]
  BY <1>1 DEF EndOf
<1>4. chrome' \in [Guid -> {"none", "offered", "dropped", "running",
                            "completed", "canceled"}]
  <2>1. \A g \in Guid :
          chrome'[g] \in {"none", "offered", "dropped", "running", "completed",
                          "canceled"}
    BY <1>3 DEF IInv, TypeInv, DownTypeOK
  <2> QED
    BY <1>1, <2>1
<1>5. TypeInv'
  BY <1>1, <1>4 DEF IInv, TypeInv, DownTypeOK, TabOf
<1>6. OnceInv'
  BY <1>1, <1>3 DEF IInv, OnceInv
<1>7. \A g \in Guid : /\ chrome[g] \in Terminal => chrome'[g] = chrome[g]
                      /\ chrome[g] = "running"
                           => chrome'[g] \in {"running"} \cup Terminal
                      /\ chrome'[g] = "none" <=> chrome[g] = "none"
  BY <1>3 DEF Terminal
<1>8. BothInv'
  <2>1. HearInv /\ RouteInv /\ DeleteInv
    BY DEF IInv, BothInv
  <2>2. HearInv'
    <3>1. (records \cup ended)' \subseteq begun'
      BY <1>1, <2>1 DEF HearInv
    <3>2. ASSUME NEW u \in Tab, NEW h \in Guid
          PROVE  /\ <<u, h>> \in begun => chrome'[h] \in {"running"} \cup Terminal
                 /\ <<u, h>> \in ended => chrome'[h] \in Terminal
                 /\ <<u, h>> \in records /\ state[<<u, h>>] \in Terminal
                      => state[<<u, h>>] = chrome'[h]
      BY <1>7, <2>1 DEF HearInv
    <3> QED
      BY <1>1, <3>1, <3>2 DEF HearInv
  <2>3. RouteInv'
    BY <1>1, <1>2, <2>1 DEF RouteInv
  <2>4. DeleteInv'
    <3>1. UNCHANGED <<begun, records, file, at, target, deleted>>
      BY <1>1
    <3>2. \A g \in Guid : chrome[g] \in Terminal => chrome'[g] \in Terminal
      BY <1>7
    <3> QED
      BY <2>1, <3>1, <3>2, DeleteKept
  <2> QED
    BY <2>2, <2>3, <2>4 DEF BothInv
<1>9. ASSUME ~shared PROVE IsolatedInv'
  <2>1. OwnInv /\ FileInv /\ HearInv
    BY <1>9 DEF IInv, IsolatedInv, BothInv
  <2>2. OwnInv'
    <3>1. \A u \in Tab, h \in Guid : <<u, h>> \in ended => chrome'[h] = chrome[h]
      BY <1>7, <2>1 DEF HearInv
    <3>2. \A u \in Tab : Registered(u)' <=> Registered(u)
      BY <1>1, <1>2 DEF Registered
    <3>3. UNCHANGED <<by, begun, ended, records, state, lookup>>
      BY <1>1
    <3> QED
      BY <2>1, <3>1, <3>2, <3>3, OwnKept
  <2>3. FileInv'
    <3>1. \A g \in Guid :
            by[g] = t => chrome'[g] \in {"dropped"} \cup Terminal
      BY <1>3, <1>9, <2>1 DEF FileInv, IInv, TypeInv, DownTypeOK, Terminal
    <3>2. \A g \in Guid : by[g] # t => chrome'[g] = chrome[g]
      BY <1>3
    <3> QED
      BY <1>1, <1>2, <1>7, <2>1, <3>1, <3>2 DEF FileInv
  <2> QED
    BY <2>2, <2>3 DEF IsolatedInv
<1> QED
  BY <1>1, <1>5, <1>6, <1>8, <1>9 DEF IInv

LEMMA CleanupInv == ASSUME IInv, NEW t \in Tab, CleanupTabDir(t) PROVE IInv'
<1>1. /\ phase[t] = "closed" /\ phase' = [phase EXCEPT ![t] = "cleaned"]
      /\ file' = file \ Leftover(t)
      /\ UNCHANGED <<shared, chrome, by, begun, ended, records, state,
                     content_type, lookup, pendingType, lock, running, at,
                     target, deleted>>
  BY DEF CleanupTabDir, chromium, delivery, kept, handlers
<1>2. \A u \in Tab : phase'[u] = IF u = t THEN "cleaned" ELSE phase[u]
  BY <1>1 DEF IInv, TypeInv, DownTypeOK
<1>3. TypeInv' /\ OnceInv'
  BY <1>1 DEF IInv, TypeInv, DownTypeOK, TabOf, OnceInv
<1>4. BothInv'
  <2>1. HearInv' /\ RouteInv'
    BY <1>1, <1>2 DEF IInv, BothInv, HearInv, RouteInv
  <2>2. DeleteInv'
    <3>1. /\ UNCHANGED <<begun, records, chrome, at, target, deleted>>
          /\ file' \subseteq file
      BY <1>1
    <3> QED
      BY <3>1, DeleteKept DEF IInv, BothInv
  <2> QED
    BY <2>1, <2>2 DEF BothInv
<1>5. ASSUME ~shared, IsolatedInv PROVE IsolatedInv'
  <2>1. \A g \in Guid : by[g] = t => g \notin file'
    BY <1>1, <1>5 DEF Leftover
  <2>2. OwnInv'
    <3>1. \A u \in Tab : Registered(u)' <=> Registered(u)
      BY <1>1, <1>2 DEF Registered
    <3>2. UNCHANGED <<chrome, by, begun, ended, records, state, lookup>>
      BY <1>1
    <3> QED
      BY <1>5, <3>1, <3>2, OwnKept DEF IsolatedInv
  <2>3. FileInv'
    BY <1>1, <1>2, <1>5, <2>1 DEF IsolatedInv, FileInv
  <2> QED
    BY <2>2, <2>3 DEF IsolatedInv
<1> QED
  BY <1>1, <1>3, <1>4, <1>5 DEF IInv

LEMMA DetachInv == ASSUME IInv, NEW t \in Tab, DetachTab(t) PROVE IInv'
<1>1. /\ phase[t] = "cleaned" /\ phase' = [phase EXCEPT ![t] = "gone"]
      /\ lookup' = [g \in Guid |-> IF lookup[g] = t THEN Nobody ELSE lookup[g]]
      /\ pendingType' = [pendingType EXCEPT ![t] = Nobody]
      /\ UNCHANGED <<shared, chrome, by, file, begun, ended, records, state,
                     content_type, lock, running, at, target, deleted>>
  BY DEF DetachTab, chromium, delivery, handlers
<1>2. /\ \A u \in Tab : phase'[u] = IF u = t THEN "gone" ELSE phase[u]
      /\ \A u \in Tab : pendingType'[u] = IF u = t THEN Nobody
                                          ELSE pendingType[u]
      /\ \A g \in Guid : lookup'[g] = IF lookup[g] = t THEN Nobody
                                      ELSE lookup[g]
  BY <1>1 DEF IInv, TypeInv, DownTypeOK
<1>3. TypeInv'
  BY <1>1 DEF IInv, TypeInv, DownTypeOK, TabOf
<1>4. OnceInv'
  BY <1>1, <1>2 DEF IInv, OnceInv
<1>5. BothInv'
  <2>1. HearInv'
    BY <1>1 DEF IInv, BothInv, HearInv
  <2>2. RouteInv'
    BY <1>1, <1>2 DEF IInv, BothInv, RouteInv
  <2>3. DeleteInv'
    BY <1>1, DeleteKept DEF IInv, BothInv
  <2> QED
    BY <2>1, <2>2, <2>3 DEF BothInv
<1>6. ASSUME IsolatedInv PROVE IsolatedInv'
  <2>1. OwnInv'
    <3>1. \A u \in Tab : Registered(u)' <=> Registered(u)
      BY <1>1, <1>2 DEF Registered
    <3>2. UNCHANGED <<chrome, by, begun, ended, records, state>>
      BY <1>1
    <3>3. \A u \in Tab, h \in Guid :
            /\ lookup'[h] = u => lookup[h] = u
            /\ Registered(u) /\ lookup[h] = u => lookup'[h] = u
      BY <1>1, <1>2 DEF Registered
    <3>4. OwnInv
      BY <1>6 DEF IsolatedInv
    <3> SUFFICES ASSUME NEW u \in Tab, NEW h \in Guid
                 PROVE  /\ <<u, h>> \in begun => by[h] = u
                        /\ lookup'[h] = u => <<u, h>> \in begun
                        /\ <<u, h>> \in records /\ Registered(u) => lookup'[h] = u
                        /\ <<u, h>> \in ended \cap records /\ Registered(u)
                             => state[<<u, h>>] = chrome[h]
      BY <3>1, <3>2 DEF OwnInv
    <3>5. /\ <<u, h>> \in begun => by[h] = u
          /\ lookup[h] = u => <<u, h>> \in begun
          /\ <<u, h>> \in records /\ Registered(u) => lookup[h] = u
          /\ <<u, h>> \in ended \cap records /\ Registered(u)
               => state[<<u, h>>] = chrome[h]
      BY <3>4 DEF OwnInv
    <3>6. /\ lookup'[h] = u => lookup[h] = u
          /\ Registered(u) /\ lookup[h] = u => lookup'[h] = u
      BY <3>3
    <3> QED
      BY <3>5, <3>6
  <2>2. FileInv'
    BY <1>1, <1>2, <1>6 DEF IsolatedInv, FileInv
  <2> QED
    BY <2>1, <2>2 DEF IsolatedInv
<1> QED
  BY <1>1, <1>3, <1>4, <1>5, <1>6 DEF IInv

\* A request is made: it was idle.
LEMMA AskInv ==
  ASSUME IInv, NEW x \in Client, NEW p \in Pair,
         NEW w \in {"toCancel", "toDelete"}, Ask(x, p, w)
  PROVE  IInv'
<1>1. /\ at[x] = "idle" /\ at' = [at EXCEPT ![x] = w]
      /\ target' = [target EXCEPT ![x] = p] /\ running' \in {x, Nobody}
      /\ UNCHANGED <<shared, chrome, by, file, begun, ended, phase, records,
                     state, content_type, lookup, pendingType, lock, deleted>>
  BY DEF Ask, chromium, delivery, kept
<1>2. \A y \in Client : /\ at'[y] = IF y = x THEN w ELSE at[y]
                        /\ y # x => TabOf(y)' = TabOf(y) /\ GuidOf(y)' = GuidOf(y)
  BY <1>1 DEF IInv, TypeInv, DownTypeOK, TabOf, GuidOf
<1>3. \A t \in Tab : lock[t] # x
  BY <1>1 DEF IInv, TypeInv, DownTypeOK
<1>4. TypeInv'
  <2>1. p[1] \in Tab
    BY Pairs
  <2>2. TabOf(x)' = p[1]
    BY <1>1 DEF TabOf, IInv, TypeInv, DownTypeOK
  <2>3. \A y \in Client :
          at'[y] \in {"cancelling", "stopping"} <=> lock'[TabOf(y)'] = y
    BY <1>1, <1>2, <1>3, <2>1, <2>2 DEF IInv, TypeInv, DownTypeOK
  <2>4. \A t \in Tab, y \in Client : lock'[t] = y => t = TabOf(y)'
    BY <1>1, <1>2, <1>3 DEF IInv, TypeInv
  <2>5. at' \in [Client -> Place] /\ target' \in [Client -> Pair]
    BY <1>1 DEF IInv, TypeInv, DownTypeOK, Place
  <2> QED
    BY <1>1, <2>3, <2>4, <2>5 DEF IInv, TypeInv, DownTypeOK
<1>5. OnceInv'
  BY <1>1 DEF IInv, OnceInv
<1>6. BothInv'
  <2>1. HearInv /\ RouteInv /\ DeleteInv
    BY DEF IInv, BothInv
  <2>2. \A y \in Client : at[y] \in {"stopping", "unlinking"} =>
          at'[y] = at[y] /\ target'[y] = target[y]
    BY <1>1, <1>2 DEF IInv, TypeInv, DownTypeOK
  <2>3. DeleteInv'
    <3>1. UNCHANGED <<chrome, file, begun, records, deleted>>
      BY <1>1
    <3> QED
      BY <2>1, <2>2, <3>1, DeleteKept
  <2>4. HearInv' /\ RouteInv'
    BY <1>1, <2>1 DEF HearInv, RouteInv
  <2> QED
    BY <2>3, <2>4 DEF BothInv
<1>7. ASSUME IsolatedInv PROVE IsolatedInv'
  BY <1>1, <1>7 DEF IsolatedInv, OwnInv, FileInv, Registered
<1> QED
  BY <1>1, <1>4, <1>5, <1>6, <1>7 DEF IInv

\* A request gets the lock: the record of a cancel is left alone.
LEMMA CancelLockedInv ==
  ASSUME IInv, NEW x \in Client, CancelLocked(x) PROVE IInv'
<1>1. /\ at[x] = "toCancel" /\ at' = [at EXCEPT ![x] = "cancelling"]
      /\ lock[TabOf(x)] = Nobody /\ lock' = [lock EXCEPT ![TabOf(x)] = x]
      /\ running' = Nobody
      /\ UNCHANGED <<shared, chrome, by, file, begun, ended, phase, records,
                     state, content_type, lookup, pendingType, target,
                     deleted>>
  BY DEF CancelLocked, Locks, chromium, delivery, kept
<1>2. \A y \in Client : at'[y] = IF y = x THEN "cancelling" ELSE at[y]
  BY <1>1 DEF IInv, TypeInv
<1>3. \A y \in Client : TabOf(y) \in Tab
  BY Pairs DEF IInv, TypeInv, DownTypeOK, TabOf
<1>4. \A t \in Tab : lock'[t] = IF t = TabOf(x) THEN x ELSE lock[t]
  BY <1>1 DEF IInv, TypeInv
<1>5. TypeInv'
  <2>1. \A y \in Client : TabOf(y)' = TabOf(y)
    BY <1>1 DEF TabOf
  <2>2. \A y \in Client :
          at'[y] \in {"cancelling", "stopping"} <=> lock'[TabOf(y)'] = y
    BY <1>1, <1>2, <1>3, <1>4, <2>1 DEF IInv, TypeInv, DownTypeOK
  <2>3. \A t \in Tab, y \in Client : lock'[t] = y => t = TabOf(y)'
    BY <1>4, <2>1 DEF IInv, TypeInv
  <2>4. at' \in [Client -> Place] /\ lock' \in [Tab -> Client \cup {Nobody}]
    BY <1>1 DEF IInv, TypeInv, Place
  <2> QED
    BY <1>1, <2>2, <2>3, <2>4 DEF IInv, TypeInv, DownTypeOK
<1>6. OnceInv'
  BY <1>1 DEF IInv, OnceInv
<1>7. BothInv'
  <2>1. HearInv' /\ RouteInv'
    BY <1>1 DEF IInv, BothInv, HearInv, RouteInv
  <2>2. DeleteInv'
    <3>1. \A y \in Client : y # x => at'[y] = at[y]
      BY <1>2
    <3>2. DeleteInv /\ UNCHANGED <<chrome, file, begun, records, target,
                                deleted>>
      BY <1>1 DEF IInv, BothInv
    <3>3. \A y \in Client : at[y] \in {"stopping", "unlinking"} => at'[y] = at[y]
      BY <1>1, <3>1
    <3> QED
      BY <3>2, <3>3, DeleteKept
  <2> QED
    BY <2>1, <2>2 DEF BothInv
<1>8. ASSUME IsolatedInv PROVE IsolatedInv'
  BY <1>1, <1>8 DEF IsolatedInv, OwnInv, FileInv, Registered
<1> QED
  BY <1>1, <1>5, <1>6, <1>7, <1>8 DEF IInv

\* A deletion gets the lock: it takes the record, and keeps the lock only to
\* cancel what is in progress.
LEMMA DeleteLockedInv ==
  ASSUME IInv, NEW x \in Client, DeleteLocked(x) PROVE IInv'
<1> DEFINE found == target[x] \in records
           stops == found /\ MustCancel(x)
           next == IF stops THEN "stopping"
                   ELSE IF found THEN "unlinking" ELSE "idle"
<1>1. /\ at[x] = "toDelete" /\ at' = [at EXCEPT ![x] = next]
      /\ lock[TabOf(x)] = Nobody
      /\ lock' = IF stops THEN [lock EXCEPT ![TabOf(x)] = x] ELSE lock
      /\ records' = records \ {target[x]}
      /\ deleted' = deleted \cup (records \cap {target[x]})
      /\ running' = Nobody
      /\ UNCHANGED <<shared, chrome, by, file, begun, ended, phase, state,
                     content_type, lookup, pendingType, target>>
  BY DEF DeleteLocked, Locks, chromium, delivery
<1>2. \A y \in Client : at'[y] = IF y = x THEN next ELSE at[y]
  BY <1>1 DEF IInv, TypeInv
<1>3. \A y \in Client : TabOf(y) \in Tab /\ GuidOf(y) \in Guid
                        /\ target[y] = <<TabOf(y), GuidOf(y)>>
  BY Pairs DEF IInv, TypeInv, DownTypeOK, TabOf, GuidOf
<1>4. \A t \in Tab : lock'[t] = IF stops /\ t = TabOf(x) THEN x ELSE lock[t]
  BY <1>1 DEF IInv, TypeInv
<1>5. TypeInv'
  <2>1. \A y \in Client : TabOf(y)' = TabOf(y)
    BY <1>1 DEF TabOf
  <2>2. lock[TabOf(x)] # x
    BY <1>1
  <2>3. \A y \in Client :
          at'[y] \in {"cancelling", "stopping"} <=> lock'[TabOf(y)'] = y
    <3>1. CASE stops
      BY <1>1, <1>2, <1>3, <1>4, <2>1, <3>1 DEF IInv, TypeInv, DownTypeOK
    <3>2. CASE ~stops
      BY <1>1, <1>2, <2>1, <2>2, <3>2 DEF IInv, TypeInv, DownTypeOK
    <3> QED
      BY <3>1, <3>2
  <2>4. \A t \in Tab, y \in Client : lock'[t] = y => t = TabOf(y)'
    BY <1>4, <2>1 DEF IInv, TypeInv
  <2>5. at' \in [Client -> Place] /\ lock' \in [Tab -> Client \cup {Nobody}]
    BY <1>1 DEF IInv, TypeInv, Place
  <2>6. deleted' \subseteq Pair /\ (begun \cup ended \cup records)' \subseteq Pair
    BY <1>1, <1>3 DEF IInv, TypeInv, DownTypeOK
  <2> QED
    BY <1>1, <2>3, <2>4, <2>5, <2>6 DEF IInv, TypeInv, DownTypeOK
<1>6. OnceInv'
  BY <1>1 DEF IInv, OnceInv
<1>7. BothInv'
  <2>1. HearInv /\ RouteInv /\ DeleteInv
    BY DEF IInv, BothInv
  <2>2. HearInv' /\ RouteInv'
    BY <1>1, <2>1 DEF HearInv, RouteInv
  <2>3. DeleteInv'
    <3> SUFFICES ASSUME NEW t \in Tab, NEW g \in Guid, <<t, g>> \in deleted'
                 PROVE  /\ <<t, g>> \in begun \ records'
                        /\ \/ chrome[g] \in Terminal
                           \/ \E y \in Client :
                                at'[y] = "stopping" /\ target[y] = <<t, g>>
                        /\ g \in file =>
                             \E y \in Client :
                               /\ at'[y] \in {"stopping", "unlinking"}
                               /\ target[y] = <<t, g>>
      <4>1. UNCHANGED <<begun, chrome, file, target>>
        BY <1>1
      <4> QED
        BY <4>1 DEF DeleteInv, Works
    <3>1. CASE <<t, g>> \in deleted
      <4>1. \A y \in Client :
              at[y] \in {"stopping", "unlinking"} => at'[y] = at[y]
        <5>1. at[x] \notin {"stopping", "unlinking"}
          BY <1>1
        <5> QED BY <1>2, <5>1, Zenon
      <4>2. /\ <<t, g>> \in begun \ records
            /\ \/ chrome[g] \in Terminal
               \/ \E y \in Client : at[y] = "stopping" /\ target[y] = <<t, g>>
            /\ g \in file =>
                 \E y \in Client : at[y] \in {"stopping", "unlinking"}
                                     /\ target[y] = <<t, g>>
        BY <2>1, <3>1 DEF DeleteInv, Works
      <4>3. records' \subseteq records
        BY <1>1
      <4> QED
        BY <4>1, <4>2, <4>3
    <3>2. CASE found /\ target[x] = <<t, g>>
      <4>1. <<t, g>> \in begun \ records'
        BY <1>1, <2>1, <3>2 DEF HearInv
      <4>2. CASE stops
        BY <1>2, <3>2, <4>1, <4>2
      <4>3. CASE ~stops
        <5>1. state[<<t, g>>] \in Terminal
          BY <3>2, <4>3, Pairs DEF MustCancel, IInv, TypeInv, DownTypeOK
        <5>2. chrome[g] \in Terminal
          BY <2>1, <3>2, <5>1 DEF HearInv
        <5> QED
          BY <1>2, <3>2, <4>1, <4>3, <5>2
      <4> QED
        BY <4>2, <4>3
    <3> QED
      BY <1>1, <3>1, <3>2
  <2> QED
    BY <2>2, <2>3 DEF BothInv
<1>8. ASSUME IsolatedInv PROVE IsolatedInv'
  BY <1>1, <1>8 DEF IsolatedInv, OwnInv, FileInv, Registered
<1> QED
  BY <1>1, <1>5, <1>6, <1>7, <1>8 DEF IInv

\* Browser.cancelDownload is answered: the lock is given back.
LEMMA CancelAnsweredInv ==
  ASSUME IInv, NEW x \in Client, CancelAnswered(x) PROVE IInv'
<1> DEFINE next == IF at[x] = "stopping" THEN "unlinking" ELSE "idle"
           g == GuidOf(x)
<1>1. /\ at[x] \in {"cancelling", "stopping"}
      /\ at' = [at EXCEPT ![x] = next]
      /\ lock' = [lock EXCEPT ![TabOf(x)] = Nobody]
      /\ UNCHANGED <<shared, by, begun, ended, phase, records, state,
                     content_type, lookup, pendingType, running, target>>
  BY DEF CancelAnswered, Unlock, delivery, kept
<1>2. \/ /\ chrome[g] = "running" /\ chrome' = [chrome EXCEPT ![g] = "canceled"]
         /\ file' = file \ {g} /\ deleted' = deleted
      \/ chrome[g] # "running" /\ UNCHANGED <<chrome, file, deleted>>
      \/ deleted' = deleted \ {target[x]} /\ UNCHANGED <<chrome, file>>
  BY DEF CancelAnswered, Cancelled
<1>3. \A y \in Client : TabOf(y) \in Tab /\ GuidOf(y) \in Guid
  BY Pairs DEF IInv, TypeInv, DownTypeOK, TabOf, GuidOf
<1>4. \A h \in Guid : \/ chrome'[h] = chrome[h]
                      \/ h = g /\ chrome[h] = "running" /\ chrome'[h] = "canceled"
  BY <1>2, <1>3 DEF IInv, TypeInv, DownTypeOK
<1>5. \A y \in Client : at'[y] = IF y = x THEN next ELSE at[y]
  BY <1>1 DEF IInv, TypeInv
<1>6. \A t \in Tab : lock'[t] = IF t = TabOf(x) THEN Nobody ELSE lock[t]
  BY <1>1 DEF IInv, TypeInv
<1>7. TypeInv'
  <2>1. \A y \in Client : TabOf(y)' = TabOf(y)
    BY <1>1 DEF TabOf
  <2>2. lock[TabOf(x)] = x
    BY <1>1 DEF IInv, TypeInv, DownTypeOK
  <2>3. \A y \in Client :
          at'[y] \in {"cancelling", "stopping"} <=> lock'[TabOf(y)'] = y
    BY <1>3, <1>5, <1>6, <2>1, <2>2 DEF IInv, TypeInv, DownTypeOK
  <2>4. \A t \in Tab, y \in Client : lock'[t] = y => t = TabOf(y)'
    BY <1>6, <2>1 DEF IInv, TypeInv
  <2>5. at' \in [Client -> Place] /\ lock' \in [Tab -> Client \cup {Nobody}]
    BY <1>1 DEF IInv, TypeInv, Place
  <2>6. /\ chrome' \in [Guid -> {"none", "offered", "dropped", "running",
                                 "completed", "canceled"}]
        /\ file' \subseteq Guid /\ deleted' \subseteq Pair
    BY <1>2 DEF IInv, TypeInv, DownTypeOK
  <2> QED
    BY <1>1, <2>3, <2>4, <2>5, <2>6 DEF IInv, TypeInv, DownTypeOK
<1>8. OnceInv'
  BY <1>1, <1>4 DEF IInv, OnceInv
<1>9. file' \subseteq file
  BY <1>2
<1>10. BothInv'
  <2>1. HearInv /\ RouteInv /\ DeleteInv
    BY DEF IInv, BothInv
  <2>2. HearInv'
    BY <1>1, <1>4, <2>1 DEF HearInv, Terminal
  <2>3. RouteInv'
    BY <1>1, <2>1 DEF RouteInv
  <2>4. DeleteInv'
    <3>0. UNCHANGED <<begun, records, target>>
      BY <1>1
    <3> SUFFICES ASSUME NEW t \in Tab, NEW h \in Guid, <<t, h>> \in deleted'
                 PROVE  /\ <<t, h>> \in begun \ records
                        /\ \/ chrome'[h] \in Terminal
                           \/ \E y \in Client :
                                at'[y] = "stopping" /\ target[y] = <<t, h>>
                        /\ h \in file' =>
                             \E y \in Client :
                               /\ at'[y] \in {"stopping", "unlinking"}
                               /\ target[y] = <<t, h>>
      BY <3>0 DEF DeleteInv, Works
    <3>1. <<t, h>> \in deleted
      BY <1>2
    <3>2. <<t, h>> \in begun \ records /\ chrome[h] \in {"running"} \cup Terminal
      BY <2>1, <3>1 DEF DeleteInv, HearInv
    <3>3. \/ chrome'[h] \in Terminal
          \/ \E y \in Client : at'[y] = "stopping" /\ target[y] = <<t, h>>
      <4>1. chrome[h] \in Terminal => chrome'[h] \in Terminal
        BY <1>4 DEF Terminal
      <4>2. ASSUME target[x] = <<t, h>> PROVE chrome'[h] \in Terminal
        <5>1. g = h
          BY <4>2 DEF GuidOf
        <5> QED
          BY <1>2, <1>4, <3>2, <4>1, <4>2, <5>1 DEF Terminal, IInv, TypeInv, DownTypeOK
      <4>3. ASSUME NEW y \in Client, at[y] = "stopping", target[y] = <<t, h>>, y # x
            PROVE  at'[y] = "stopping"
        BY <1>5, <4>3
      <4> QED
        BY <2>1, <3>1, <4>1, <4>2, <4>3 DEF DeleteInv
    <3>4. ASSUME h \in file'
          PROVE  \E y \in Client : at'[y] \in {"stopping", "unlinking"}
                                    /\ target[y] = <<t, h>>
      <4>1. PICK y \in Client : Works(y, t, h)
        BY <1>9, <2>1, <3>1, <3>4 DEF DeleteInv
      <4>2. at'[y] \in {"stopping", "unlinking"}
        BY <1>1, <1>5, <4>1 DEF Works
      <4> QED
        BY <4>1, <4>2 DEF Works
    <3> QED
      BY <3>2, <3>3, <3>4
  <2> QED
    BY <2>2, <2>3, <2>4 DEF BothInv
<1>11. ASSUME IsolatedInv PROVE IsolatedInv'
  <2>1. HearInv
    BY DEF IInv, BothInv
  <2>2. OwnInv'
    <3>1. \A t \in Tab, h \in Guid : <<t, h>> \in ended => chrome'[h] = chrome[h]
      BY <1>4, <2>1 DEF HearInv, Terminal
    <3>2. UNCHANGED <<by, begun, ended, records, state, lookup, phase>>
      BY <1>1
    <3> QED
      BY <1>11, <3>1, <3>2, OwnKept DEF IsolatedInv, Registered
  <2>3. FileInv'
    BY <1>1, <1>4, <1>9, <1>11 DEF IsolatedInv, FileInv, Terminal
  <2> QED
    BY <2>2, <2>3 DEF IsolatedInv
<1> QED
  BY <1>1, <1>7, <1>8, <1>10, <1>11 DEF IInv

\* The file of what was deleted is removed.
LEMMA UnlinkInv == ASSUME IInv, NEW x \in Client, Unlink(x) PROVE IInv'
<1>1. /\ at[x] = "unlinking" /\ at' = [at EXCEPT ![x] = "idle"]
      /\ file' = file \ {GuidOf(x)}
      /\ UNCHANGED <<shared, chrome, by, begun, ended, phase, records,
                     state, content_type, lookup, pendingType, lock,
                     running, target, deleted>>
  BY DEF Unlink, chromium, delivery, kept
<1>2. \A y \in Client : at'[y] = IF y = x THEN "idle" ELSE at[y]
  BY <1>1 DEF IInv, TypeInv
<1>3. TypeInv'
  <2>1. \A y \in Client : TabOf(y)' = TabOf(y)
    BY <1>1 DEF TabOf
  <2>2. \A y \in Client :
          at'[y] \in {"cancelling", "stopping"} <=> lock'[TabOf(y)'] = y
    BY <1>1, <1>2, <2>1 DEF IInv, TypeInv, DownTypeOK
  <2>3. at' \in [Client -> Place]
    BY <1>1 DEF IInv, TypeInv, Place
  <2> QED
    BY <1>1, <2>1, <2>2, <2>3 DEF IInv, TypeInv, DownTypeOK
<1>4. OnceInv'
  BY <1>1 DEF IInv, OnceInv
<1>5. BothInv'
  <2>1. HearInv /\ RouteInv /\ DeleteInv
    BY DEF IInv, BothInv
  <2>2. HearInv' /\ RouteInv'
    BY <1>1, <2>1 DEF HearInv, RouteInv
  <2>3. DeleteInv'
    <3>1. ASSUME NEW t \in Tab, NEW g \in Guid, <<t, g>> \in deleted, g \in file'
          PROVE  \E y \in Client : at'[y] \in {"stopping", "unlinking"}
                                    /\ target[y] = <<t, g>>
      <4>1. g # GuidOf(x) /\ g \in file
        BY <1>1, <3>1
      <4>2. PICK y \in Client : Works(y, t, g)
        BY <2>1, <3>1, <4>1 DEF DeleteInv
      <4>3. y # x
        BY <4>1, <4>2 DEF Works, GuidOf
      <4> QED
        BY <1>2, <4>2, <4>3 DEF Works
    <3>2. \A y \in Client : at[y] = "stopping" => at'[y] = "stopping"
      BY <1>1, <1>2
    <3>3. UNCHANGED <<begun, records, chrome, target, deleted>>
      BY <1>1
    <3> QED
      <4> SUFFICES ASSUME NEW t \in Tab, NEW g \in Guid, <<t, g>> \in deleted
                   PROVE  /\ <<t, g>> \in begun \ records
                          /\ \/ chrome[g] \in Terminal
                             \/ \E y \in Client :
                                  at'[y] = "stopping" /\ target[y] = <<t, g>>
                          /\ g \in file' =>
                               \E y \in Client :
                                 /\ at'[y] \in {"stopping", "unlinking"}
                                 /\ target[y] = <<t, g>>
        BY <3>3 DEF DeleteInv, Works
      <4>1. /\ <<t, g>> \in begun \ records
            /\ \/ chrome[g] \in Terminal
               \/ \E y \in Client : at[y] = "stopping" /\ target[y] = <<t, g>>
        BY <2>1 DEF DeleteInv
      <4> QED
        BY <3>1, <3>2, <4>1
  <2> QED
    BY <2>2, <2>3 DEF BothInv
<1>6. ASSUME IsolatedInv PROVE IsolatedInv'
  BY <1>1, <1>6 DEF IsolatedInv, OwnInv, FileInv, Registered
<1> QED
  BY <1>1, <1>3, <1>4, <1>5, <1>6 DEF IInv

\* Every step keeps the invariant.
LEMMA NextInv == IInv /\ [DownNext]_vars => IInv'
<1> SUFFICES ASSUME IInv, [DownNext]_vars PROVE IInv'
  OBVIOUS
<1>1. CASE UNCHANGED vars
  <2>1. UNCHANGED <<shared, chrome, by, file, begun, ended, phase, records,
                    state, content_type, lookup, pendingType, lock, running,
                    at, target, deleted>>
    BY <1>1 DEF vars, chromium, delivery, kept, handlers
  <2>2. TypeInv' /\ OnceInv'
    BY <2>1 DEF IInv, TypeInv, DownTypeOK, TabOf, OnceInv
  <2>3. BothInv'
    <3>1. HearInv' /\ RouteInv'
      BY <2>1 DEF IInv, BothInv, HearInv, RouteInv
    <3>2. DeleteInv'
      BY <2>1, DeleteKept DEF IInv, BothInv
    <3> QED
      BY <3>1, <3>2 DEF BothInv
  <2>4. ASSUME IsolatedInv PROVE IsolatedInv'
    BY <2>1, <2>4 DEF IsolatedInv, OwnInv, FileInv, Registered
  <2> QED
    BY <2>1, <2>2, <2>3, <2>4 DEF IInv
<1>2. CASE Event
  BY <1>2, OfferInv, ChromeInv, WillBeginInv, ProgressInv, RemoveInv, CloseInv,
     CleanupInv, DetachInv DEF Event, TabEnds
<1>3. ASSUME NEW x \in Client, Request(x) PROVE IInv'
  BY <1>3, AskInv, CancelLockedInv, DeleteLockedInv, CancelAnsweredInv,
     UnlinkInv DEF Request
<1> QED
  BY <1>1, <1>2, <1>3 DEF DownNext

\* The invariant holds in every state of every execution.
THEOREM InvHolds == DownSpec => []IInv
  BY InitInv, NextInv, PTL DEF DownSpec

\* The variables keep to their values, and who holds a tab's lock is at work
\* under it.
THEOREM TypeCorrect == DownSpec => []DownTypeOK
<1>1. IInv => DownTypeOK
  BY DEF IInv, TypeInv
<1> QED
  BY <1>1, InvHolds, PTL

\* The content type of one answer is given to one download, in shared mode
\* too.
THEOREM TypesAreGivenOnce == DownSpec => []TypeGivenOnce
<1>1. IInv => TypeGivenOnce
  BY DEF IInv, TypeInv, DownTypeOK, OnceInv, TypeGivenOnce
<1> QED
  BY <1>1, InvHolds, PTL

\* A record never says that a download has ended which has not, or otherwise
\* than it has, in whatever order the tabs of a shared profile hear of it; in
\* isolated mode what Chromium told of the end stays.
THEOREM EndsAreFinal == DownSpec => []EndIsFinal
<1>1. ASSUME IInv, NEW p \in Pair
      PROVE  /\ p \in records /\ state[p] \in Terminal => state[p] = chrome[p[2]]
             /\ ~shared /\ p \in ended \cap records /\ Registered(p[1])
                  => state[p] \in Terminal
  <2>1. p[1] \in Tab /\ p[2] \in Guid /\ p = <<p[1], p[2]>>
    BY Pairs
  <2>2. p \in records /\ state[p] \in Terminal => state[p] = chrome[p[2]]
    BY <1>1, <2>1 DEF IInv, BothInv, HearInv
  <2>3. p \in ended => chrome[p[2]] \in Terminal
    BY <1>1, <2>1 DEF IInv, BothInv, HearInv
  <2>4. ~shared /\ p \in ended \cap records /\ Registered(p[1])
          => state[p] = chrome[p[2]]
    BY <1>1, <2>1 DEF IInv, IsolatedInv, OwnInv
  <2> QED
    BY <2>2, <2>3, <2>4
<1>2. IInv => records \subseteq Pair
  BY DEF IInv, TypeInv, DownTypeOK
<1>3. IInv => EndIsFinal
  BY <1>1, <1>2 DEF EndIsFinal
<1> QED
  BY <1>3, InvHolds, PTL

\* Nothing is kept of a tab that is gone, but for files in a shared profile.
THEOREM NothingIsKept == DownSpec => []NothingKept
<1>1. IInv => NothingKept
  BY DEF IInv, BothInv, RouteInv, IsolatedInv, FileInv, NothingKept
<1> QED
  BY <1>1, InvHolds, PTL

\* A deleted download stays deleted, though in a shared profile other tabs
\* have records of it.
THEOREM DeletedStayDeleted == DownSpec => []StaysDeleted
<1>1. IInv => StaysDeleted
  <2> SUFFICES ASSUME IInv, NEW p \in deleted
               PROVE  /\ p \notin records
                      /\ (\A x \in Client : at[x] \in {"stopping", "unlinking"}
                            => target[x] # p) => p[2] \notin file
    BY DEF StaysDeleted
  <2>1. p \in Pair
    BY DEF IInv, TypeInv
  <2>2. p[1] \in Tab /\ p[2] \in Guid /\ p = <<p[1], p[2]>>
    BY <2>1, Pairs
  <2> QED
    BY <2>2 DEF IInv, BothInv, DeleteInv, Works
<1> QED
  BY <1>1, InvHolds, PTL

=============================================================================
