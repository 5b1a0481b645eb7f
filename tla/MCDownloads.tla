---------------------------- MODULE MCDownloads -----------------------------
(***************************************************************************)
(* Downloads on small sets of tabs, guids and requests.                    *)
(***************************************************************************)
EXTENDS Downloads, TLC

CONSTANTS
  OneTab,        \* the tab of the instance in isolated mode
  OneGuid        \* the download of the instance in shared mode

\* Requests differ only by their names.
Symmetry == Permutations(Client)

Asking == {x \in Client : at[x] # "idle"}
TabsUsed == {t \in Tab : phase[t] # "open" \/ \E g \in Guid : by[g] = t}
              \cup {TabOf(x) : x \in Asking}
GuidsUsed == {g \in Guid : chrome[g] # "none"} \cup {GuidOf(x) : x \in Asking}

\* Tabs of isolated mode share nothing, so that one is enough; in shared mode
\* all tabs hear of one download.
Small == IF shared THEN GuidsUsed \subseteq {OneGuid}
         ELSE TabsUsed \subseteq {OneTab}

=============================================================================
