------------------------------ MODULE CssomFold -----------------------------
(***************************************************************************)
(* fold_cssom of cssom.py on one frame: the serialised HTML and the walk   *)
(* that extracts style sheets are two reads of a page that changes between *)
(* them; apply_css_plan puts each sheet where the walk says it was found,  *)
(* or refuses.                                                             *)
(*                                                                         *)
(* A document says what stands in each place: <<"light", e>> holds the     *)
(* children of element e, <<"shadow", h>> those of h's shadow root, which  *)
(* the HTML shows as a <template>, the first child of h.  A sheet is named *)
(* by the place it belongs in: that of its <style> element, the shadow     *)
(* root that adopted it, or the root element for the document's own.       *)
(***************************************************************************)
EXTENDS Naturals, Sequences, FiniteSets, SequencesExt

CONSTANTS
  Root,          \* the root element
  Style,         \* <style> elements
  Host,          \* elements with a shadow root
  Closed,        \* those whose shadow root is closed to the page's scripts
  Plain,         \* elements of any other kind
  Readable,      \* the styles with a sheet whose rules can be read
  Adopting,      \* hosts whose shadow root adopted a sheet; Root: the document
  MaxAttempts,   \* values of max_attempts
  MaxElements,   \* bound on the elements of the page, the root aside
  NoDocument

Element == {Root} \cup Style \cup Host \cup Plain

ASSUME FoldAssumption ==
  /\ Root \notin Style
  /\ Closed \subseteq Host
  /\ Readable \subseteq Style
  /\ Adopting \subseteq Host \cup {Root}
  /\ MaxAttempts \subseteq Nat

Light(e) == <<"light", e>>
Shadow(h) == <<"shadow", h>>
Place == {Light(e) : e \in Element} \cup {Shadow(h) : h \in Host}

VARIABLES
  dom,           \* the page
  html,          \* last_html, as the document it shows
  max_attempts,
  attempt,
  at,            \* the await fold_cssom is in, or what it has returned
  into,          \* the places the sheets were spliced into
  fallback       \* the sheets it returned for the viewer to place

vars == <<dom, html, max_attempts, attempt, at, into, fallback>>

----------------------------------------------------------------------------
(* Paths, keys and signatures of a document                                *)

\* The place element e stands in, and those that are in the page.
Holds(d, p, e) == Contains(d[p], e)
Present(d) == {Root} \cup UNION {ToSet(d[p]) : p \in Place}
HolderOf(d, e) == CHOOSE p \in Place : Holds(d, p, e)
IndexOf(d, e) == CHOOSE i \in 1..Len(d[HolderOf(d, e)]) : d[HolderOf(d, e)][i] = e

\* Two readers: getOuterHTML shows all shadow roots, EXTRACT_JS the open ones.
RootsOf(reader) == IF reader = "html" THEN Host ELSE Host \ Closed

\* Fault: the walk does not count the <template> of a shadow root.
Offset_HtmlOnly(p, reader) ==
  IF p[1] = "light" /\ p[2] \in Host /\ reader = "html" THEN 1 ELSE 0

\* The <template> stands before the light children.
Offset(p, reader) ==
  IF p[1] = "light" /\ p[2] \in RootsOf(reader) THEN 1 ELSE 0

\* The path of element indexes to each element, as the reader counts them.
PathTo(d, reader) ==
  LET path[e \in Present(d)] ==
        IF e = Root THEN <<>>
        ELSE LET p == HolderOf(d, e)
             IN path[p[2]] \o (IF p[1] = "shadow" THEN <<1>> ELSE <<>>)
                           \o <<IndexOf(d, e) + Offset(p, reader)>>
  IN path

\* What the reader sees: nothing that is inside another shadow root.
Seen(d, reader) ==
  LET seen[e \in Present(d)] ==
        e = Root \/ LET p == HolderOf(d, e)
                    IN seen[p[2]] /\ (p[1] = "shadow" => p[2] \in RootsOf(reader))
  IN {e \in Present(d) : seen[e]}

\* The key of a style: the path of what holds it, and its number among the
\* styles there.
Key(d, reader, s) ==
  <<Front(PathTo(d, reader)[s]),
    Cardinality({t \in Style : /\ Holds(d, HolderOf(d, s), t)
                               /\ IndexOf(d, t) <= IndexOf(d, s)})>>

\* Document order of two paths.
Before(p, q) ==
  \/ IsStrictPrefix(p, q)
  \/ \E k \in (1..Len(p)) \cap (1..Len(q)) :
       SubSeq(p, 1, k - 1) = SubSeq(q, 1, k - 1) /\ p[k] < q[k]

StylesInOrder(d, reader) ==
  LET styles == Seen(d, reader) \cap Style
      path == PathTo(d, reader)
  IN CHOOSE order \in [1..Cardinality(styles) -> styles] :
       \A i, j \in DOMAIN order : i < j => Before(path[order[i]], path[order[j]])

\* The keys of all styles in document order.
Signature(d, reader) ==
  LET styles == StylesInOrder(d, reader)
  IN [i \in DOMAIN styles |-> Key(d, reader, styles[i])]

----------------------------------------------------------------------------
(* The two reads and the splice                                            *)

\* The sheets of the plan: of each style, of each open shadow root, and of
\* the document.
Plan(d) ==
  {Light(s) : s \in Seen(d, "walk") \cap Readable}
    \cup {Shadow(h) : h \in Seen(d, "walk") \cap RootsOf("walk") \cap Adopting}
    \cup {Light(r) : r \in {Root} \cap Adopting}

\* Where the HTML h has what the plan of d says of sheet x: the style with
\* its key; the element, or template, with its path; the end of the document.
Target(h, d, x) ==
  LET path == PathTo(h, "html")
  IN IF x = Light(Root) THEN {x}
     ELSE IF x[1] = "light"
     THEN {Light(s) : s \in {t \in Present(h) \cap Style :
             Key(h, "html", t) = Key(d, "walk", x[2])}}
     ELSE LET p == Append(PathTo(d, "walk")[x[2]], 1)
          IN {Light(e) : e \in {f \in Present(h) : path[f] = p}}
               \cup {Shadow(g) : g \in {f \in Present(h) \cap Host :
                                          Append(path[f], 1) = p}}

\* Fault: the signatures are compared by length only.
Agree_Length(h, d) ==
  Len(Signature(h, "html")) = Len(Signature(d, "walk"))

\* The consistency gate.
Agree(h, d) == Signature(h, "html") = Signature(d, "walk")

\* apply_css_plan returns a result rather than None.
Applies(h, d) ==
  \/ Plan(d) = {} /\ Signature(d, "walk") = <<>>
  \/ Agree(h, d) /\ \A x \in Plan(d) : Target(h, d, x) # {}

Splice(h, d) == [x \in Plan(d) |-> CHOOSE p \in Place : p \in Target(h, d, x)]

----------------------------------------------------------------------------
(* fold_cssom                                                              *)

Returned == at \in {"folded", "dumped", "raw", "failed"}

FoldInit ==
  /\ dom = [p \in Place |-> <<>>]
  /\ html = NoDocument
  /\ max_attempts \in MaxAttempts
  /\ attempt = 0
  /\ at = "starting"
  /\ into = <<>>
  /\ fallback = {}

Returns(what) == at' = what /\ UNCHANGED <<dom, max_attempts, attempt>>

Start ==
  /\ at = "starting"
  /\ at' = "serializing"
  /\ UNCHANGED <<dom, html, max_attempts, attempt, into, fallback>>

Serialize ==
  /\ at = "serializing"
  /\ html' = dom
  /\ at' = "extracting"
  /\ UNCHANGED <<dom, max_attempts, attempt, into, fallback>>

\* None or an exception: the HTML of an earlier attempt, if there is one.
SerializeFails ==
  /\ at = "serializing"
  /\ Returns(IF html = NoDocument THEN "failed" ELSE "raw")
  /\ UNCHANGED <<html, into, fallback>>

ExtractRaises ==
  /\ at = "extracting"
  /\ Returns("raw")
  /\ UNCHANGED <<html, into, fallback>>

\* The plan is made and, with nothing in between, applied.
Folds ==
  /\ at = "extracting"
  /\ max_attempts > 0
  /\ Applies(html, dom)
  /\ into' = Splice(html, dom)
  /\ Returns("folded")
  /\ UNCHANGED <<html, fallback>>

Refused == max_attempts = 0 \/ ~ Applies(html, dom)

LastAttempt == attempt + 1 >= max_attempts

\* The sheets of the last plan, for want of a splice.
Dumps ==
  /\ at = "extracting"
  /\ Refused
  /\ LastAttempt
  /\ fallback' = Plan(dom)
  /\ Returns("dumped")
  /\ UNCHANGED <<html, into>>

Retries ==
  /\ at = "extracting"
  /\ Refused
  /\ ~ LastAttempt
  /\ attempt' = attempt + 1
  /\ at' = "sleeping"
  /\ UNCHANGED <<dom, html, max_attempts, into, fallback>>

Wakes ==
  /\ at = "sleeping"
  /\ at' = "serializing"
  /\ UNCHANGED <<dom, html, max_attempts, attempt, into, fallback>>

----------------------------------------------------------------------------
(* The page                                                                *)

CanHold(d) == {Light(e) : e \in Present(d) \ Style}
                \cup {Shadow(h) : h \in Present(d) \cap Host}

Changes(d) ==
  /\ ~ Returned
  /\ dom' = d
  /\ UNCHANGED <<html, max_attempts, attempt, at, into, fallback>>

Insert(e, p, i) ==
  /\ e \notin Present(dom)
  /\ Cardinality(Present(dom)) <= MaxElements
  /\ p \in CanHold(dom)
  /\ i \in 1..(Len(dom[p]) + 1)
  /\ Changes([dom EXCEPT ![p] = InsertAt(@, i, e)])

\* Element e and all that is in it.
Within(d, e) ==
  LET within[f \in Present(d)] ==
        f = e \/ (f # Root /\ within[HolderOf(d, f)[2]])
  IN {f \in Present(d) : within[f]}

Delete(e) ==
  /\ e \in Present(dom) \ {Root}
  /\ LET within == Within(dom, e)
     IN Changes([p \in Place |->
                   IF p = HolderOf(dom, e) THEN RemoveAt(dom[p], IndexOf(dom, e))
                   ELSE IF p[2] \in within THEN <<>>
                   ELSE dom[p]])

PageChanges ==
  \/ \E e \in Element, p \in Place : \E i \in 1..(Len(dom[p]) + 1) : Insert(e, p, i)
  \/ \E e \in Element : Delete(e)

FoldGoes ==
  \/ Start
  \/ Serialize
  \/ SerializeFails
  \/ ExtractRaises
  \/ Folds
  \/ Dumps
  \/ Retries
  \/ Wakes

FoldNext == FoldGoes \/ PageChanges

FoldSpec == FoldInit /\ [][FoldNext]_vars

----------------------------------------------------------------------------
(* Properties                                                              *)

\* A splice that was made although the page changed puts the rules of a style
\* into that style, if the styles there are, and their order, are the same in
\* both reads.
StylesInPlace ==
  at = "folded" /\ StylesInOrder(html, "html") = StylesInOrder(dom, "walk")
    => \A s \in Style : Light(s) \in DOMAIN into => into[Light(s)] = Light(s)

\* A page that was the same at both reads is folded, if it has no closed
\* shadow root: every sheet is spliced in, where it belongs.
StillPageFolds ==
  at \in {"folded", "dumped"} /\ max_attempts > 0
    /\ html = dom /\ Present(dom) \cap Closed = {}
    => at = "folded" /\ into = [x \in Plan(dom) |-> x]

\* cssom.py:15, docs/superpowers/specs/2026-05-31-cssom-fold-robustness-
\* design.md: the signature covers the containers of adopted sheets, so that
\* none is spliced into the wrong one.
AdoptedInPlace ==
  at = "folded" => \A h \in Host : Shadow(h) \in DOMAIN into =>
                     into[Shadow(h)] = Shadow(h)

=============================================================================
