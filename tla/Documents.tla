----------------------------- MODULE Documents ------------------------------
(***************************************************************************)
(* The document of a work item as mg new files it and mg edit changes it.  *)
(* The title is read back from the first "# " line; the gh-issue workflow  *)
(* is declared by a carrier line that mg reads by one rule and dispatch by *)
(* another; the tag is derived from it.  A body is a sequence of lines, of *)
(* which only what these rules tell apart is kept.                         *)
(***************************************************************************)
EXTENDS Naturals, Sequences, FiniteSets

CONSTANTS
    None,            \* no title, value, field or text
    Title,           \* titles
    Workflow,        \* the workflow that a tag projects
    Horizon,         \* carrierReachHorizon
    Bodies,          \* the bodies a caller may file or replace one with
    Texts,           \* the texts a caller may append
    Stored,          \* items filed before the guards existed
    MaxEdits         \* bound on the edits of an item

VARIABLES
    doc,             \* body and tags as stored
    origin,          \* nothing filed, filed through the guards, or older
    named,           \* the title the last command named, if any
    edits
vars == <<doc, origin, named, edits>>

Tags == {Workflow, "free"}

\* a line: its kind, the text of a heading, and of a "key: value" line the key,
\* the value and how it is written
Plain(kind) == [kind |-> kind, text |-> None, key |-> None, val |-> None, form |-> None]
Blank == Plain("blank")
Prose == Plain("prose")
Fence == Plain("fence")
Section == Plain("section")                        \* a deeper heading
Heading(t) == [Plain("title") EXCEPT !.text = t]
Key(k, v, form) == [Plain("key") EXCEPT !.key = k, !.val = v, !.form = form]
Forms == {"plain", "indented", "tight", "sentence"}

\* Every line that these rules tell apart.
Lines == {Blank, Prose, Fence, Section} \cup {Heading(t) : t \in Title \cup {None}}
         \cup {Key(k, v, form) : k \in {"workflow", "stage", "gh"},
                                 v \in {Workflow, "other", None}, form \in Forms}

\* What is filed, appended or older is made of such lines, and "no title" is none.
DocumentsAssumption ==
    /\ None \notin Title /\ Workflow # None
    /\ Horizon \in Nat /\ MaxEdits \in Nat
    /\ Bodies \subseteq Seq(Lines) /\ Texts \subseteq Seq(Lines)
    /\ Stored \subseteq [body : Seq(Lines), tags : SUBSET Tags]

MinOf(S) == CHOOSE n \in S : \A m \in S : n <= m

(***************************************************************************)
(* The title.                                                              *)
(***************************************************************************)
Headings(b) == {i \in 1 .. Len(b) : b[i].kind = "title"}
TitleOf(b) == IF Headings(b) = {} THEN None ELSE b[MinOf(Headings(b))].text
TitleCount(b, t) == Cardinality({i \in Headings(b) : b[i].text = t})

\* the title is looked for anywhere in the body, and put above it
ComposeAnywhere(b, t) == IF TitleCount(b, t) > 0 THEN b ELSE <<Blank, Heading(t)>> \o b

\* reconcileTitleHeading: the body as it will be stored
Compose(b, t) ==
    IF Headings(b) = {} THEN <<Blank, Heading(t)>> \o b
    ELSE [b EXCEPT ![MinOf(Headings(b))] = Heading(t)]

(***************************************************************************)
(* What mg reads: leadingWorkflow.                                         *)
(***************************************************************************)
InFence(b, i) == Cardinality({j \in 1 .. i - 1 : b[j].kind = "fence"}) % 2 = 1

\* lines that do not end the leading block
Leads(line) ==
    \/ line.kind \in {"blank", "section", "title"}
    \/ line.kind = "key" /\ line.form # "tight"

Declarations(b) ==
    {i \in 1 .. Len(b) : b[i].kind = "key" /\ b[i].key = "workflow" /\ ~InFence(b, i)}
InLead(b, i) == \A j \in 1 .. i - 1 : Leads(b[j])
Declared(b) ==
    IF Declarations(b) = {} THEN None
    ELSE LET i == MinOf(Declarations(b)) IN IF InLead(b, i) THEN b[i].val ELSE None
Misplaced(b) ==
    /\ Declarations(b) # {}
    /\ LET i == MinOf(Declarations(b)) IN b[i].val = Workflow /\ ~InLead(b, i)

(***************************************************************************)
(* What dispatch reads, as findUnreachableDecls models it.                 *)
(***************************************************************************)
Decl(line) == line.kind = "key" /\ line.form = "plain"     \* parseCarrierDecl
Title1(b) == IF Headings(b) = {} THEN 0 ELSE MinOf(Headings(b))

\* the first line after the heading that the block does not reach
BlockEnd(b) ==
    LET first == Title1(b) + 1
        Stops(i) == /\ ~Decl(b[i])
                    /\ ~(b[i].kind = "blank" /\ \A j \in first .. i - 1 : b[j].kind = "blank")
    IN MinOf({i \in first .. Len(b) : Stops(i)} \cup {Len(b) + 1, first + Horizon})

InBlock(b) == IF Title1(b) = 0 THEN {} ELSE Title1(b) + 1 .. BlockEnd(b) - 1

\* declarations above the heading taken for part of the block
UnreachableBelow(b) ==
    {b[i] : i \in {i \in Title1(b) + 1 .. Len(b) \ InBlock(b) :
                     Decl(b[i]) /\ b[i].key \in {"workflow", "stage"} /\ ~InFence(b, i)}}

Unreachable(b) ==
    {b[i] : i \in {i \in 1 .. Len(b) \ InBlock(b) :
                     Decl(b[i]) /\ b[i].key \in {"workflow", "stage"} /\ ~InFence(b, i)}}

\* what the router acts on
Routed(b) ==
    LET S == {i \in InBlock(b) : Decl(b[i]) /\ b[i].key = "workflow"}
    IN IF S = {} THEN None ELSE b[MinOf(S)].val

(***************************************************************************)
(* The guards.                                                             *)
(***************************************************************************)
\* reconcileWorkflowMarkers refuses: a tag that the body does not bear out,
\* unless a pure append inherits it, and a declaration below prose
MarkersRefused(b, tags, grandfathered) ==
    \/ Misplaced(b)
    \/ /\ Workflow \in tags /\ Declared(b) # Workflow
       /\ ~(grandfathered /\ Declared(b) = None)

Derived(b, tags) == IF Declared(b) = Workflow THEN tags \cup {Workflow} ELSE tags

\* appendToBody
Trimmed(b) ==
    SubSeq(b, 1, MinOf({n \in 0 .. Len(b) : \A i \in n + 1 .. Len(b) : b[i].kind = "blank"}))
Appended(b, text) == IF Trimmed(b) = <<>> THEN text ELSE Trimmed(b) \o <<Blank>> \o text

NoField == [title |-> None, body |-> <<>>, text |-> <<>>, add |-> {}, rm |-> {}]

\* the body after --body and --append-body, before the title is written
Supplied(b, f) ==
    LET base == IF f.body = <<>> THEN b ELSE f.body
    IN IF f.text = <<>> THEN base ELSE Appended(base, f.text)
NewTitle(b, f) == IF f.title = None THEN TitleOf(b) ELSE f.title
NewBody(b, f) == Compose(Supplied(b, f), NewTitle(b, f))
NewTags(d, f) == (d.tags \cup f.add) \ f.rm

\* the last heading is taken for the title
RetitlesByLast(b, f) ==
    LET S == Supplied(b, f) IN
    /\ f.title = None /\ Headings(S) # {}
    /\ S[CHOOSE i \in Headings(S) : \A j \in Headings(S) : j <= i].text # TitleOf(b)

\* a body that would move the title, which was not named
Retitles(b, f) ==
    f.title = None /\ Headings(Supplied(b, f)) # {} /\ TitleOf(Supplied(b, f)) # TitleOf(b)

\* a second heading that says the title, where there were fewer
Doubles(b, f) ==
    LET t == NewTitle(b, f) IN
    /\ TitleCount(NewBody(b, f), t) > 1
    /\ TitleCount(NewBody(b, f), t) > TitleCount(b, t)

Grandfathered(d, f) == f.text # <<>> /\ f.body = <<>> /\ Workflow \in d.tags

Refused(d, f) ==
    \/ Retitles(d.body, f)
    \/ Doubles(d.body, f)
    \/ MarkersRefused(NewBody(d.body, f), NewTags(d, f), Grandfathered(d, f))
    \/ ~(Unreachable(NewBody(d.body, f)) \subseteq Unreachable(d.body))

Result(d, f) ==
    [body |-> NewBody(d.body, f), tags |-> Derived(NewBody(d.body, f), NewTags(d, f))]

(***************************************************************************)
(* mg new and mg edit.  A refused command changes nothing.                 *)
(***************************************************************************)
Create ==
    /\ origin = "none"
    /\ \E t \in Title, b \in Bodies \cup {<<Blank>>}, tags \in SUBSET Tags :
         /\ ~MarkersRefused(Compose(b, t), tags, FALSE)
         /\ Unreachable(Compose(b, t)) = {}
         /\ doc' = [body |-> Compose(b, t), tags |-> Derived(Compose(b, t), tags)]
         /\ named' = t
    /\ origin' = "filed" /\ edits' = 0

Edit ==
    /\ origin # "none" /\ edits < MaxEdits
    /\ \E t \in Title \cup {None}, b \in Bodies \cup {<<>>, <<Blank>>}, text \in Texts \cup {<<>>},
          add \in {{}, {Workflow}}, rm \in {{}, {Workflow}} :
         LET f == [title |-> t, body |-> b, text |-> text, add |-> add, rm |-> rm] IN
         /\ b = <<>> \/ text = <<>>
         /\ add = {} \/ rm = {}
         /\ f # NoField /\ ~Refused(doc, f)
         /\ doc' = Result(doc, f)
         /\ named' = t
    /\ edits' = edits + 1 /\ UNCHANGED origin

Init ==
    /\ named = None /\ edits = 0
    /\ \/ origin = "none" /\ doc = [body |-> <<>>, tags |-> {}]
       \/ origin = "older" /\ doc \in Stored

Next == Create \/ Edit
Spec == Init /\ [][Next]_vars

-----------------------------------------------------------------------------
(***************************************************************************)
(* Properties.                                                             *)
(***************************************************************************)
\* The type of every variable, and what was filed through the guards has one
\* heading at least to read its title from.
TypeOK ==
    /\ doc \in [body : Seq(Lines), tags : SUBSET Tags]
    /\ origin \in {"none", "filed", "older"} /\ edits \in 0 .. MaxEdits
    /\ origin = "filed" => Headings(doc.body) # {}

\* The title read back from a document moves only to the one the caller named
\* (titleheading.go: "a title is never changed as an unrequested side effect").
TitleStep ==
    TitleOf(doc'.body) = IF named' # None THEN named' ELSE TitleOf(doc.body)
TitleMovesWhenNamed == [][TitleStep]_vars

\* What mg and dispatch read differs only where these hold: the line is
\* indented or has no space after its colon, or the title is inside a fence.
ReadersDiffer(b) ==
    \/ \E i \in 1 .. Len(b) : b[i].kind = "key" /\ b[i].key = "workflow" /\ b[i].form # "plain"
    \/ InFence(b, Title1(b))

\* An item filed through the guards has the tag exactly when dispatch routes
\* it to the workflow, through any edits, with the two named exceptions
\* (workflowmarker.go: one fact, one marker; carrierplacement.go).
MarkersAgree ==
    origin = "filed" /\ ~ReadersDiffer(doc.body) =>
      (Workflow \in doc.tags <=> Routed(doc.body) = Workflow)

\* The guards never lock a filed item out of its own repair.  A correction can
\* be appended, though the item carries the tag without the carrier block, unless a
\* declaration stands below prose or the body declares another workflow
\* (writeShape); and what mg show prints can be given back: replacing the body of
\* an item filed through the guards by itself is accepted and changes nothing.
StaysEditable ==
    /\ origin # "none" /\ ~Misplaced(doc.body) /\ Declared(doc.body) = None =>
         ~Refused(doc, [NoField EXCEPT !.text = <<Prose>>])
    /\ origin = "filed" =>
         LET f == [NoField EXCEPT !.body = doc.body] IN ~Refused(doc, f) /\ Result(doc, f) = doc
=============================================================================
