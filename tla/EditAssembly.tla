---------------------------- MODULE EditAssembly ----------------------------
(***************************************************************************)
(* The trusted assemblers that turn a model's edits into a candidate: line *)
(* anchors and typed guards (app/structured_anchors.py, as the provider    *)
(* calls it, with model_strict and model_split) and unique text            *)
(* replacements (app/structured_revision.py).  A state is a source with a  *)
(* reply of some edits; a step adds an edit to the reply.  A replacement   *)
(* is one complete line or a comment: a string or a bracket opened on one  *)
(* replaced line and closed on another is not modelled.                    *)
(***************************************************************************)
EXTENDS Naturals, Sequences, SequencesExt, FiniteSets, FiniteSetsExt

CONSTANTS
  MaxLines,   \* bound: lines of the function below its signature
  MaxText,    \* bound: tokens of a source for the text replacements
  MaxEdits    \* edits of a reply: 6 in the code

ASSUME AssemblyAssumption == MaxLines \in Nat \ {0} /\ MaxText \in Nat \ {0} /\ MaxEdits \in Nat

VARIABLES
  asmForm,    \* which assembler the reply is for
  asmSource,  \* the rejected candidate
  asmReply    \* the edits of the reply

asmVars == <<asmForm, asmSource, asmReply>>

---------------------------------------------------------------------------
\* Lines and anchors.

\* A line: its indentation, what it is, whether its suite follows on the next
\* lines (an inline clause has it on the same one), and whether its text ends
\* with a colon, which a trailing comment can decide either way.  A for loop
\* behaves as an if that nothing continues.
Kinds == {"if", "elif", "else", "stmt", "comment"}
LineForms == {f \in [kind : Kinds, heads : BOOLEAN, colon : BOOLEAN] :
                f.kind \in {"stmt", "comment"} => ~f.heads}

Continues(line) == line.kind \in {"elif", "else"}

\* The header whose suite the line i is in, and the clause that an elif or
\* else at i continues.
Parent(s, i) ==
  LET outer == {j \in 1..(i - 1) : s[j].depth < s[i].depth}
  IN IF outer = {} THEN 0 ELSE Max(outer)

Owner(s, i) ==
  LET level == {j \in 1..(i - 1) : /\ s[j].depth = s[i].depth
                                   /\ \A k \in j..i : s[k].depth >= s[i].depth}
  IN IF level = {} THEN 0 ELSE Max(level)

\* Indentation and clauses fit together, as Python's grammar asks.
WellFormed(s) ==
  /\ s # << >> /\ s[1].depth = 1
  /\ \A i \in DOMAIN s :
       /\ s[i].heads => i < Len(s) /\ s[i + 1].depth = s[i].depth + 1
       /\ ~s[i].heads /\ i < Len(s) => s[i + 1].depth <= s[i].depth
       /\ Continues(s[i]) => Owner(s, i) # 0 /\ s[Owner(s, i)].kind \in {"if", "elif"}

\* The source comes out of ast.unparse: no comments, no inline clauses.
SourceLines == {l \in [depth : {1, 2}, kind : Kinds \ {"comment"}, heads : BOOLEAN, colon : BOOLEAN] :
                  l.heads = l.colon /\ l.heads = (l.kind # "stmt")}
CandidateFunctions == {s \in UNION {[1..n -> SourceLines] : n \in 1..MaxLines} : WellFormed(s)}

\* An edit replaces its line by one of any form, or puts a guard before it.
Guard == [kind |-> "guard", heads |-> TRUE, colon |-> TRUE]
AnchorEdits == [anchor : 1..(MaxLines + 1), form : LineForms \cup {Guard}]

\* Fault: a guard may go before any line.
AnyLineAnchor(s, i) == i \in DOMAIN s

\* Where a guard may go: the start of a statement, never an else or an elif.
StatementAnchor(s, i) == i \in DOMAIN s /\ ~Continues(s[i])

\* One replaced line keeps whether its text ends with a colon; a guard needs a
\* statement; no two edits of one kind share a line.
AnchorsAccepted(s, reply) ==
  /\ Len(reply) \in 1..MaxEdits
  /\ \A e \in Range(reply) :
       /\ e.anchor \in DOMAIN s
       /\ IF e.form = Guard THEN StatementAnchor(s, e.anchor) ELSE e.form.colon = s[e.anchor].colon
  /\ \A i, j \in DOMAIN reply :
       i # j /\ reply[i].anchor = reply[j].anchor => (reply[i].form = Guard) # (reply[j].form = Guard)

\* Replacements take the indentation of their line, and a guard is put in front
\* of whatever the line has become.
AssembledLine(s, reply, i) ==
  LET at == {e.form : e \in {e \in Range(reply) : e.anchor = i}}
      form == IF at \ {Guard} = {} THEN s[i] ELSE CHOOSE f \in at \ {Guard} : TRUE
      Put(depth, kind, heads, guard) ==
        [depth |-> depth, kind |-> kind, heads |-> heads, anchor |-> i, guard |-> guard]
  IN (IF Guard \in at
        THEN <<Put(s[i].depth, "if", TRUE, TRUE), Put(s[i].depth + 1, "stmt", FALSE, TRUE)>> ELSE << >>)
     \o <<Put(s[i].depth, form.kind, form.heads, FALSE)>>

\* The assembled function; the parser does not see its comments.
AssembleAnchors(s, reply) ==
  SelectSeq(FlattenSeq([i \in DOMAIN s |-> AssembledLine(s, reply, i)]),
            LAMBDA line : line.kind # "comment")

\* A reply that makes a candidate: accepted, and what it assembles to parses.
AnchorsRendered(s, reply) == AnchorsAccepted(s, reply) /\ WellFormed(AssembleAnchors(s, reply))

---------------------------------------------------------------------------
\* Unique text replacements.  The first token stands for the signature line.

Texts == {<<"sig">> \o t : t \in UNION {[1..n -> {"a", "b"}] : n \in 1..MaxText}}
TextEdits == [old : UNION {[1..n -> {"a", "b", "sig"}] : n \in 1..2},
              new : {<< >>, <<"a">>, <<"b", "b">>}]

StartsAt(t, old) == {i \in 1..(Len(t) - Len(old) + 1) : SubSeq(t, i, i + Len(old) - 1) = old}

\* str.count counts occurrences that do not overlap, from the left; with one or
\* two tokens it sees a single one when no two are that far apart.
CountsOnce(t, old) ==
  /\ StartsAt(t, old) # {}
  /\ \A i, j \in StartsAt(t, old) : j < i + Len(old)

Span(t, e) == LET i == Min(StartsAt(t, e.old)) IN [start |-> i, stop |-> i + Len(e.old), new |-> e.new]

TextAccepted(t, reply) ==
  /\ Len(reply) \in 1..MaxEdits
  /\ \A e \in Range(reply) : /\ e.old # e.new /\ CountsOnce(t, e.old)
                             /\ Span(t, e).start >= 2
  /\ \A i, j \in DOMAIN reply :
       i < j => \/ Span(t, reply[i]).stop <= Span(t, reply[j]).start
                \/ Span(t, reply[j]).stop <= Span(t, reply[i]).start

Splice(t, span) == SubSeq(t, 1, span.start - 1) \o span.new \o SubSeq(t, span.stop, Len(t))

SpansSorted(t, reply) ==
  SetToSortSeq({Span(t, e) : e \in Range(reply)}, LAMBDA x, y : x.start < y.start)

\* Fault: the replacements are made from the first to the last.
ApplyForwards(t, reply) == FoldLeft(Splice, t, SpansSorted(t, reply))

\* The replacements are made from the last to the first, so that the offsets
\* of the earlier ones stay right.
ApplyLocalEdits(t, reply) == FoldLeft(Splice, t, Reverse(SpansSorted(t, reply)))

\* Reference: every token outside the replaced stretches stays, and each
\* stretch becomes its new text where it began.
SimultaneousReplacement(t, reply) ==
  LET spans == {Span(t, e) : e \in Range(reply)}
      At(i) == IF \E s \in spans : s.start = i THEN (CHOOSE s \in spans : s.start = i).new
               ELSE IF \E s \in spans : s.start < i /\ i < s.stop THEN << >>
               ELSE <<t[i]>>
  IN FlattenSeq([i \in DOMAIN t |-> At(i)])

---------------------------------------------------------------------------
AssemblyInit ==
  /\ asmReply = << >>
  /\ \/ asmForm = "anchors" /\ asmSource \in CandidateFunctions
     \/ asmForm = "text" /\ asmSource \in Texts

\* The model may answer with any edits: those that cannot be accepted too.
ReplyEdit(e) ==
  /\ Len(asmReply) < MaxEdits
  /\ asmReply' = Append(asmReply, e)
  /\ UNCHANGED <<asmForm, asmSource>>

AssemblyNext ==
  \/ asmForm = "anchors" /\ \E e \in AnchorEdits : ReplyEdit(e)
  \/ asmForm = "text" /\ \E e \in TextEdits : ReplyEdit(e)

---------------------------------------------------------------------------
\* Where the line i of the source is in the assembled function, if it is there.
Images(result, i) == {k \in DOMAIN result : result[k].anchor = i /\ ~result[k].guard}

\* An accepted reply of line edits keeps the blocks of what stays: a line that
\* is still code, under a header that is still code, is in the suite of that
\* header, and an elif or else that still is one continues the clause it
\* continued, never a guard put in front of it.  What the code does not exclude,
\* since it compares the last characters of two lines: an opener that becomes a
\* comment leaves its suite to another header, and one that becomes an elif or
\* else continues what is before it, a guard for the same line too.
BlocksKept ==
  asmForm = "anchors" /\ AnchorsRendered(asmSource, asmReply) =>
    LET result == AssembleAnchors(asmSource, asmReply) IN
    \A i \in DOMAIN asmSource : \A k \in Images(result, i) :
      /\ \A p \in Images(result, Parent(asmSource, i)) : Parent(result, k) = p
      /\ Continues(asmSource[i]) /\ Continues(result[k]) =>
           \A o \in Images(result, Owner(asmSource, i)) : Owner(result, k) = o

\* An accepted reply of text replacements is applied as one simultaneous
\* replacement, whatever order and lengths its edits have.
EditsSimultaneous ==
  asmForm = "text" /\ TextAccepted(asmSource, asmReply) =>
    ApplyLocalEdits(asmSource, asmReply) = SimultaneousReplacement(asmSource, asmReply)
=============================================================================
