------------------------------ MODULE FileQuery ------------------------------
(***************************************************************************)
(* File Search's query line (lib.rs, parse_file_query): a name and the     *)
(* filters among its words. A line is a sequence of tokens [key, values],  *)
(* where key is "word" for anything that is no filter, values are the      *)
(* comma-separated values, and a value is a sequence of letters.           *)
(***************************************************************************)
EXTENDS Naturals, Sequences
LOCAL INSTANCE SequencesExt
LOCAL INSTANCE FiniteSetsExt

CONSTANTS
  KindExts,    \* kind -> its extensions: KIND_EXTS
  Folder,      \* the kind refused by name
  Exts         \* extensions a user may ask for

Kinds == DOMAIN KindExts

ASSUME FileQueryAssumption == Folder \notin Kinds /\ \A k \in Kinds : KindExts[k] \subseteq Exts

-----------------------------------------------------------------------------
NoKind == {}
Start == [kind |-> NoKind, exts |-> {}, path |-> <<>>, named |-> FALSE, refused |-> FALSE]

\* A kind half typed is no filter yet; an unknown one is refused.
HalfTypedRefused(value) == FALSE   \* mutant: a kind on its way is taken for an unknown one
HalfTyped(value) == \E k \in Kinds : IsPrefix(value, k)

TakeToken(q, t) ==
  LET value == IF t.values = <<>> THEN <<>> ELSE t.values[1]
  IN  CASE q.refused -> q
        [] ~q.refused /\ t.key = "word" -> [q EXCEPT !.named = TRUE]
        [] ~q.refused /\ t.key = "ext" -> [q EXCEPT !.exts = @ \cup (ToSet(t.values) \ {<<>>})]
        [] ~q.refused /\ t.key = "path" -> [q EXCEPT !.path = IF value # <<>> THEN value ELSE @]
        [] ~q.refused /\ t.key = "kind" ->
             IF value \in Kinds THEN [q EXCEPT !.kind = KindExts[value]]
             ELSE [q EXCEPT !.refused = value = Folder \/ ~HalfTyped(value)]

\* The extensions the service is sent, which it takes as alternatives.
ExtFilter(q) ==
  LET both == q.exts \cap q.kind
  IN  IF q.kind = NoKind THEN q.exts ELSE IF both # {} THEN both ELSE q.kind

Disjoint(q) ==
  /\ q.kind # NoKind /\ q.exts # {} /\ q.exts \cap q.kind = {}
  /\ ~\E e \in q.exts, k \in q.kind : IsPrefix(e, k)

ParseFileQuery(line) ==
  LET q == FoldLeft(TakeToken, Start, line)
  IN  IF q.refused \/ Disjoint(q) \/ (~q.named /\ line # <<>>)
      THEN [ok |-> FALSE, ext |-> {}, path |-> <<>>]
      ELSE [ok |-> TRUE, ext |-> ExtFilter(q), path |-> q.path]

-----------------------------------------------------------------------------
(* Properties.                                                             *)

Word == [key |-> "word", values |-> <<>>]
KindToken(k) == [key |-> "kind", values |-> <<k>>]
ExtToken(es) == [key |-> "ext", values |-> es]
ExtLists == {<<e>> : e \in Exts} \cup {<<d, e>> : d \in Exts, e \in Exts}

\* What has been typed of a token, its key and colon apart: a value is typed letter
\* by letter, and the list of extensions one by one.
Typings(t) ==
  {[t EXCEPT !.values = SubSeq(@, 1, n - 1) \o <<SubSeq(@[n], 1, Min({m, Len(@[n])}))>>] :
     n \in DOMAIN t.values, m \in 0..2}

\* Filters combine with AND: with both a kind and extensions, no file is asked for
\* that either leaves out, in whatever order they were typed; and a line that is only
\* filters is refused.
FiltersMeet ==
  \A k \in Kinds, es \in ExtLists :
    LET line   == <<Word, KindToken(k), ExtToken(es)>>
        turned == <<ExtToken(es), KindToken(k), Word>>
        asked  == KindExts[k] \cap ToSet(es)
    IN  /\ ParseFileQuery(line) = ParseFileQuery(turned)
        /\ asked # {} => ParseFileQuery(line).ok /\ ParseFileQuery(line).ext = asked
        /\ ParseFileQuery(line).ok => ParseFileQuery(line).ext \subseteq KindExts[k]
        /\ ~ParseFileQuery(Tail(line)).ok
        /\ ~ParseFileQuery(<<Word, KindToken(Folder)>>).ok

\* Typing a line that has a meaning never passes through an error: no keystroke of a
\* kind, or of extensions of that kind, blanks the list.
TypingIsQuiet ==
  \A k \in Kinds : \A es \in {l \in ExtLists : ToSet(l) \subseteq KindExts[k]} :
    \A line \in {<<Word, KindToken(k), ExtToken(es)>>, <<Word, ExtToken(es), KindToken(k)>>} :
      \A n \in 2..3 : \A t \in Typings(line[n]) :
        ParseFileQuery(SubSeq(line, 1, n - 1) \o <<t>>).ok
=============================================================================
