---------------------------- MODULE DisplayFilter ----------------------------
(***************************************************************************)
(* The display filter of lplex dump and lplex tail: an expression is read  *)
(* word by word (filter/parse.go), parsed by recursive descent and         *)
(* evaluated against a frame, its decoded fields and the device table      *)
(* (filter/filter.go, matchesDisplayFilter).                               *)
(*                                                                         *)
(* A word is what the lexer makes a token of; spelling within a word is    *)
(* left out.  A literal is its own text, so that a number compares with a  *)
(* string by that text.                                                    *)
(***************************************************************************)
EXTENDS Integers, Sequences

CONSTANTS
  Phrases,    \* the phrases typed: sequences of the words below
  Ints,       \* the words that are integers, with their values
  Strings,    \* the words that are strings, with their rank among strings and integers
  Frames,     \* frames: header, decoded fields or none, and the sender's name if known
  MaxWords    \* bound: words of an expression

VARIABLES words   \* the expression

dvars == <<words>>

HeaderFields == {"pgn", "src"}
Symbols == [and |-> {"&&", "and"}, or |-> {"||", "or"}, not |-> {"!", "not"},
            lparen |-> {"("}, rparen |-> {")"}, dot |-> {"."},
            op |-> {"==", "!=", "<", ">", "<=", ">="}]

DInit == words = <<>>
-----------------------------------------------------------------------------
(* Reading: tokens *)

TypeOf(w) ==
  IF \E t \in DOMAIN Symbols : w \in Symbols[t] THEN CHOOSE t \in DOMAIN Symbols : w \in Symbols[t]
  ELSE IF w \in DOMAIN Ints THEN "int"
  ELSE IF w \in DOMAIN Strings THEN "string"
  ELSE "ident"

Lex(ws) == [i \in 1..(Len(ws) + 1) |->
              IF i > Len(ws) THEN [typ |-> "eof", val |-> ""] ELSE [typ |-> TypeOf(ws[i]), val |-> ws[i]]]
-----------------------------------------------------------------------------
(* Parsing: every step gives the node and the next position, or the position *)
(* of the token that does not fit.                                           *)

Fail(p) == [ok |-> FALSE, at |-> p, n |-> <<>>]
Done(p, n) == [ok |-> TRUE, at |-> p, n |-> n]

\* field [. sub] op value
ParseComparison(ts, p) ==
  LET dotted == ts[p].typ = "ident" /\ ts[p + 1].typ = "dot"
      q      == IF dotted THEN p + 3 ELSE p + 1
  IN  IF ts[p].typ # "ident" THEN Fail(p)
      ELSE IF dotted /\ ts[p + 2].typ # "ident" THEN Fail(p + 2)
      ELSE IF ts[q].typ # "op" THEN Fail(q)
      ELSE IF ts[q + 1].typ \notin {"int", "string"} THEN Fail(q + 1)
      ELSE Done(q + 2, <<"comp", [field |-> ts[p].val, sub |-> IF dotted THEN ts[p + 2].val ELSE "",
                                  op |-> ts[q].val, lit |-> ts[q + 1].val]>>)

RECURSIVE ParseOr(_, _)

ParsePrimary(ts, p) ==
  IF ts[p].typ # "lparen" THEN ParseComparison(ts, p)
  ELSE LET e == ParseOr(ts, p + 1)
       IN  IF e.ok /\ ts[e.at].typ = "rparen" THEN Done(e.at + 1, e.n) ELSE Fail(e.at)

\* Mutant: the negation takes all that follows.
ParseUnary_Loose(ts, p) ==
  IF ts[p].typ # "not" THEN ParsePrimary(ts, p)
  ELSE LET e == ParseOr(ts, p + 1) IN IF e.ok THEN Done(e.at, <<"not", e.n>>) ELSE e
RECURSIVE ParseUnary(_, _)
ParseUnary(ts, p) ==
  IF ts[p].typ # "not" THEN ParsePrimary(ts, p)
  ELSE LET e == ParseUnary(ts, p + 1) IN IF e.ok THEN Done(e.at, <<"not", e.n>>) ELSE e

\* The loops of parseAnd and parseOr: the node grows to the left.
RECURSIVE AndRest(_, _)
AndRest(ts, left) ==
  IF ~left.ok \/ ts[left.at].typ # "and" THEN left
  ELSE LET right == ParseUnary(ts, left.at + 1)
       IN  IF right.ok THEN AndRest(ts, Done(right.at, <<"and", left.n, right.n>>)) ELSE right
ParseAnd(ts, p) == AndRest(ts, ParseUnary(ts, p))

RECURSIVE OrRest(_, _)
OrRest(ts, left) ==
  IF ~left.ok \/ ts[left.at].typ # "or" THEN left
  ELSE LET right == ParseAnd(ts, left.at + 1)
       IN  IF right.ok THEN OrRest(ts, Done(right.at, <<"or", left.n, right.n>>)) ELSE right
ParseOr(ts, p) == OrRest(ts, ParseAnd(ts, p))

Parse(ts) == LET e == ParseOr(ts, 1)
             IN  IF e.ok /\ ts[e.at].typ # "eof" THEN Fail(e.at) ELSE e

RECURSIVE NeedsDecode(_)
NeedsDecode(n) ==
  CASE n[1] \in {"or", "and"} -> NeedsDecode(n[2]) \/ NeedsDecode(n[3])
    [] n[1] = "not" -> NeedsDecode(n[2])
    [] n[1] = "comp" -> n[2].field \notin HeaderFields
-----------------------------------------------------------------------------
(* Evaluation *)

Related(a, op, b) ==
  CASE op = "==" -> a = b [] op = "!=" -> a # b [] op = "<" -> a < b
    [] op = ">" -> a > b [] op = "<=" -> a <= b [] op = ">=" -> a >= b

\* A number is never in relation with a string literal.
CompareNumeric(v, op, lit) == lit \in DOMAIN Ints /\ Related(v, op, Ints[lit])

\* Texts are compared by rank; a number literal by its text.
CompareString(s, op, lit) == Related(Strings[s], op, Strings[lit])

\* matchesDisplayFilter: the lookups of the decoded value and of the device table.
Lookup(f, key) == IF key = "src.name" THEN f.sender
                  ELSE IF f.decoded.kind = "none" \/ key \notin DOMAIN f.decoded.names THEN "" ELSE f.decoded.names[key]

\* evalHeaderField, the sub-accessor, evalDecodedField: what is not there is FALSE.
EvalComp(c, f) ==
  IF c.sub = "" /\ c.field \in HeaderFields THEN CompareNumeric(f.header[c.field], c.op, c.lit)
  ELSE IF c.sub # "" THEN
    LET text == Lookup(f, IF c.field = "src" /\ c.sub = "name" THEN "src.name"
                          ELSE IF c.field \in HeaderFields THEN "" ELSE c.field)
    IN  text # "" /\ CompareString(text, c.op, c.lit)
  ELSE /\ f.decoded.kind # "none" /\ c.field \in DOMAIN f.decoded.fields
       /\ LET v == f.decoded.fields[c.field]
          IN  CASE v.kind = "num" -> CompareNumeric(v.num, c.op, c.lit)
                [] v.kind = "text" -> CompareString(v.text, c.op, c.lit)
                [] v.kind = "nil" -> FALSE

RECURSIVE Eval(_, _)
Eval(n, f) ==
  CASE n[1] = "or" -> Eval(n[2], f) \/ Eval(n[3], f)
    [] n[1] = "and" -> Eval(n[2], f) /\ Eval(n[3], f)
    [] n[1] = "not" -> ~Eval(n[2], f)
    [] n[1] = "comp" -> EvalComp(n[2], f)
-----------------------------------------------------------------------------
(* The expression is typed as long as it may still become one: the parser    *)
(* reads from left to right, so that what fails before the end stays failed. *)

Type(ph) ==
  /\ Len(words) + Len(ph) <= MaxWords
  /\ Parse(Lex(words)).at = Len(words) + 1
  /\ words' = words \o ph

DNext == \E ph \in Phrases : Type(ph)
DSpec == DInit /\ [][DNext]_dvars
-----------------------------------------------------------------------------
(* Properties *)

Depth(ts, i) == LET d[k \in 0..i] == IF k = 0 THEN 0 ELSE d[k - 1] +
                      (CASE ts[k].typ = "lparen" -> 1 [] ts[k].typ = "rparen" -> -1 [] OTHER -> 0)
                IN  d[i]
\* Where a connective stands outside of all parentheses.
Top(ts, typ) == {i \in DOMAIN ts : ts[i].typ = typ /\ Depth(ts, i) = 0}

\* What an expression means, without a parser: split at a connective outside of
\* parentheses, "or" before "and", whichever is taken; then a negation; then the
\* parentheses; then one comparison.
RECURSIVE Means(_, _)
Means(ts, f) ==
  LET none == [ok |-> FALSE, v |-> FALSE]
      n == Len(ts)
      split(i, conn) ==
        LET l == Means(SubSeq(ts, 1, i - 1), f)
            r == Means(SubSeq(ts, i + 1, n), f)
        IN  [ok |-> l.ok /\ r.ok, v |-> IF conn = "or" THEN l.v \/ r.v ELSE l.v /\ r.v]
  IN  IF n = 0 THEN none
      ELSE IF Top(ts, "or") # {} THEN split(CHOOSE i \in Top(ts, "or") : TRUE, "or")
      ELSE IF Top(ts, "and") # {} THEN split(CHOOSE i \in Top(ts, "and") : TRUE, "and")
      ELSE IF ts[1].typ = "not" THEN LET e == Means(SubSeq(ts, 2, n), f) IN [ok |-> e.ok, v |-> ~e.v]
      ELSE IF ts[1].typ = "lparen" /\ ts[n].typ = "rparen" THEN Means(SubSeq(ts, 2, n - 1), f)
      ELSE IF n = 3 /\ ts[1].typ = "ident" /\ ts[2].typ = "op" /\ ts[3].typ \in {"int", "string"}
        THEN [ok |-> TRUE, v |-> EvalComp([field |-> ts[1].val, sub |-> "", op |-> ts[2].val, lit |-> ts[3].val], f)]
      ELSE IF n = 5 /\ ts[1].typ = "ident" /\ ts[2].typ = "dot" /\ ts[3].typ = "ident" /\ ts[4].typ = "op" /\ ts[5].typ \in {"int", "string"}
        THEN [ok |-> TRUE, v |-> EvalComp([field |-> ts[1].val, sub |-> ts[3].val, op |-> ts[4].val, lit |-> ts[5].val], f)]
      ELSE none

Undecoded(f) == [f EXCEPT !.decoded = [kind |-> "none"]]

\* Compile accepts the expressions of the language and no others, Match gives an
\* accepted one its meaning for every frame, and a filter that does not need the
\* frame decoded gives the same verdict without.
FilterMeans ==
  LET p == Parse(Lex(words))
      ts == SubSeq(Lex(words), 1, Len(words))
  IN  \A f \in Frames :
        LET m == Means(ts, f)
        IN  /\ p.ok = m.ok
            /\ p.ok => /\ Eval(p.n, f) = m.v
                       /\ ~NeedsDecode(p.n) => Eval(p.n, Undecoded(f)) = Eval(p.n, f)
=============================================================================
