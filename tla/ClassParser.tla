---------------------------- MODULE ClassParser ----------------------------
(***************************************************************************)
(* The text of a character class: compiler/verify.rs turns the bytes of a  *)
(* class such as a-z\d into tokens and the tokens into byte ranges, and    *)
(* compile_character_class of compiler/codegen.rs compiles the ranges.     *)
(* Positions in a text or token sequence count from 1.                     *)
(***************************************************************************)
EXTENDS Codegen

BACKSLASH == 92
DASH == 45

Span(lo, hi) == [lo |-> lo, hi |-> hi]
Single(b) == Span(b, b)

Token_Byte(b) == [kind |-> "byte", byte |-> b]
Token_Dash == [kind |-> "dash"]
Token_Class(ranges) == [kind |-> "class", ranges |-> ranges]

\* Ok of a scan, which collects tokens or ranges.
Items(seq) == [ok |-> TRUE, items |-> seq]

\* What stands for a byte behind a backslash: n r t \ ] [ - .
ByteEscapes ==
    (110 :> 10) @@ (114 :> 13) @@ (116 :> 9) @@ [b \in {BACKSLASH, 93, 91, DASH, 46} |-> b]

\* What stands for a set of bytes: d s w; and the negations, D S W.
ClassEscapes ==
    (100 :> <<Span(48, 57)>>)
      @@ (115 :> <<Span(9, 13), Single(32)>>)
      @@ (119 :> <<Span(97, 122), Span(65, 90), Span(48, 57), Single(95)>>)
NegatedEscapes == {68, 83, 87}

decode_character_class_escape(class, idx) ==
    LET escaped == class[idx + 1]
    IN  CASE idx + 1 > Len(class)            -> InvalidPattern("unterminated escape")
          [] escaped \in DOMAIN ByteEscapes  -> Items(<<Token_Byte(ByteEscapes[escaped])>>)
          [] escaped \in DOMAIN ClassEscapes -> Items(<<Token_Class(ClassEscapes[escaped])>>)
          [] escaped \in NegatedEscapes      -> InvalidPattern("negated escape")
          [] OTHER                           -> InvalidPattern("unknown escape")

\* The first error stands; otherwise the items of both.
Then(first, rest) ==
    IF ~first.ok THEN first ELSE IF ~rest.ok THEN rest ELSE Items(first.items \o rest.items)

-----------------------------------------------------------------------------
\* The tokens idx, idx + 1 and idx + 2 are a byte, a dash and a byte.
IsSpanShort(tokens, idx) ==
    /\ idx + 2 < Len(tokens)
    /\ tokens[idx].kind = "byte" /\ tokens[idx + 1].kind = "dash" /\ tokens[idx + 2].kind = "byte"
IsSpan(tokens, idx) ==
    /\ idx + 2 <= Len(tokens)
    /\ tokens[idx].kind = "byte" /\ tokens[idx + 1].kind = "dash" /\ tokens[idx + 2].kind = "byte"

\* A check that looks at the next token whatever the present one is.
DoubleDashLoose(tokens, idx) ==
    idx + 1 <= Len(tokens) /\ tokens[idx + 1].kind = "dash"
DoubleDash(tokens, idx) ==
    idx + 1 <= Len(tokens) /\ tokens[idx].kind = "dash" /\ tokens[idx + 1].kind = "dash"

tokens_to_ranges(tokens) ==
    LET One(token) ==
            CASE token.kind = "byte"  -> <<Single(token.byte)>>
              [] token.kind = "dash"  -> <<Single(DASH)>>
              [] token.kind = "class" -> token.ranges
        from[idx \in 1..(Len(tokens) + 1)] ==
            IF idx > Len(tokens) THEN Items(<<>>)
            ELSE IF IsSpan(tokens, idx)
                   THEN IF tokens[idx].byte > tokens[idx + 2].byte
                          THEN InvalidPattern("reversed")
                          ELSE Then(Items(<<Span(tokens[idx].byte, tokens[idx + 2].byte)>>),
                                    from[idx + 3])
            ELSE IF DoubleDash(tokens, idx)
                   THEN InvalidPattern("consecutive dashes")
                   ELSE Then(Items(One(tokens[idx])), from[idx + 1])
    IN  from[1]

\* std::str::from_utf8: which bytes may follow a lead byte, and how many do.
SecondBytes(lead) ==
    CASE lead = 224 -> 160..191
      [] lead = 237 -> 128..159
      [] lead = 240 -> 144..191
      [] lead = 244 -> 128..143
      [] lead \in (194..223) \cup (225..236) \cup {238, 239} \cup (241..243) -> 128..191
      [] OTHER -> {}
Width(lead) == IF lead < 128 THEN 1 ELSE IF lead < 224 THEN 2 ELSE IF lead < 240 THEN 3 ELSE 4

from_utf8(text) ==
    LET valid[i \in 1..(Len(text) + 1)] ==
            \/ i = Len(text) + 1
            \/ /\ i + Width(text[i]) <= Len(text) + 1
               /\ Width(text[i]) > 1 => text[i + 1] \in SecondBytes(text[i])
               /\ \A k \in 2..(Width(text[i]) - 1) : text[i + k] \in 128..191
               /\ valid[i + Width(text[i])]
    IN  valid[1]

parse_character_class(class) ==
    LET tokens[idx \in 1..(Len(class) + 2)] ==
            IF idx > Len(class) THEN Items(<<>>)
            ELSE CASE class[idx] = BACKSLASH ->
                        Then(decode_character_class_escape(class, idx), tokens[idx + 2])
                   [] class[idx] = DASH -> Then(Items(<<Token_Dash>>), tokens[idx + 1])
                   [] OTHER -> Then(Items(<<Token_Byte(class[idx])>>), tokens[idx + 1])
    IN  IF from_utf8(class) /\ \E k \in DOMAIN class : class[k] >= 128
          THEN InvalidPattern("non-ASCII")
          ELSE IF tokens[1].ok THEN tokens_to_ranges(tokens[1].items) ELSE tokens[1]

compile_character_class(class) ==
    IF class = <<>> THEN Ok(Return(0))
    ELSE LET ranges == parse_character_class(class)
         IN  IF ranges.ok THEN compile_char_class(ranges.items) ELSE ranges

-----------------------------------------------------------------------------
(* Reference: what a class text means, position by position.               *)

\* A byte behind an odd number of backslashes belongs to the escape before it.
Starts(text) ==
    LET before(i) == Max({0} \cup {j \in 1..(i - 1) : text[j] # BACKSLASH})
    IN  {i \in DOMAIN text : (i - 1 - before(i)) % 2 = 0}

EscapeAt(text, i, escapes) == text[i] = BACKSLASH /\ i < Len(text) /\ text[i + 1] \in escapes
LiteralAt(text, i) ==
    text[i] \notin {BACKSLASH, DASH} \/ EscapeAt(text, i, DOMAIN ByteEscapes)
ByteAt(text, i) == IF text[i] = BACKSLASH THEN ByteEscapes[text[i + 1]] ELSE text[i]

\* The ranges [from, to] of a text, by the starts of their ends: a dash between
\* two literals, of which the first is not the end of another range.
RangesOf(text) ==
    LET at == SetToSortSeq(Starts(text), LAMBDA i, j : i < j)
        operator[k \in DOMAIN at] ==
            /\ 1 < k /\ k < Len(at) /\ text[at[k]] = DASH
            /\ LiteralAt(text, at[k - 1]) /\ LiteralAt(text, at[k + 1])
            /\ k > 2 => ~operator[k - 2]
    IN  {[dash |-> at[k], from |-> at[k - 1], to |-> at[k + 1]] : k \in {k \in DOMAIN at : operator[k]}}

WellFormed(text) ==
    /\ ~(from_utf8(text) /\ \E i \in DOMAIN text : text[i] >= 128)
    /\ \A i \in Starts(text) :
          /\ text[i] = BACKSLASH => EscapeAt(text, i, DOMAIN ByteEscapes \cup DOMAIN ClassEscapes)
          /\ text[i] = DASH => ~(i + 1 \in Starts(text) /\ text[i + 1] = DASH)
    /\ \A r \in RangesOf(text) : ByteAt(text, r.from) <= ByteAt(text, r.to)

TextMatches(text, b) ==
    \/ \E r \in RangesOf(text) : ByteAt(text, r.from) <= b /\ b <= ByteAt(text, r.to)
    \/ \E i \in Starts(text) :
          \/ LiteralAt(text, i) /\ ByteAt(text, i) = b
          \/ text[i] = DASH /\ b = DASH /\ ~\E r \in RangesOf(text) : r.dash = i
          \/ /\ EscapeAt(text, i, DOMAIN ClassEscapes)
             /\ \E k \in DOMAIN ClassEscapes[text[i + 1]] :
                   ClassEscapes[text[i + 1]][k].lo <= b /\ b <= ClassEscapes[text[i + 1]][k].hi
=============================================================================
