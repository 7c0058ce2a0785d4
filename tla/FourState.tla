----------------------------- MODULE FourState -----------------------------
(***************************************************************************)
(* Four-state values and the expressions over them: the expression         *)
(* language of stream and event configurations (stream_expr.cpp,           *)
(* expression.cpp), user literals and the rendering of values              *)
(* (logic_value.cpp), and value filters (value_filter.cpp).                *)
(*                                                                         *)
(* A bit string is a sequence over 0, 1, x and z with the most significant *)
(* bit first, as in the code.  Text is abstracted to tokens: an expression *)
(* is a sequence of tokens (signals and literals are single tokens), a     *)
(* literal is its width, radix and digits.                                 *)
(***************************************************************************)
EXTENDS Integers, Sequences, FiniteSets, SequencesExt

KnownBit == {"0", "1"}

Rep(c, n) == [i \in 1 .. n |-> c]
Last_(s, n) == SubSeq(s, Len(s) - n + 1, Len(s))
BitVal(c) == IF c = "1" THEN 1 ELSE 0

----------------------------------------------------------------------------
(* Conversions between digits and bits.                                    *)

has_xz_bits(bits) == \E i \in DOMAIN bits : bits[i] \notin KnownBit

\* The value of a known bit string.
ToNat(bits) == FoldLeft(LAMBDA acc, c : 2 * acc + BitVal(c), 0, bits)

\* The shortest bit string of n; zero is one bit wide.
dec_to_bits(n) ==
    LET width == CHOOSE w \in 1 .. 16 : n < 2^w /\ (w = 1 \/ n >= 2^(w - 1))
    IN  [i \in 1 .. width |->
            IF (n \div 2^(width - i)) % 2 = 1 THEN "1" ELSE "0"]

\* The digits of a number are integers; these two stand for x and z.
DigitX == -1
DigitZ == -2

\* One hex digit: 0..15 is four bits, x and z are repeated four times.
nibble(d) == CASE d = DigitX -> Rep("x", 4)
               [] d = DigitZ -> Rep("z", 4)
               [] OTHER -> [i \in 1 .. 4 |->
                               IF (d \div 2^(4 - i)) % 2 = 1 THEN "1" ELSE "0"]

hex_to_bits(digits) ==
    IF digits = <<>> THEN <<"0">>
    ELSE FlattenSeq([i \in DOMAIN digits |-> nibble(digits[i])])

bits_to_hex(bits) ==
    LET padded == Rep("0", (4 - (Len(bits) % 4)) % 4) \o bits
        digit(k) == LET n == SubSeq(padded, 4 * k - 3, 4 * k)
                    IN  CASE \E i \in 1 .. 4 : n[i] = "x" -> DigitX
                          [] (\E i \in 1 .. 4 : n[i] = "z")
                             /\ ~ (\E i \in 1 .. 4 : n[i] = "x") -> DigitZ
                          [] OTHER -> ToNat(n)
    IN  [k \in 1 .. (Len(padded) \div 4) |-> digit(k)]

\* Zero-extends or keeps the low bits.
fit(bits, width) ==
    IF width <= 0 THEN bits
    ELSE IF Len(bits) < width THEN Rep("0", width - Len(bits)) \o bits
    ELSE Last_(bits, width)

----------------------------------------------------------------------------
(* Literals and logic values.                                              *)

Invalid == [valid |-> FALSE, bits |-> <<>>, width |-> 0, rel |-> FALSE]

\* The bits of a literal's digits; a decimal is given by its value.
radix_bits(radix, digits) ==
    CASE radix = "b" -> IF digits = <<>> THEN <<"0">> ELSE digits
      [] radix = "d" -> dec_to_bits(digits[1])
      [] OTHER -> hex_to_bits(digits)

\* An unsized binary literal is as wide as it is written; other unsized
\* literals have no reliable width.  x and z are refused in a decimal.
from_body(radix, digits, width) ==
    IF radix = "d" /\ digits[1] \in {DigitX, DigitZ} THEN Invalid
    ELSE LET bits == radix_bits(radix, digits)
         IN  [valid |-> TRUE, bits |-> fit(bits, width),
              width |-> CASE width > 0 -> width
                          [] width <= 0 /\ radix = "b" -> Len(bits)
                          [] OTHER -> 0,
              rel |-> width > 0 \/ radix = "b"]

\* A user literal: a sized or unsized SystemVerilog literal or a decimal.
\* The C prefix 0x is refused.
parse_user_logic_literal(lit) ==
    CASE lit.form = "empty" \/ lit.form = "c_hex" -> Invalid
      [] lit.form = "sv" -> from_body(lit.radix, lit.digits, lit.width)
      [] OTHER -> from_body("d", lit.digits, 0)

\* A value read from the waveform: only a declared width is reliable.
logic_value_from_fsdb_raw(bits, width_hint) ==
    LET v == from_body("b", bits, width_hint)
    IN  IF width_hint > 0 THEN v ELSE [v EXCEPT !.width = 0, !.rel = FALSE]

logic_value_from_bits(bits) == from_body("b", bits, Len(bits))

known(v) == v.valid /\ ~has_xz_bits(v.bits)
logic_value_has_xz(v) == ~known(v)

\* The text form of a value: hex by default; a decimal that cannot keep its
\* X or Z bits is rendered in binary instead.
render_logic_value(v, format) ==
    LET sv(radix, digits) == [form |-> "sv", radix |-> radix, digits |-> digits,
                              width |-> IF v.rel THEN v.width ELSE 0]
    IN  CASE format = "bin" -> sv("b", v.bits)
          [] format = "dec" /\ known(v) -> sv("d", <<ToNat(v.bits)>>)
          [] format = "dec" /\ ~known(v) -> sv("b", v.bits)
          [] OTHER -> sv("h", bits_to_hex(v.bits))

\* Hex digits without leading zeros; no key for a value with X or Z.
logic_value_compare_key(v) ==
    IF ~known(v) THEN <<>>
    ELSE LET h == bits_to_hex(v.bits)
             first == {i \in DOMAIN h : h[i] # 0}
         IN  IF first = {} THEN <<0>>
             ELSE SubSeq(h, CHOOSE i \in first : \A j \in first : i <= j, Len(h))

----------------------------------------------------------------------------
(* Expressions: the parser and the evaluation of its tree.                 *)

\* The binary operators by level, loosest first.
BinaryLevels == << {"||"}, {"&&"}, {"|"}, {"^"}, {"&"},
                   {"==", "!=", ">=", "<=", ">", "<"} >>
Reserved == UNION {BinaryLevels[l] : l \in DOMAIN BinaryLevels}
            \cup {"!", "~", "(", ")", "{", "}", ",", "[", "]", ":"}

\* What a parser returns: the tree, the position after it, and whether it
\* met an error.
Parsed(node, pos) == [ok |-> TRUE, node |-> node, pos |-> pos]
ParseError == [ok |-> FALSE, node |-> "none", pos |-> 0]
At(toks, pos) == IF pos <= Len(toks) THEN toks[pos] ELSE "end"

RECURSIVE parse_level(_, _, _), parse_rest(_, _, _), parse_unary(_, _),
          parse_items(_, _, _)

\* The integers an index token can spell.
IndexTokens == [i0 |-> 0, i1 |-> 1, i2 |-> 2]
LiteralTokens == {"i0", "i1", "i2", "i9", "lx"}

\* A signal, possibly with a bit or part select.
signal_or_select(toks, pos) ==
    LET name == toks[pos]
        sig == [kind |-> "Signal", text |-> name]
        sel(l, r) == [kind |-> "Select", left |-> l, right |-> r, a |-> sig]
        l == At(toks, pos + 2)
        r == At(toks, pos + 4)
    IN  CASE At(toks, pos + 1) # "[" -> Parsed(sig, pos + 1)
          [] At(toks, pos + 1) = "[" /\ l \in DOMAIN IndexTokens
             /\ At(toks, pos + 3) = "]" ->
                Parsed(sel(IndexTokens[l], IndexTokens[l]), pos + 4)
          [] At(toks, pos + 1) = "[" /\ l \in DOMAIN IndexTokens
             /\ At(toks, pos + 3) = ":" /\ r \in DOMAIN IndexTokens
             /\ At(toks, pos + 5) = "]" ->
                Parsed(sel(IndexTokens[l], IndexTokens[r]), pos + 6)
          [] OTHER -> ParseError

parse_primary(toks, pos) ==
    LET t == At(toks, pos) IN
    CASE t = "(" ->
            LET in == parse_level(toks, pos + 1, 1)
            IN  IF in.ok /\ At(toks, in.pos) = ")"
                THEN Parsed(in.node, in.pos + 1) ELSE ParseError
      [] t = "{" -> parse_items(toks, pos + 1, <<>>)
      [] t \in LiteralTokens -> Parsed([kind |-> "Literal", text |-> t], pos + 1)
      [] t \in Reserved \cup {"end"} -> ParseError
      [] OTHER -> signal_or_select(toks, pos)

\* The members of a concatenation, after its opening brace.
parse_items(toks, pos, items) ==
    LET in == parse_level(toks, pos, 1) IN
    CASE ~in.ok -> ParseError
      [] in.ok /\ At(toks, in.pos) = "}" ->
            Parsed([kind |-> "Concat", items |-> Append(items, in.node)],
                   in.pos + 1)
      [] in.ok /\ At(toks, in.pos) = "," ->
            parse_items(toks, in.pos + 1, Append(items, in.node))
      [] OTHER -> ParseError

parse_unary(toks, pos) ==
    LET t == At(toks, pos) IN
    IF t \in {"!", "~"}
    THEN LET in == parse_unary(toks, pos + 1)
         IN  IF in.ok THEN Parsed([kind |-> "Unary", op |-> t, a |-> in.node],
                                  in.pos)
             ELSE ParseError
    ELSE parse_primary(toks, pos)

\* One level of binary operators: an operand of the next level, then as many
\* operators of this level as follow, grouped to the left.
parse_level(toks, pos, level) ==
    IF level > Len(BinaryLevels) THEN parse_unary(toks, pos)
    ELSE parse_rest(toks, level, parse_level(toks, pos, level + 1))

parse_rest(toks, level, lhs) ==
    IF ~lhs.ok \/ At(toks, lhs.pos) \notin BinaryLevels[level] THEN lhs
    ELSE LET rhs == parse_level(toks, lhs.pos + 1, level + 1)
             both == [kind |-> "Binary", op |-> toks[lhs.pos],
                      a |-> lhs.node, b |-> rhs.node]
         IN  IF rhs.ok THEN parse_rest(toks, level, Parsed(both, rhs.pos))
             ELSE ParseError

\* The whole text must be consumed.
parse(toks) ==
    LET p == parse_level(toks, 1, 1)
    IN  IF p.ok /\ p.pos = Len(toks) + 1 THEN p ELSE ParseError

\* A value inside an expression; an error ends the evaluation.
SV(bits, k, rel) == [ok |-> TRUE, bits |-> bits, known |-> k, rel |-> rel]
UnknownSV == SV(<<"x">>, FALSE, TRUE)
EvalError == [ok |-> FALSE, bits |-> <<"x">>, known |-> FALSE, rel |-> TRUE]
one_bit(b) == SV(<<IF b THEN "1" ELSE "0">>, TRUE, TRUE)

stream_value_truthy(v, unknown_default) ==
    IF ~v.known THEN unknown_default
    ELSE \E i \in DOMAIN v.bits : v.bits[i] = "1"

\* A value of the waveform: its text is bits, possibly with a prefix.
expression_value_from_raw(bits) == SV(bits, ~has_xz_bits(bits), TRUE)

literal_value(lit) ==
    LET bits == fit(radix_bits(lit.radix, lit.digits), lit.width)
    IN  SV(bits, ~has_xz_bits(bits), lit.width > 0)

Literals == [ i0 |-> [radix |-> "d", digits |-> <<0>>, width |-> 0],
              i1 |-> [radix |-> "b", digits |-> <<"1">>, width |-> 1],
              i2 |-> [radix |-> "h", digits |-> <<2>>, width |-> 3],
              i9 |-> [radix |-> "d", digits |-> <<9>>, width |-> 0],
              lx |-> [radix |-> "b", digits |-> <<"x">>, width |-> 2] ]

bit_not(c) == CASE c = "0" -> "1" [] c = "1" -> "0" [] OTHER -> "x"

\* Mutated: an unknown operand counts as 0.
bit_op_pessimistic(op, l, r) ==
    LET b == CASE op = "&" -> l = "1" /\ r = "1"
               [] op = "|" -> l = "1" \/ r = "1"
               [] OTHER -> (l = "1") # (r = "1")
    IN  IF b THEN "1" ELSE "0"

bit_op(op, l, r) ==
    IF l \notin KnownBit \/ r \notin KnownBit THEN "x"
    ELSE LET b == CASE op = "&" -> l = "1" /\ r = "1"
                    [] op = "|" -> l = "1" \/ r = "1"
                    [] OTHER -> l # r
         IN  IF b THEN "1" ELSE "0"

\* Only a known value that fits a signed 64-bit integer is compared; of a
\* wider one every comparison is unknown.
unsigned_value(v) == v.known /\ Len(v.bits) <= 63

compare(op, l, r) ==
    CASE op = "==" -> l = r [] op = "!=" -> l # r
      [] op = ">" -> l > r  [] op = ">=" -> l >= r
      [] op = "<" -> l < r  [] OTHER -> l <= r

binary_op(op, lhs, rhs) ==
    CASE op \in {"&&", "||"} ->
            IF ~lhs.known \/ ~rhs.known THEN UnknownSV
            ELSE LET l == stream_value_truthy(lhs, FALSE)
                     r == stream_value_truthy(rhs, FALSE)
                 IN  one_bit(IF op = "&&" THEN l /\ r ELSE l \/ r)
      [] op \in {"&", "|", "^"} ->
            LET n == IF Len(lhs.bits) > Len(rhs.bits) THEN Len(lhs.bits)
                     ELSE Len(rhs.bits)
                l == Rep("0", n - Len(lhs.bits)) \o lhs.bits
                r == Rep("0", n - Len(rhs.bits)) \o rhs.bits
                bits == [i \in 1 .. n |-> bit_op(op, l[i], r[i])]
            IN  SV(bits, ~has_xz_bits(bits), lhs.rel /\ rhs.rel)
      [] OTHER ->
            IF ~unsigned_value(lhs) \/ ~unsigned_value(rhs) THEN UnknownSV
            ELSE one_bit(compare(op, ToNat(lhs.bits), ToNat(rhs.bits)))

select_bits(v, left, right) ==
    LET hi == IF left > right THEN left ELSE right
        lo == IF left > right THEN right ELSE left
        n == Len(v.bits)
    IN  IF hi >= n THEN EvalError
        ELSE LET bits == SubSeq(v.bits, n - hi, n - lo)
             IN  SV(bits, ~has_xz_bits(bits), TRUE)

RECURSIVE eval_node(_, _)
eval_node(node, values) ==
    CASE node.kind = "Literal" -> literal_value(Literals[node.text])
      [] node.kind = "Signal" ->
            IF node.text \in DOMAIN values THEN values[node.text] ELSE EvalError
      [] node.kind = "Select" ->
            LET v == eval_node(node.a, values)
            IN  IF v.ok THEN select_bits(v, node.left, node.right) ELSE v
      [] node.kind = "Concat" ->
            LET vs == [i \in DOMAIN node.items |-> eval_node(node.items[i], values)]
                bits == FlattenSeq([i \in DOMAIN vs |-> vs[i].bits])
            IN  IF \E i \in DOMAIN vs : ~vs[i].ok THEN EvalError
                ELSE SV(bits, (\A i \in DOMAIN vs : vs[i].known)
                              /\ ~has_xz_bits(bits),
                        \A i \in DOMAIN vs : vs[i].rel)
      [] node.kind = "Unary" ->
            LET v == eval_node(node.a, values)
                bits == [i \in DOMAIN v.bits |-> bit_not(v.bits[i])]
            IN  CASE ~v.ok -> v
                  [] v.ok /\ node.op = "!" ->
                        IF v.known THEN one_bit(~stream_value_truthy(v, FALSE))
                        ELSE UnknownSV
                  [] OTHER -> SV(bits, ~has_xz_bits(bits), v.rel)
      [] OTHER ->
            LET l == eval_node(node.a, values)
                r == eval_node(node.b, values)
            IN  IF l.ok /\ r.ok THEN binary_op(node.op, l, r) ELSE EvalError

\* The three-valued verdict of an expression used as a condition.
expression_tri_from_value(v) ==
    CASE ~v.ok \/ ~v.known \/ has_xz_bits(v.bits) -> "Unknown"
      [] OTHER -> IF stream_value_truthy(v, FALSE) THEN "True" ELSE "False"

\* Parses and evaluates a condition over raw bit strings.
expression_evaluate_tri(toks, values) ==
    LET p == parse(toks)
    IN  IF p.ok
        THEN expression_tri_from_value(
                eval_node(p.node, [s \in DOMAIN values |->
                                     expression_value_from_raw(values[s])]))
        ELSE "Unknown"

----------------------------------------------------------------------------
(* Value filters.                                                          *)

\* Unsigned comparison of known bit strings of any width.
trim_unsigned_bits(bits) ==
    LET ones == {i \in DOMAIN bits : bits[i] # "0"}
    IN  IF ones = {} THEN <<"0">>
        ELSE SubSeq(bits, CHOOSE i \in ones : \A j \in ones : i <= j, Len(bits))

compare_unsigned_filter_bits(lhs, rhs) ==
    LET a == trim_unsigned_bits(lhs)
        b == trim_unsigned_bits(rhs)
        diff == {i \in DOMAIN a : a[i] # b[i]}
    IN  CASE Len(a) < Len(b) -> -1
          [] Len(a) > Len(b) -> 1
          [] OTHER -> IF diff = {} THEN 0
                      ELSE LET i == CHOOSE i \in diff : \A j \in diff : i <= j
                           IN  IF a[i] = "0" THEN -1 ELSE 1

\* A filter as requested: a mode and literals, which must be valid and known.
ParseOK(lit) == LET v == parse_user_logic_literal(lit)
                IN  v.valid /\ ~logic_value_has_xz(v)
LitBits(lit) == parse_user_logic_literal(lit).bits

\* exact: the values are numerically distinct; range: begin is not above end;
\* mask: the mask is not zero.
parse_value_filter(spec) ==
    CASE spec.mode = "exact" ->
            /\ spec.values # <<>>
            /\ \A i \in DOMAIN spec.values : ParseOK(spec.values[i])
            /\ \A i, j \in DOMAIN spec.values : i # j =>
                  trim_unsigned_bits(LitBits(spec.values[i]))
                     # trim_unsigned_bits(LitBits(spec.values[j]))
      [] spec.mode = "range" ->
            /\ ParseOK(spec.begin) /\ ParseOK(spec.end)
            /\ compare_unsigned_filter_bits(LitBits(spec.begin),
                                            LitBits(spec.end)) <= 0
      [] spec.mode = "mask" ->
            /\ ParseOK(spec.value) /\ ParseOK(spec.mask)
            /\ \E i \in DOMAIN LitBits(spec.mask) : LitBits(spec.mask)[i] = "1"
      [] OTHER -> FALSE

FromLsb(bits, off) == IF off < Len(bits) THEN bits[Len(bits) - off] ELSE "0"

\* The mask is compared bit by bit from the low end: the first masked bit
\* that is unknown or different decides.
match_mask(spec, bits) ==
    LET value == LitBits(spec.value)
        mask == LitBits(spec.mask)
        width == CHOOSE n \in {Len(bits), Len(value), Len(mask)} :
                    n >= Len(bits) /\ n >= Len(value) /\ n >= Len(mask)
        deciding == {off \in 0 .. width - 1 :
                        /\ FromLsb(mask, off) = "1"
                        /\ \/ FromLsb(bits, off) \notin KnownBit
                           \/ FromLsb(bits, off) # FromLsb(value, off)}
    IN  IF deciding = {} THEN "Yes"
        ELSE LET off == CHOOSE o \in deciding : \A p \in deciding : o <= p
             IN  IF FromLsb(bits, off) \in KnownBit THEN "No" ELSE "Unresolved"

match_value_filter(spec, bits) ==
    CASE spec.mode = "mask" -> match_mask(spec, bits)
      [] spec.mode # "mask" /\ has_xz_bits(bits) -> "Unresolved"
      [] spec.mode = "exact" /\ ~has_xz_bits(bits) ->
            IF \E i \in DOMAIN spec.values :
                  compare_unsigned_filter_bits(bits, LitBits(spec.values[i])) = 0
            THEN "Yes" ELSE "No"
      [] OTHER ->
            IF /\ compare_unsigned_filter_bits(bits, LitBits(spec.begin)) >= 0
               /\ compare_unsigned_filter_bits(bits, LitBits(spec.end)) <= 0
            THEN "Yes" ELSE "No"

value_filter_and(lhs, rhs) ==
    CASE lhs = "No" \/ rhs = "No" -> "No"
      [] lhs # "No" /\ rhs # "No" /\ (lhs = "Unresolved" \/ rhs = "Unresolved") ->
            "Unresolved"
      [] OTHER -> "Yes"

----------------------------------------------------------------------------
(* What the operators promise.                                             *)

\* The known bit strings a four-state bit string may stand for.
Resolutions(bits) ==
    {r \in [DOMAIN bits -> KnownBit] :
        \A i \in DOMAIN bits : bits[i] \in KnownBit => r[i] = bits[i]}

\* A bit that is reported as known is right under every resolution.
Agrees(abstract, concrete) ==
    /\ Len(abstract) = Len(concrete)
    /\ \A i \in DOMAIN abstract :
          abstract[i] \in KnownBit => abstract[i] = concrete[i]

\* What is rendered reads back: binary always gives the same bits, hex and
\* decimal the same number, with the width where it is known, and an unknown
\* value never becomes a known one or changes a bit it does show.
ConversionsRound(bits) ==
    \A v \in {logic_value_from_bits(bits), logic_value_from_fsdb_raw(bits, 0),
              logic_value_from_fsdb_raw(bits, Len(bits))} :
    \A format \in {"bin", "hex", "dec"} :
        LET back == parse_user_logic_literal(render_logic_value(v, format)) IN
        /\ back.valid /\ known(back) = known(v)
        /\ format = "bin" \/ v.rel \/ known(v) => Agrees(fit(back.bits, Len(bits)), bits)
        /\ format = "bin" => back.bits = bits
        /\ v.rel => back.width = v.width

\* The keys of two values are equal when their numbers are.
KeysNumeric(a, b) ==
    LET key(bits) == logic_value_compare_key(logic_value_from_bits(bits)) IN
    ~has_xz_bits(a) /\ ~has_xz_bits(b) => (key(a) = key(b) <=> ToNat(a) = ToNat(b))

\* The text of a tree, with parentheses around every operator but the
\* outermost ones of a chain grouped to the left.
RECURSIVE Unparse(_)
Unparse(node) ==
    LET paren(n) == IF n.kind \in {"Binary"} THEN <<"(">> \o Unparse(n) \o <<")">>
                    ELSE Unparse(n)
        level(op) == CHOOSE l \in DOMAIN BinaryLevels : op \in BinaryLevels[l]
        bare(n, least) == IF n.kind = "Binary" /\ level(n.op) < least
                          THEN paren(n) ELSE Unparse(n)
        idx(k) == CHOOSE t \in DOMAIN IndexTokens : IndexTokens[t] = k
    IN  CASE node.kind \in {"Literal", "Signal"} -> <<node.text>>
          [] node.kind = "Select" ->
                Unparse(node.a) \o <<"[", idx(node.left), ":", idx(node.right), "]">>
          [] node.kind = "Concat" ->
                <<"{">> \o FlattenSeq([i \in DOMAIN node.items |->
                    IF i = 1 THEN Unparse(node.items[i])
                    ELSE <<",">> \o Unparse(node.items[i])]) \o <<"}">>
          [] node.kind = "Unary" -> <<node.op>> \o paren(node.a)
          [] OTHER -> bare(node.a, level(node.op)) \o <<node.op>>
                      \o bare(node.b, level(node.op) + 1)
=============================================================================
