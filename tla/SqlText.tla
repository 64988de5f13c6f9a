------------------------------- MODULE SqlText -------------------------------
(***************************************************************************)
(* What pg-retest does with the text of a statement: the tokenizer         *)
(* (sql/lex.rs) under the masking of a capture (capture/masking.rs), the   *)
(* substitution of ids at replay (correlate/substitute.rs), and the clause *)
(* that implicit capture splices into an INSERT (sql/ast.rs).              *)
(*                                                                         *)
(* A text is a sequence of characters, one for each class the code tells   *)
(* apart: ' " $ - / * . ; = , a newline, a space, 1 and 2 for digits, and  *)
(* letters.  A keyword that matters is one letter: w of the class WHERE,   *)
(* l LIMIT, f FROM, i INSERT, r RETURNING; S and N are what masking writes. *)
(***************************************************************************)
EXTENDS Integers, Sequences

CONSTANTS
    Texts,     \* statements
    IdMaps,    \* the IdMaps they are replayed with: [text of a value -> text]
    Statements, \* what implicit capture sees: [text, schema, table], the schema "" if it is not named
    PkMap      \* primary keys found at the start of the capture: [schema, table]

Digit == {"1", "2"}
Letter == {"a", "e", "w", "l", "f", "i", "r", "S", "N"}
Alnum == Digit \cup Letter
Space == {" ", "\n"}
Char == Alnum \cup Space \cup {"'", "\"", "$", "-", "/", "*", ".", ";", "=", ","}

ASSUME SqlTextAssumption ==
    /\ Texts \subseteq Seq(Char)
    /\ \A m \in IdMaps : DOMAIN m \subseteq Seq(Char) /\ \A v \in DOMAIN m : m[v] \in Seq(Char)
    /\ \A s \in Statements : s.text \in Seq(Char)

VARIABLES
    text,        \* the statement as it is now
    step,        \* what was done with it
    used_map,    \* the IdMap of the replay
    count,       \* literals substituted
    source_text  \* the statement before the last step

textVars == <<text, step, used_map, count, source_text>>

-----------------------------------------------------------------------------
(* SqlLexer.  A token is [kind, from, to], to the position after it.       *)

EndOf(s) == Len(s) + 1
CharAt(s, k) == IF k <= Len(s) THEN s[k] ELSE ""
HasAt(s, k, w) == k + Len(w) - 1 <= Len(s) /\ SubSeq(s, k, k + Len(w) - 1) = w
Least(S, none) == IF S = {} THEN none ELSE CHOOSE k \in S : \A j \in S : k <= j
Greatest(S, none) == IF S = {} THEN none ELSE CHOOSE k \in S : \A j \in S : j <= k
RunEnd(s, k, class) == Least({j \in k..Len(s) : s[j] \notin class}, EndOf(s))

\* scan_single_quoted, scan_quoted_ident; the slip: a doubled quote ends the token.
scan_quoted_plain(s, k, quote) == Least({j + 1 : j \in {i \in k + 1..Len(s) : s[i] = quote}}, EndOf(s))
scan_quoted(s, k, quote) ==
    LET scan[i \in Nat] == CASE i > Len(s) -> EndOf(s)
                             [] i <= Len(s) /\ s[i] # quote -> scan[i + 1]
                             [] OTHER -> IF CharAt(s, i + 1) = quote THEN scan[i + 2] ELSE i + 1
    IN scan[k + 1]

\* scan_dollar_quoted, scan_bind_param, and a bare $.
ScanDollar(s, k) ==
    LET tag_end == RunEnd(s, k + 1, Alnum)
        delim == SubSeq(s, k, tag_end)
        closings == {j \in tag_end + 1..Len(s) : HasAt(s, j, delim)}
    IN CASE CharAt(s, tag_end) = "$" ->
              [kind |-> "DollarString", from |-> k, to |-> Least({j + Len(delim) : j \in closings}, EndOf(s))]
         [] CharAt(s, tag_end) # "$" /\ CharAt(s, k + 1) \in Digit ->
              [kind |-> "BindParam", from |-> k, to |-> RunEnd(s, k + 2, Digit)]
         [] OTHER -> [kind |-> "Punct", from |-> k, to |-> k + 1]

Decimal(s, digits) ==
    IF CharAt(s, digits) = "." /\ CharAt(s, digits + 1) \in Digit THEN RunEnd(s, digits + 1, Digit) ELSE digits
Exponent(s, end, digits) ==
    IF CharAt(s, end) = "e" /\ CharAt(s, digits) \in Digit THEN RunEnd(s, digits, Digit) ELSE end
WithExponent(s, end) == Exponent(s, end, IF CharAt(s, end + 1) = "-" THEN end + 2 ELSE end + 1)
scan_number(s, k) == WithExponent(s, Decimal(s, RunEnd(s, IF s[k] = "-" THEN k + 1 ELSE k, Digit)))

\* None of last_punct is "": also after a word or a number.
is_numeric_context(s, k, last_punct) ==
    CharAt(s, k + 1) \in Digit /\ last_punct \in {"", ",", "=", "-", "*", "/"}

advance(s, k, last_punct) ==
    LET Tok(kind, to) == [kind |-> kind, from |-> k, to |-> to]
        c == s[k]
    IN CASE HasAt(s, k, <<"-", "-">>) -> Tok("LineComment", Least({j \in k..Len(s) : s[j] = "\n"}, EndOf(s)))
         [] HasAt(s, k, <<"/", "*">>) ->
              Tok("BlockComment", Least({j + 2 : j \in {i \in k + 2..Len(s) : HasAt(s, i, <<"*", "/">>)}}, EndOf(s)))
         [] c \in Space -> Tok("Whitespace", RunEnd(s, k, Space))
         [] c = "'" -> Tok("StringLiteral", scan_quoted(s, k, c))
         [] c = "$" -> ScanDollar(s, k)
         [] c = "\"" -> Tok("QuotedIdent", scan_quoted(s, k, c))
         [] c \in Digit \/ (c = "-" /\ ~HasAt(s, k, <<"-", "-">>) /\ is_numeric_context(s, k, last_punct)) ->
              Tok("Number", scan_number(s, k))
         [] c \in Letter -> Tok("Ident", RunEnd(s, k, Alnum))
         [] c \in {".", ";", "=", ",", "*"} \/ (c = "/" /\ ~HasAt(s, k, <<"/", "*">>))
            \/ (c = "-" /\ ~HasAt(s, k, <<"-", "-">>) /\ ~is_numeric_context(s, k, last_punct)) -> Tok("Punct", k + 1)

\* visit_tokens: advance_emit keeps the last Punct over whitespace.
visit_tokens(s) ==
    LET from[k \in Nat] == [punct \in Char \cup {""} |->
            IF k > Len(s) THEN << >>
            ELSE LET t == advance(s, k, punct)
                     next == CASE t.kind = "Whitespace" -> punct [] t.kind = "Punct" -> s[k] [] OTHER -> ""
                 IN <<t>> \o from[t.to][next]]
    IN from[1][""]

Of(s, t) == SubSeq(s, t.from, t.to - 1)
Concat(ss) == LET from[k \in Nat] == IF k > Len(ss) THEN << >> ELSE ss[k] \o from[k + 1] IN from[1]

-----------------------------------------------------------------------------
(* The two visitors.                                                       *)

MaskedTokens(s, tokens) ==
    LET masked(t) == CASE t.kind \in {"StringLiteral", "DollarString"} -> <<"$", "S">>
                       [] t.kind = "Number" -> <<"$", "N">>
                       [] OTHER -> Of(s, t)
    IN Concat([k \in DOMAIN tokens |-> masked(tokens[k])])
mask_sql_literals(s) == MaskedTokens(s, visit_tokens(s))

\* An unterminated literal has no closing quote to strip.
strip_single_quotes(q) == IF Len(q) >= 2 /\ q[Len(q)] = "'" THEN SubSeq(q, 2, Len(q) - 1) ELSE SubSeq(q, 2, Len(q))
safe_number(v) == \A k \in DOMAIN v : v[k] \in Digit \cup {".", "-", "e"}
Literal == {"StringLiteral", "Number"}

\* Eligibility after token t, e before it.
EligibilityAfter(s, t, e, after_literal) ==
    CASE t.kind \in Literal -> after_literal
      [] t.kind = "Ident" /\ Of(s, t) = <<"w">> -> "Eligible"
      [] t.kind = "Ident" /\ Of(s, t) = <<"l">> -> "Ineligible"
      [] t.kind = "Ident" /\ Of(s, t) = <<"f">> -> "IdentifierContext"
      [] t.kind = "Punct" /\ Of(s, t) = <<"=">> -> "Eligible"
      [] t.kind \in {"Ident", "QuotedIdent"} /\ e = "IdentifierContext"
         /\ Of(s, t) \notin {<<"w">>, <<"l">>, <<"f">>} -> "Neutral"
      [] OTHER -> e
\* The slip: a literal leaves it as it was.
eligibility_kept(s, t, e) == EligibilityAfter(s, t, e, e)
eligibility(s, t, e) == EligibilityAfter(s, t, e, "Neutral")

\* [sql, count] of substitute_ids; a map with nothing in it changes nothing.
SubstitutedTokens(s, map, tokens) ==
    LET before[k \in Nat] == IF k <= 1 THEN "Neutral" ELSE eligibility(s, tokens[k - 1], before[k - 1])
        value(t) == IF t.kind = "Number" THEN Of(s, t) ELSE strip_single_quotes(Of(s, t))
        hit(k) == /\ tokens[k].kind \in Literal /\ before[k] \in {"Neutral", "Eligible"}
                  /\ value(tokens[k]) \in DOMAIN map
                  /\ tokens[k].kind = "Number" => safe_number(map[value(tokens[k])])
        out(k) == CASE hit(k) /\ tokens[k].kind = "Number" -> map[value(tokens[k])]
                    [] hit(k) /\ tokens[k].kind # "Number" -> <<"'">> \o map[value(tokens[k])] \o <<"'">>
                    [] OTHER -> Of(s, tokens[k])
        hits == {k \in DOMAIN tokens : hit(k)}
    IN IF hits = {} THEN [sql |-> s, count |-> 0]
       ELSE [sql |-> Concat([k \in DOMAIN tokens |-> out(k)]),
             count |-> Len(SelectSeq([k \in DOMAIN tokens |-> hit(k)], LAMBDA h : h))]
substitute_ids(s, map) == SubstitutedTokens(s, map, visit_tokens(s))

-----------------------------------------------------------------------------
(* RETURNING for implicit capture.  pg_query sees statements between ; and  *)
(* a statement begins with its first word.                                 *)

Words(s) == SelectSeq(visit_tokens(s), LAMBDA t : t.kind \notin {"Whitespace", "LineComment", "BlockComment"})
FirstWords(s, words) ==
    {Of(s, words[k]) : k \in {j \in DOMAIN words : j = 1 \/ Of(s, words[j - 1]) = <<";">>}}
might_have_returning(s, words) == words # << >> /\ Of(s, words[1]) = <<"i">>
has_returning(s, words) == \E k \in DOMAIN words : Of(s, words[k]) = <<"r">>

\* find_line_comment_start in s[from..to], or 0; quotes are counted from the start of the line.
find_line_comment_start(s, from, to) ==
    Least({k \in from..to - 1 : /\ HasAt(s, k, <<"-", "-">>)
                                /\ Len(SelectSeq(SubSeq(s, from, k - 1), LAMBDA c : c = "'")) % 2 = 0}, 0)

\* end_of_statement_offset: the number of characters before the clause.
end_of_statement_offset(s) ==
    LET strip[n \in 0..Len(s)] ==
            LET end == Greatest({k \in 1..n : s[k] \notin Space}, 0)
                line_start == Greatest({k \in 1..end : s[k] = "\n"}, 0) + 1
                dd == find_line_comment_start(s, line_start, end)
                open == Greatest({k \in 1..end - 3 : HasAt(s, k, <<"/", "*">>)}, 0)
            IN CASE dd # 0 -> strip[dd - 1]
                 [] dd = 0 /\ end >= 2 /\ HasAt(s, end - 1, <<"*", "/">>) /\ open # 0 -> strip[open - 1]
                 [] dd = 0 /\ end >= 1 /\ s[end] = ";" -> strip[end - 1]
                 [] OTHER -> end
    IN strip[Len(s)]

\* The key of the table: a name without a schema takes the first table of that name.
PrimaryKey(statement, pk_map) ==
    Least({k \in DOMAIN pk_map : /\ pk_map[k].table = statement.table
                                 /\ statement.schema \in {"", pk_map[k].schema}}, 0)

\* The clause after the last character that is not a space.
Spliced(s, offset) ==
    SubSeq(s, 1, Greatest({k \in 1..offset : s[k] \notin Space}, 0)) \o <<" ", "r">> \o SubSeq(s, offset + 1, Len(s))

InjectedInto(s, words, pk) ==
    IF might_have_returning(s, words) /\ ~has_returning(s, words) /\ <<"i">> \in FirstWords(s, words) /\ pk # 0
    THEN Spliced(s, end_of_statement_offset(s))
    ELSE s
inject_returning(statement, pk_map) ==
    InjectedInto(statement.text, Words(statement.text), PrimaryKey(statement, pk_map))

-----------------------------------------------------------------------------
TextInit ==
    /\ \/ text \in Texts /\ step = "captured"
       \/ text \in {s.text : s \in Statements} /\ step = "relayed"
    /\ used_map \in IdMaps
    /\ count = 0 /\ source_text = text

\* cmd_capture, with --mask-values.
Mask ==
    /\ step = "captured"
    /\ text' = mask_sql_literals(text)
    /\ step' = "masked" /\ source_text' = text /\ UNCHANGED <<used_map, count>>

\* IdMap::substitute, of a query of a profile.
SubstituteText ==
    /\ step \in {"captured", "masked"}
    /\ \E done \in {IF DOMAIN used_map = {} THEN [sql |-> text, count |-> 0] ELSE substitute_ids(text, used_map)} :
          text' = done.sql /\ count' = done.count
    /\ step' = "substituted" /\ source_text' = text /\ UNCHANGED used_map

\* handle_connection, with --id-capture-implicit.
Inject ==
    /\ step = "relayed"
    /\ \E s \in Statements : s.text = text /\ text' = inject_returning(s, PkMap)
    /\ step' = "injected" /\ source_text' = text /\ UNCHANGED <<used_map, count>>

TextNext == Mask \/ SubstituteText \/ Inject

TextSpec == TextInit /\ [][TextNext]_textVars

-----------------------------------------------------------------------------
(* How a server reads a text, one character at a time: what each character *)
(* is in, and where that began.                                            *)

Delim(s, k) == SubSeq(s, k, RunEnd(s, k + 1, Alnum))
\* A comment may hold comments, and ends when all of them have.
CommentEnd(s, k) ==
    LET scan[i \in Nat] == [depth \in Nat |->
            IF depth = 0 \/ i > Len(s) THEN i
            ELSE CASE HasAt(s, i, <<"/", "*">>) -> scan[i + 2][depth + 1]
                   [] HasAt(s, i, <<"*", "/">>) -> scan[i + 2][depth - 1]
                   [] OTHER -> scan[i + 1][depth]]
    IN scan[k + 2][1]
Opens(s, k) ==
    CASE s[k] = "'" -> "StringLiteral"
      [] s[k] = "\"" -> "QuotedIdent"
      [] HasAt(s, k, <<"-", "-">>) -> "LineComment"
      [] HasAt(s, k, <<"/", "*">>) -> "BlockComment"
      [] s[k] = "$" /\ CharAt(s, RunEnd(s, k + 1, Alnum)) = "$" -> "DollarString"
      [] OTHER -> "code"
GoesOn(s, k, r) ==
    CASE r.in \in {"StringLiteral", "QuotedIdent"} ->
           \/ s[k] = s[r.since]
           \/ Len(SelectSeq(SubSeq(s, r.since, k - 1), LAMBDA c : c = s[r.since])) % 2 = 1
      [] r.in = "LineComment" -> s[k] # "\n"
      [] r.in = "BlockComment" -> k < CommentEnd(s, r.since)
      [] r.in = "DollarString" -> LET d == Delim(s, r.since)
                                  IN ~\E j \in r.since + Len(d)..k - Len(d) : HasAt(s, j, d)
      [] OTHER -> FALSE
Regions(s) ==
    LET region[k \in 0..Len(s)] ==
            IF k = 0 THEN [in |-> "code", since |-> 0]
            ELSE IF GoesOn(s, k, region[k - 1]) THEN region[k - 1]
            ELSE [in |-> Opens(s, k), since |-> k]
    IN region

\* Text both read alike: a server takes a $ that follows a word for a part of
\* it, and knows no tag that begins with a digit.
PlainDollars(s) ==
    \A k \in DOMAIN s :
        LET r == Regions(s)[k]
        IN r.in = "DollarString" => CharAt(s, r.since + 1) \notin Digit /\ (r.since > 1 => s[r.since - 1] \notin Alnum)

\* No comment inside another.
FlatComments(s) ==
    LET region == Regions(s)
    IN \A k \in 1..Len(s) - 1 :
        region[k].in = "BlockComment" /\ region[k].since # k /\ region[k + 1] = region[k] => ~HasAt(s, k, <<"/", "*">>)

SameTokens(s, tokens, region) ==
    LET whole == {"StringLiteral", "QuotedIdent", "LineComment", "BlockComment", "DollarString"}
    IN {<<tokens[k].kind, tokens[k].from, tokens[k].to>> : k \in {j \in DOMAIN tokens : tokens[j].kind \in whole}}
       = {<<region[k].in, region[k].since, Least({j \in k..Len(s) : region[j] # region[k]}, EndOf(s))>> :
            k \in {j \in DOMAIN s : region[j].in # "code"}}

\* Whatever quotes, comments and dollar quotes stand next to, inside or
\* unfinished in each other, the tokenizer finds the literals, the quoted
\* names and the comments the server finds, each in one piece (lex.rs 55-160).
\* Of a comment inside a comment it says nothing: lex.rs 74-86 ends the outer one
\* at the first */, "non-nesting" by its own comment, where the server reads on.
LexedRight == PlainDollars(text) /\ FlatComments(text) => SameTokens(text, visit_tokens(text), Regions(text))

\* A token that gives the next literal a meaning, and the words that keep it from being an id.
Telling(s, t) == \/ t.kind \in Literal
                 \/ t.kind = "Ident" /\ Of(s, t) \in {<<"w">>, <<"l">>, <<"f">>}
                 \/ t.kind = "Punct" /\ Of(s, t) = <<"=">>
Bars(s, tokens, j, k) ==
    /\ tokens[j].kind = "Ident" /\ Of(s, tokens[j]) \in {<<"l">>, <<"f">>}
    /\ \A i \in j + 1..k - 1 : ~Telling(s, tokens[i])
    /\ Of(s, tokens[j]) = <<"f">> => \A i \in j + 1..k - 1 : tokens[i].kind \notin {"Ident", "QuotedIdent"}

ReadsAs(s, token) == IF token.kind = "Number" THEN Of(s, token) ELSE strip_single_quotes(Of(s, token))
ToReplace(s, tokens, k, map) ==
    /\ tokens[k].kind \in Literal /\ ReadsAs(s, tokens[k]) \in DOMAIN map
    /\ \A j \in 1..k - 1 : ~Bars(s, tokens, j, k)
    /\ tokens[k].kind = "Number" => safe_number(map[ReadsAs(s, tokens[k])])
\* A number that is all of what a server reads as one, and has no sign.
StandsAlone(s, t) ==
    t.kind = "Number" =>
        /\ s[t.from] # "-" /\ CharAt(s, t.to) \notin Alnum \cup {"."}
        /\ t.from > 1 => s[t.from - 1] # "."
SentRight(s, tokens, sent_text, sent, map) ==
    /\ Len(sent) = Len(tokens)
    /\ \A k \in DOMAIN tokens :
        /\ sent[k].kind = tokens[k].kind
        /\ StandsAlone(s, tokens[k]) =>
           IF ToReplace(s, tokens, k, map) THEN ReadsAs(sent_text, sent[k]) = map[ReadsAs(s, tokens[k])]
           ELSE Of(sent_text, sent[k]) = Of(s, tokens[k])

\* Substitution replaces the ids of a statement and nothing else: every
\* literal of the map, except the first thing after LIMIT and after FROM, and a
\* number whose value is not one, becomes its value, and the statement that is
\* sent reads token by token like the one that was captured (substitute.rs 26-134).
\* Of a number with a sign it says only that it stays a number: docs/id-correlation.md
\* 229 has the minus emitted on its own and 42 looked up, but lex.rs 197-211 makes
\* one token of -42, and -42 is looked up. Nor does it say what .42 and 42. become.
SubstitutedRight ==
    step = "substituted" =>
        SentRight(source_text, visit_tokens(source_text), text, visit_tokens(text), used_map)

Clause(s, words) == CHOOSE j \in DOMAIN words : Of(s, words[j]) = <<"r">>
ClauseIsLast(s, words, k) ==
    /\ \A j \in k + 1..Len(words) : Of(s, words[j]) = <<";">>
    /\ \A j \in 1..k - 1 : Of(s, words[j]) # <<";">>
EndsWithClause(s, words) == has_returning(s, words) /\ ClauseIsLast(s, words, Clause(s, words))

\* "RETURNING goes at the END of the statement in all cases" (ast.rs 186): the
\* clause ends the INSERT, outside of its literals, names and comments.
SpliceAtEnd == step = "injected" /\ text # source_text => EndsWithClause(text, Words(text))
=============================================================================
