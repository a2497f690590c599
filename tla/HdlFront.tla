------------------------------ MODULE HdlFront ------------------------------
(***************************************************************************)
(* The front end of mini-hdl-lang: the lexer with its lookahead            *)
(* (hdl_lexer.c), the recursive-descent parser (hdl_parser.c) with the     *)
(* operator precedences, the generator of Verilog (hdl_codegen.c), and     *)
(* elaboration (hdl_elaborate.c): symbols, instances, the modules' order.  *)
(*                                                                         *)
(* For the lexer a source is a sequence of characters of every class it    *)
(* tells apart; "nl" is the end of a line.  A place [pos, line, col] says   *)
(* where it stands: pos is the next character to read.                     *)
(*                                                                         *)
(* For the parser a token is its text: a name, a number or one of the      *)
(* strings below.  A parsing operator maps the tokens left to [t, r, e]:   *)
(* the trees it built (none for NULL), the tokens after them and the       *)
(* errors it met.                                                          *)
(***************************************************************************)
EXTENDS Integers, Sequences, FiniteSets
LOCAL INSTANCE SequencesExt

CONSTANTS
  Texts,            \* the texts given to the lexer
  MaxErrors,        \* LEXER_MAX_ERRORS
  Names, Numbers,   \* identifier and number tokens
  Operands,         \* the names expressions written here use
  Operators,        \* the binary operators of expressions written here
  Fragments,        \* token sequences: module items a source is made of
  PortLists,        \* token sequences: port lists, with their parentheses
  ModuleNames,      \* the names of the modules of a source, a sequence
  MaxItems,         \* bound of this model: items of a source
  MaxExpr,          \* bound of this model: operators of an expression
  Designs,          \* modules of a design to elaborate: 1 .. Designs
  MaxInstances      \* bound of this model: instances of a design

VARIABLES
  text,             \* Lexer: source
  lexer,            \* Lexer: pos and loc, lookahead, error_count
  tokens,           \* what current has been, in order
  source,           \* the source being written: [ports, items] of every module
  root, errors,     \* Parser: root, error_count
  printed,          \* the modules the generator printed last
  expr, tree,       \* an expression and the tree read from it
  symbols,          \* Elaborator: symbols
  instances,        \* module_name of every instance, by module
  order, complete   \* elaborator_topological_sort: order, result

lexVars == <<text, lexer, tokens>>
sourceVars == <<source, root, errors, printed>>
exprVars == <<expr, tree>>
elabVars == <<symbols, instances, order, complete>>
-----------------------------------------------------------------------------
Blanks == {" ", "nl"}
Digits == {"0", "1"}
Letters == {"a", "b", "d", "h", "o", "r", "s", "x", "_"}
WordChars == Letters \cup Digits \cup {"$"}
Radix == [c \in {"b", "o", "d", "h"} |-> CASE c = "b" -> 2 [] c = "o" -> 8 [] c = "h" -> 16 [] OTHER -> 10]
Sized == Digits \cup {"a", "b", "d", "x", "_"}             \* isxdigit, x, z and _
Keywords == {<<"o", "r">>}
Pairs == {<<"=", "=">>, <<"!", "=">>, <<"<", "<">>, <<"<", "=">>, <<">", ">">>, <<">", "=">>, <<"&", "&">>, <<"|", "|">>}
Singles == {"+", "*", "/", "(", ":", ";", "#", "'", ".", "=", "!", "<", ">", "&", "|"}

(* lexer_peek_char: '\0' past the end                                      *)
Char(p) == IF p \in DOMAIN text THEN text[p] ELSE "end"

(* The first position from p on whose character is not in the class.       *)
RunEnd(p, class) == CHOOSE q \in p .. Len(text) + 1 : Char(q) \notin class /\ \A k \in p .. q - 1 : Char(k) \in class

(* lexer_advance up to position q, with advance_pos.                       *)
Advance(at, q) ==
  FoldLeft(LAMBDA a, c : [pos |-> a.pos + 1, line |-> IF c = "nl" THEN a.line + 1 ELSE a.line,
                          col |-> IF c = "nl" THEN 1 ELSE a.col + 1], at, SubSeq(text, at.pos, q - 1))

(* A block comment counts its lines itself; one that nothing closes ends   *)
(* before the last character of the source.                                *)
LinesIn(p, q) == Cardinality({k \in p .. q : Char(k) = "nl"})

Closed(at) ==
  LET from == at.pos + 2
      ends == {q \in from .. Len(text) - 1 : Char(q) = "*" /\ Char(q + 1) = "/"}
      stop == IF ends # {} THEN CHOOSE q \in ends : \A k \in ends : q <= k
              ELSE IF from > Len(text) THEN from ELSE Len(text)
      lines == LinesIn(from, stop - 1)
  IN [pos |-> IF ends = {} THEN stop ELSE stop + 2, line |-> at.line + lines, col |-> IF lines > 0 THEN 1 ELSE at.col]

(* lexer_skip_whitespace; the text of a line comment moves no column.      *)
RECURSIVE SkipBlank(_)
SkipBlank(at) ==
  CASE Char(at.pos) \in Blanks -> SkipBlank(Advance(at, at.pos + 1))
    [] Char(at.pos) = "/" /\ Char(at.pos + 1) = "/" ->
         SkipBlank([at EXCEPT !.pos = CHOOSE q \in at.pos .. Len(text) + 1 :
                                        Char(q) \in {"nl", "end"} /\ \A k \in at.pos .. q - 1 : Char(k) \notin {"nl", "end"}])
    [] Char(at.pos) = "/" /\ Char(at.pos + 1) = "*" -> SkipBlank(Closed(at))
    [] OTHER -> at
-----------------------------------------------------------------------------
(* lexer_parse_verilog_number on the characters p .. q - 1.  An x makes    *)
(* the value 0, and so does anything the base has no digit for.            *)
DigitOf(c) == CASE c = "0" -> 0 [] c = "1" -> 1 [] c = "a" -> 10 [] c = "b" -> 11 [] OTHER -> 13
DigitsOf(radix) == {c \in Digits \cup {"a", "b", "d"} : DigitOf(c) < radix}
Positional(radix, cs) == FoldLeft(LAMBDA v, c : v * radix + DigitOf(c), 0, cs)

NumberAt(p, q) ==
  LET quote == RunEnd(p, Digits)
      sign == IF Char(quote + 1) = "s" THEN quote + 2 ELSE quote + 1
      size == Positional(10, SubSeq(text, p, quote - 1))
      radix == Radix[Char(sign)]
      run == SubSeq(text, sign + 1, RunEnd(sign + 1, DigitsOf(radix) \cup {"x"}) - 1)
  IN IF quote < q /\ size > 0
     THEN [val |-> IF "x" \in ToSet(run) THEN 0 ELSE Positional(radix, run), radix |-> radix, bits |-> size]
     ELSE [val |-> size, radix |-> 10, bits |-> 32]

Token(kind, at, to) == [kind |-> kind, from |-> at.pos, to |-> to.pos - 1, line |-> at.line, col |-> at.col,
                        num |-> [val |-> 0, radix |-> 0, bits |-> 0]]
Emit(tok, at) == [tok |-> tok, at |-> at]

(* A number without a base is scanned again from its first digit: what the *)
(* first scan added to the column stays.                                   *)
ReadNumber(at) ==
  LET quote == RunEnd(at.pos, Digits)
      sign == IF Char(quote) = "'" THEN IF Char(quote + 1) = "s" THEN quote + 2 ELSE quote + 1 ELSE quote
      based == Char(quote) = "'" /\ Char(sign) \in DOMAIN Radix
      dot == Char(quote) = "."
      to == IF based THEN Advance(at, RunEnd(sign + 1, Sized))
            ELSE Advance([Advance(at, sign) EXCEPT !.pos = at.pos], IF dot THEN RunEnd(quote + 1, Digits) ELSE quote)
  IN IF ~based /\ dot THEN Emit(Token("real", at, to), to)
     ELSE Emit([Token("number", at, to) EXCEPT !.num = NumberAt(at.pos, to.pos)], to)

ReadWord(at) ==
  LET to == Advance(at, RunEnd(at.pos, WordChars))
  IN Emit(Token(IF SubSeq(text, at.pos, to.pos - 1) \in Keywords THEN "keyword" ELSE "ident", at, to), to)

(* A string ends at a quote, which it takes, or before the end of the line. *)
ReadString(at) ==
  LET stop == CHOOSE q \in at.pos + 1 .. Len(text) + 1 :
                Char(q) \in {"\"", "nl", "end"} /\ \A k \in at.pos + 1 .. q - 1 : Char(k) \notin {"\"", "nl", "end"}
      to == Advance(at, IF Char(stop) = "\"" THEN stop + 1 ELSE stop)
  IN Emit(Token("string", at, to), to)

ReadOperator(at) ==
  LET to == Advance(at, IF <<Char(at.pos), Char(at.pos + 1)>> \in Pairs THEN at.pos + 2 ELSE at.pos + 1)
  IN Emit(Token(IF Char(at.pos) \in Singles THEN "op" ELSE "error", at, to), to)

(* lexer_read_token                                                        *)
ReadToken(from) ==
  LET at == SkipBlank(from)
      c == Char(at.pos)
  IN CASE c = "end" -> Emit(Token("eof", at, at), at)
       [] c \in Letters -> ReadWord(at)
       [] c \in Digits -> ReadNumber(at)
       [] c = "\"" -> ReadString(at)
       [] OTHER -> ReadOperator(at)
-----------------------------------------------------------------------------
Place == [pos |-> lexer.pos, line |-> lexer.line, col |-> lexer.col]
Start == [pos |-> 1, line |-> 1, col |-> 1]

(* lexer_error, called where a character is not recognised                 *)
ErrorsAfter(n, tok) == IF tok.kind = "error" /\ n < MaxErrors THEN n + 1 ELSE n

Standing(r, ahead, found) == [pos |-> r.at.pos, line |-> r.at.line, col |-> r.at.col, ahead |-> ahead, errors |-> found]

(* lexer_next                                                              *)
LexNext ==
  /\ tokens # <<>> /\ Last(tokens).kind # "eof"
  /\ \/ /\ lexer.ahead # <<>>
        /\ tokens' = Append(tokens, Head(lexer.ahead)) /\ lexer' = [lexer EXCEPT !.ahead = <<>>]
     \/ /\ lexer.ahead = <<>>
        /\ LET r == ReadToken(Place)
           IN tokens' = Append(tokens, r.tok) /\ lexer' = Standing(r, <<>>, ErrorsAfter(lexer.errors, r.tok))
  /\ UNCHANGED text

(* lexer_peek                                                              *)
Remembered(ahead, tok) == Append(ahead, tok)
LexPeek ==
  /\ tokens # <<>> /\ Last(tokens).kind # "eof" /\ lexer.ahead = <<>>
  /\ LET r == ReadToken(Place)
     IN lexer' = Standing(r, Remembered(<<>>, r.tok), ErrorsAfter(lexer.errors, r.tok))
  /\ UNCHANGED <<text, tokens>>

(* Somebody writes a source; lexer_init reads its first token.             *)
WriteText == text = <<>> /\ tokens = <<>> /\ text' \in Texts /\ UNCHANGED <<lexer, tokens>>

LexInit ==
  /\ tokens = <<>>
  /\ LET r == ReadToken(Start)
     IN tokens' = <<r.tok>> /\ lexer' = Standing(r, <<>>, ErrorsAfter(0, r.tok))
  /\ UNCHANGED text

LexerInit == text = <<>> /\ tokens = <<>> /\ lexer = Standing([at |-> Start], <<>>, 0)
LexerNext == WriteText \/ LexInit \/ LexNext \/ LexPeek
-----------------------------------------------------------------------------
(* ast_create_node, ast_add_child; a child that is NULL is not added, so a  *)
(* parsing operator gives the list of the children it read.                *)
Node(type, name, kids) == [ty |-> type, nm |-> name, v |-> "", ks |-> kids]
Valued(n, v) == [n EXCEPT !.v = v]
NULL == Node("NULL", "", <<>>)
Ident(name) == Node("IDENT", name, <<>>)
ChildrenOfType(n, type) == SelectSeq(n.ks, LAMBDA k : k.ty = type)

(* parser_check, parser_match, parser_expect                               *)
Cur(s) == IF s = <<>> THEN "EOF" ELSE Head(s)
Adv(s) == IF s = <<>> THEN <<>> ELSE Tail(s)
Read(t, r, e) == [t |-> t, r |-> r, e |-> e]
Expect(s, tok) == IF Cur(s) = tok THEN Read(<<>>, Adv(s), 0) ELSE Read(<<>>, s, 1)
Named(type, name, x) == [x EXCEPT !.t = <<Node(type, name, x.t)>>]

(* One after the other the parts of a rule: tokens that are expected, or   *)
(* the rules of the parser, in angle brackets.                             *)
RECURSIVE Part(_, _), Rule(_, _)
Then(x, parts) ==
  LET Both(y) == Read(x.t \o y.t, y.r, x.e + y.e) IN Both(Rule(x.r, parts))
Rule(s, parts) == IF parts = <<>> THEN Read(<<>>, s, 0) ELSE Then(Part(s, Head(parts)), Tail(parts))
Nothing(s) == Read(<<>>, s, 0)

(* token_precedence: what ties operands tighter has the greater number     *)
Precedence(op) ==
  CASE op = "||" -> 10 [] op = "&&" -> 20 [] op = "|" -> 30 [] op = "^" -> 40 [] op = "&" -> 50
    [] op \in {"==", "!="} -> 60 [] op \in {"<", ">", "<=", ">="} -> 70 [] op \in {"<<", ">>"} -> 80
    [] op \in {"+", "-"} -> 90 [] op \in {"*", "/", "%"} -> 100 [] op \in {"!", "~"} -> 110 [] OTHER -> 0
Unary == 110
Closing == {"EOF", ";", ",", ")", "]", "}", ":"}

RightFloor(prec) == prec            \* the right operand takes operators of the same level
RECURSIVE ParseExpr(_, _), LeftDenotation(_, _)

(* parser_parse_expr: a prefix expression, then the infix operators that   *)
(* bind at least as tightly as min.  Prefix operators and braces return at *)
(* once; a question mark has no precedence and never is an infix operator. *)
ParseExpr(s, min) ==
  LET tok == Cur(s)
      rest == Adv(s)
  IN CASE tok \in Names \cup {"expr_error"} -> LeftDenotation(Read(<<Ident(tok)>>, rest, 0), min)
       [] tok \in Numbers -> LeftDenotation(Read(<<Valued(Node("NUMBER", tok, <<>>), tok)>>, rest, 0), min)
       [] tok \in {"-", "!", "~", "&"} -> Named("UNARY", tok, ParseExpr(rest, Unary))
       [] tok = "(" -> LeftDenotation(Rule(rest, <<"<expr>", ")">>), min)
       [] tok = "{" -> Named("CONCAT", "{}", Rule(rest, IF Cur(rest) = "}" THEN <<"}">> ELSE <<"<list>", "}">>))
       [] tok = "?" -> Named("TERNARY", "?:", Rule(rest, <<"<expr>", ":", "<expr>">>))
       [] OTHER -> Read(<<Node("ERROR", "expr_error", <<>>)>>, rest, 1)

LeftDenotation(left, min) ==
  LET op == Cur(left.r)
      Joined(right) == Read(<<Valued(Node("BINARY", op, left.t \o right.t), op)>>, right.r, left.e + right.e)
  IN IF op \in Closing \/ Precedence(op) = 0 \/ Precedence(op) < min THEN left
     ELSE LeftDenotation(Joined(ParseExpr(Adv(left.r), RightFloor(Precedence(op)))), min)

Listed(x, more) == IF Cur(x.r) = "," THEN Then([x EXCEPT !.r = Adv(@)], <<more>>) ELSE x
-----------------------------------------------------------------------------
(* Declarations.  SkipRange: the tokens of [ ... ] after its bracket.      *)
RECURSIVE SkipRange(_, _)
SkipRange(s, depth) ==
  IF depth = 0 \/ s = <<>> THEN s
  ELSE SkipRange(Adv(s), depth + (IF Cur(s) = "[" THEN 1 ELSE IF Cur(s) = "]" THEN -1 ELSE 0))
AfterRange(s) == IF Cur(s) = "[" THEN SkipRange(Adv(s), 1) ELSE s

(* parser_parse_net_decl *)
ParseNetDecl(s) ==
  LET type == IF Cur(s) = "reg" THEN "REG_DECL" ELSE "NET_DECL"
      Declared(body) == IF Cur(body) \in Names THEN Read(<<Node(type, Cur(body), <<>>)>>, Adv(body), 0) ELSE Nothing(body)
  IN Then(Declared(AfterRange(Adv(s))), <<";">>)

(* parser_parse_port_decl, parser_parse_port_list *)
ParsePortDecl(s) ==
  LET dir == IF Cur(s) \in {"input", "output", "inout"} THEN Cur(s) ELSE ""
      Typed(at) == IF Cur(at) \in {"reg", "wire", "logic"} THEN AfterRange(Adv(at)) ELSE at
      Port(at) == IF Cur(at) \in Names THEN Read(<<Valued(Node("PORT", Cur(at), <<>>), dir)>>, Adv(at), 0) ELSE Nothing(at)
  IN Port(Typed(AfterRange(IF dir = "" THEN s ELSE Adv(s))))

(* the parameter item of parser_parse_module *)
ParseParam(s) ==
  LET name == Cur(Adv(s))
      Value(x) == Valued(Node("PARAM_DECL", name, <<>>), IF Cur(x.r) \in Numbers THEN Cur(x.r) ELSE "")
      Given(x) == Then(Read(<<Value(x)>>, Adv(x.r), x.e), <<";">>)
  IN Given(Rule(Adv(s), <<"<name>", "=">>))

(* parser_parse_assign *)
ParseAssign(s) == Named("ASSIGN", "", Rule(Adv(s), <<"<target>", "=", "<expr>", ";">>))
Target(s) == IF Cur(s) \in Names THEN Read(<<Ident(Cur(s))>>, Adv(s), 0) ELSE Nothing(s)
-----------------------------------------------------------------------------
(* parser_parse_stmt.  What is no statement is skipped, one token of it;   *)
(* so is the name that begins neither kind of assignment.                  *)
Else(x) == IF Cur(x.r) = "else" THEN Then(x, <<"else", "<stmt>">>) ELSE x
ParseStmt(s) ==
  LET tok == Cur(s)
      rest == Adv(s)
  IN CASE tok = "begin" -> Named("BLOCK", "begin_end", Rule(rest, <<"<block>", "end">>))
       [] tok = "if" -> Named("IF", "if", Else(Rule(rest, <<"(", "<expr>", ")", "<stmt>">>)))
       [] tok = "case" -> Named("CASE", "case", Rule(rest, <<"(", "<expr>", ")", "<cases>", "endcase">>))
       [] tok \in Names /\ Cur(rest) \in {"=", "<="} ->
            Named(IF Cur(rest) = "=" THEN "BA" ELSE "NBA", Cur(rest),
                  Then(Read(<<Ident(tok)>>, Adv(rest), 0), <<"<expr>", ";">>))
       [] OTHER -> Nothing(rest)

ParseBlock(s) == IF Cur(s) \in {"end", "EOF"} THEN Nothing(s) ELSE Rule(s, <<"<stmt>", "<block>">>)
ParseCases(s) ==
  IF Cur(s) \in {"endcase", "EOF"} THEN Nothing(s)
  ELSE Rule(s, <<IF Cur(s) = "default" THEN "default" ELSE "<expr>", ":", "<stmt>", "<cases>">>)

(* parser_parse_sensitivity_list, parser_parse_always_block; the edge of a *)
(* signal is read and forgotten.                                           *)
Sensitive(s) ==
  LET edge == Cur(s) \in {"posedge", "negedge"}
      at == IF edge THEN Adv(s) ELSE s
  IN IF Cur(at) \in Names \/ (~ edge /\ Cur(at) = "*") THEN Read(<<Ident(Cur(at))>>, Adv(at), 0) ELSE Nothing(at)
MoreSignals(x) == IF Cur(x.r) \in {"or", ","} THEN Then([x EXCEPT !.r = Adv(@)], <<"<signals>">>) ELSE x
ParseSensitivity(s) == IF Cur(s) \in {")", "EOF"} THEN Nothing(s) ELSE MoreSignals(Sensitive(s))

ParseAlways(s) ==
  Named("ALWAYS", "always", Rule(Adv(s), <<"@", "(", "<sensitivity>", ")", "<stmt>">>))

(* parser_parse_module: the items up to endmodule; unknown tokens are      *)
(* skipped.  parser_parse: modules up to the end of the text.              *)
ItemParse(s) ==
  CASE Cur(s) \in {"wire", "reg"} -> ParseNetDecl(s)
    [] Cur(s) = "assign" -> ParseAssign(s)
    [] Cur(s) = "always" -> ParseAlways(s)
    [] Cur(s) \in {"input", "output", "inout"} -> ParsePortDecl(s)
    [] Cur(s) \in {"parameter", "localparam"} -> ParseParam(s)
    [] OTHER -> Nothing(Adv(s))
ParseItems(s) == IF Cur(s) \in {"endmodule", "EOF"} THEN Nothing(s) ELSE Then(ItemParse(s), <<"<items>">>)

ParsePorts(s) ==
  IF Cur(s) = "(" THEN Then(Named("PORT_LIST", "ports", Rule(Adv(s), <<"<ports>">>)), <<")">>) ELSE Nothing(s)
ParseModule(s) ==
  Named("MODULE", Cur(Adv(s)), Rule(Adv(s), <<"<name>", "<header>", ";", "<items>", "endmodule">>))
ParseRoot(s) ==
  IF s = <<>> THEN Nothing(s)
  ELSE IF Cur(s) = "module" THEN Then(ParseModule(s), <<"<modules>">>)
  ELSE Rule(Adv(s), <<"<modules>">>)

Part(s, part) ==
  CASE part = "<expr>" -> ParseExpr(s, 0)
    [] part = "<list>" -> Listed(ParseExpr(s, 0), "<list>")
    [] part = "<target>" -> Target(s)
    [] part = "<stmt>" -> ParseStmt(s)
    [] part = "<block>" -> ParseBlock(s)
    [] part = "<cases>" -> ParseCases(s)
    [] part = "<signals>" -> ParseSensitivity(s)
    [] part = "<sensitivity>" -> Named("SENSITIVITY", "sensitivity", ParseSensitivity(s))
    [] part = "<items>" -> ParseItems(s)
    [] part = "<name>" -> IF Cur(s) \in Names THEN Nothing(Adv(s)) ELSE Read(<<>>, s, 1)
    [] part = "<ports>" -> Listed(ParsePortDecl(s), "<ports>")
    [] part = "<header>" -> ParsePorts(s)
    [] part = "<modules>" -> ParseRoot(s)
    [] OTHER -> Expect(s, part)
-----------------------------------------------------------------------------
(* Verilog text, as the tokens a reader of it sees: codegen_emit_expr,     *)
(* codegen_emit_stmt, codegen_emit_assign, codegen_emit_always and         *)
(* codegen_emit_verilog.  The parser leaves the operator kind of a unary   *)
(* node empty and the generator prints a question mark for it.             *)
Joined(ss, sep) ==
  FoldLeft(LAMBDA acc, s : IF acc = <<>> THEN s ELSE acc \o <<sep>> \o s, <<>>, ss)

RECURSIVE EmitExpr(_), EmitStmt(_)
EmitBinary(n) == <<"(">> \o EmitExpr(n.ks[1]) \o <<n.v>> \o EmitExpr(n.ks[2]) \o <<")">>
EmitExpr(n) ==
  CASE n.ty = "NUMBER" -> <<n.v>>
    [] n.ty = "BINARY" -> EmitBinary(n)
    [] n.ty = "UNARY" -> <<"?">> \o EmitExpr(n.ks[1])
    [] n.ty = "TERNARY" -> <<"(">> \o EmitExpr(n.ks[1]) \o <<"?">> \o EmitExpr(n.ks[2]) \o <<":", ")">>
    [] n.ty = "CONCAT" -> <<"{">> \o Joined([i \in DOMAIN n.ks |-> EmitExpr(n.ks[i])], ",") \o <<"}">>
    [] OTHER -> <<n.nm>>

EmitStmt(n) ==
  CASE n.ty = "BLOCK" -> <<"begin">> \o FlattenSeq([i \in DOMAIN n.ks |-> EmitStmt(n.ks[i])]) \o <<"end">>
    [] n.ty = "IF" ->
         <<"if", "(">> \o EmitExpr(n.ks[1]) \o <<")">>
           \o (IF Len(n.ks) > 1 THEN EmitStmt(n.ks[2]) ELSE <<>>)
           \o (IF Len(n.ks) > 2 THEN <<"else">> \o EmitStmt(n.ks[3]) ELSE <<>>)
    [] n.ty \in {"BA", "NBA"} -> EmitExpr(n.ks[1]) \o <<n.nm>> \o EmitExpr(n.ks[2]) \o <<";">>
    [] OTHER -> <<>>

EmitAssign(n) ==
  <<"assign">> \o (IF Len(n.ks) > 0 THEN EmitExpr(n.ks[1]) ELSE <<>>) \o <<"=">>
    \o (IF Len(n.ks) > 1 THEN EmitExpr(n.ks[2]) ELSE <<>>) \o <<";">>

EmitAlways(n) ==
  LET sens == ChildrenOfType(n, "SENSITIVITY")
      signals == IF sens = <<>> THEN <<>> ELSE sens[1].ks
      body == SelectSeq(n.ks, LAMBDA k : k.ty # "SENSITIVITY")
  IN <<"always", "@", "(">> \o Joined([i \in DOMAIN signals |-> EmitExpr(signals[i])], "or") \o <<")">>
       \o FlattenSeq([i \in DOMAIN body |-> EmitStmt(body[i])])

EmitItem(n) ==
  CASE n.ty = "NET_DECL" -> <<"wire", n.nm, ";">>
    [] n.ty = "REG_DECL" -> <<"reg", n.nm, ";">>
    [] n.ty = "PARAM_DECL" -> <<"parameter", n.nm, "=", n.v, ";">>
    [] n.ty = "ASSIGN" -> EmitAssign(n)
    [] n.ty = "ALWAYS" -> EmitAlways(n)
    [] OTHER -> <<>>

EmitPort(p) == (IF p.v = "" THEN <<>> ELSE <<p.v>>) \o <<p.nm>>
EmitModule(m) ==
  LET pl == ChildrenOfType(m, "PORT_LIST")
      header == IF pl = <<>> THEN <<>>
                ELSE <<"(">> \o Joined([i \in DOMAIN pl[1].ks |-> EmitPort(pl[1].ks[i])], ",") \o <<")">>
      body == SelectSeq(m.ks, LAMBDA k : k.ty # "PORT_LIST")
  IN <<"module", m.nm>> \o header \o <<";">>
       \o FlattenSeq([i \in DOMAIN body |-> EmitItem(body[i])]) \o <<"endmodule">>
-----------------------------------------------------------------------------
(* Elaboration.  elaborator_add_module: the ports, nets and parameters of  *)
(* a module become symbols of the scope that is current: the outermost.    *)
Symbol(name, kind, value) == [nm |-> name, kind |-> kind, value |-> value]
DeclKind(n) == CASE n.ty = "NET_DECL" -> "NET" [] n.ty = "REG_DECL" -> "REG" [] OTHER -> n.ty
SymbolsOf(m) ==
  LET pl == ChildrenOfType(m, "PORT_LIST")
      nets == SelectSeq(m.ks, LAMBDA k : k.ty \in {"NET_DECL", "REG_DECL"})
      params == ChildrenOfType(m, "PARAM_DECL")
      declared == nets \o params
  IN (IF pl = <<>> THEN <<>> ELSE [i \in DOMAIN pl[1].ks |-> Symbol(pl[1].ks[i].nm, "PORT", "")])
     \o [i \in DOMAIN declared |-> Symbol(declared[i].nm, DeclKind(declared[i]), "")]

(* elaborator_lookup: the first symbol of that name, whoever declared it.  *)
Lookup(syms, name) ==
  SelectInSeq(syms, LAMBDA y : y.nm = name)

(* elaborator_resolve_params: a parameter writes its value to the symbol   *)
(* the look-up finds, when that is a parameter.                            *)
Resolve(syms, m) ==
  FoldLeft(LAMBDA acc, p :
             LET i == Lookup(acc, p.nm)
             IN IF i # 0 /\ acc[i].kind = "PARAM_DECL" THEN [acc EXCEPT ![i].value = p.v] ELSE acc,
           syms, ChildrenOfType(m, "PARAM_DECL"))

(* elaborator_topological_sort: adj and indegree, then Kahn's queue.       *)
Counted(inst) ==                       \* faulty: an edge for every instance
  [k \in 1 .. Designs |-> FoldLeft(LAMBDA n, i : n + Len(SelectSeq(inst[i], LAMBDA c : c = k)), 0,
                                   [j \in 1 .. Designs |-> j])]
Indegree(inst) ==
  [k \in 1 .. Designs |-> Cardinality({i \in 1 .. Designs : \E j \in DOMAIN inst[i] : inst[i][j] = k})]
Instantiates(inst, u, v) == \E j \in DOMAIN inst[u] : inst[u][j] = v

RECURSIVE Kahn(_, _, _, _)
Kahn(inst, degree, queue, done) ==
  IF queue = <<>> THEN done
  ELSE LET u == Head(queue)
           left == [v \in 1 .. Designs |-> IF Instantiates(inst, u, v) THEN degree[v] - 1 ELSE degree[v]]
           ready == SelectSeq([i \in 1 .. Designs |-> i],
                              LAMBDA v : Instantiates(inst, u, v) /\ left[v] = 0)
       IN Kahn(inst, left, Tail(queue) \o ready, Append(done, u))

Sorted(inst) ==
  Kahn(inst, Indegree(inst),
       SelectSeq([i \in 1 .. Designs |-> i], LAMBDA v : Indegree(inst)[v] = 0), <<>>)
-----------------------------------------------------------------------------
FrontInit ==
  /\ source = <<>> /\ root = <<>> /\ errors = 0 /\ printed = <<>>
  /\ expr = <<>> /\ tree = NULL
  /\ symbols = <<>> /\ instances = [d \in 1 .. Designs |-> <<>>] /\ order = <<>> /\ complete = FALSE

ItemCount == FoldLeft(LAMBDA n, m : n + Len(m.items), 0, source)
Text(src) ==
  FlattenSeq([i \in DOMAIN src |->
    <<"module", ModuleNames[i]>> \o src[i].ports \o <<";">> \o FlattenSeq(src[i].items) \o <<"endmodule">>])

(* Writing a source: another module, another item of the last one.         *)
WriteModule ==
  /\ root = <<>> /\ Len(source) < Len(ModuleNames)
  /\ \E p \in PortLists : source' = Append(source, [ports |-> p, items |-> <<>>])
  /\ UNCHANGED <<root, errors, printed, exprVars, elabVars>>
WriteItem ==
  /\ root = <<>> /\ source # <<>> /\ ItemCount < MaxItems
  /\ \E f \in Fragments : source' = [source EXCEPT ![Len(source)].items = Append(@, f)]
  /\ UNCHANGED <<root, errors, printed, exprVars, elabVars>>

(* parser_init, parser_parse *)
Parse ==
  /\ root = <<>> /\ source # <<>>
  /\ LET p == ParseRoot(Text(source)) IN root' = p.t /\ errors' = p.e
  /\ UNCHANGED <<source, printed, exprVars, elabVars>>

(* codegen_generate for CODEGEN_VERILOG *)
Generate ==
  /\ root # <<>> /\ printed = <<>>
  /\ printed' = [i \in DOMAIN root |-> EmitModule(root[i])]
  /\ UNCHANGED <<source, root, errors, exprVars, elabVars>>

(* elaborator_add_module for every module, elaborator_elaborate_all        *)
Elaborate ==
  /\ root # <<>> /\ symbols = <<>>
  /\ symbols' = FoldLeft(Resolve, FlattenSeq([i \in DOMAIN root |-> SymbolsOf(root[i])]), root)
  /\ UNCHANGED <<sourceVars, exprVars, instances, order, complete>>

(* parser_parse_expr on its own: operands and operators, in parentheses or *)
(* braces or after a prefix operator where the caller wrote them.          *)
WriteExpr ==
  /\ tree = NULL /\ Len(expr) < 2 * MaxExpr + 1
  /\ \E x \in Operands : IF expr = <<>> THEN expr' = <<x>>
                     ELSE \E op \in Operators : expr' = expr \o <<op, x>>
  /\ UNCHANGED <<sourceVars, tree, elabVars>>
ReadExpr ==
  /\ tree = NULL /\ expr # <<>>
  /\ tree' = ParseExpr(expr, 0).t[1]
  /\ UNCHANGED <<sourceVars, expr, elabVars>>

(* elaborator_bind_instance *)
BindInstance ==
  /\ order = <<>> /\ ~ complete
  /\ FoldLeft(LAMBDA n, d : n + Len(instances[d]), 0, [d \in 1 .. Designs |-> d]) < MaxInstances
  /\ \E parent, child \in 1 .. Designs :
       /\ \A later \in parent + 1 .. Designs : instances[later] = <<>>
       /\ instances' = [instances EXCEPT ![parent] = Append(@, child)]
  /\ UNCHANGED <<sourceVars, exprVars, symbols, order, complete>>
SortModules ==
  /\ order = <<>> /\ ~ complete
  /\ order' = Sorted(instances) /\ complete' = (Len(Sorted(instances)) = Designs)
  /\ UNCHANGED <<sourceVars, exprVars, symbols, instances>>

-----------------------------------------------------------------------------
(* TokensExact: tokens come in the order of the text and leave out only    *)
(* white space and comments; two that touch could not have been read as    *)
(* one; each carries the number of its line whatever comments came before; *)
(* and a look ahead neither loses a token nor counts an error twice.       *)
AllRead == tokens \o lexer.ahead
Outside(k) ==
  Char(k) \in Blanks \/ \E j \in 1 .. k : Char(j) = "/" /\ (Char(j + 1) \in {"/", "*"})
Gap(i) == (IF i = 1 THEN 1 ELSE AllRead[i - 1].to + 1) .. AllRead[i].from - 1
Apart(s, t) ==
  /\ <<Char(s.to), Char(t.from)>> \in Pairs => s.from < s.to \/ s.kind = "string"
  /\ s.kind \in {"ident", "keyword"} => Char(t.from) \notin WordChars

TokensExact ==
  /\ \A i \in DOMAIN AllRead :
       /\ AllRead[i].kind # "eof" => AllRead[i].from <= AllRead[i].to
       /\ \A k \in Gap(i) : Outside(k)
       /\ AllRead[i].line = 1 + Cardinality({k \in 1 .. AllRead[i].from - 1 : Char(k) = "nl"})
  /\ \A i \in 2 .. Len(AllRead) :
       AllRead[i].from > AllRead[i - 1].to /\ (AllRead[i].from = AllRead[i - 1].to + 1 => Apart(AllRead[i - 1], AllRead[i]))
  /\ LET unknown == Len(SelectSeq(AllRead, LAMBDA t : t.kind = "error"))
     IN lexer.errors = IF unknown > MaxErrors THEN MaxErrors ELSE unknown

(* The tree of an expression has its tokens in order at its nodes, and     *)
(* follows the precedences: an operator in a left operand binds tighter    *)
(* than the one above it, in a right operand at least as tight.  This      *)
(* determines the tree, so operators of one level nest to the right.       *)
RECURSIVE Flat(_), Ordered(_)
Flat(n) == IF n.ty = "BINARY" THEN Flat(n.ks[1]) \o <<n.v>> \o Flat(n.ks[2]) ELSE <<n.nm>>
Ordered(n) ==
  n.ty = "BINARY" =>
    /\ n.ks[1].ty = "BINARY" => Precedence(n.ks[1].v) > Precedence(n.v)
    /\ n.ks[2].ty = "BINARY" => Precedence(n.ks[2].v) >= Precedence(n.v)
    /\ Ordered(n.ks[1]) /\ Ordered(n.ks[2])
ExpressionsRead == tree # NULL => Flat(tree) = expr /\ Ordered(tree)

(* No item of a source takes tokens of its neighbours: the modules have    *)
(* the items their texts give one by one.                                  *)
ItemsApart ==
  root # <<>> =>
    /\ errors = 0 /\ Len(root) = Len(source)
    /\ \A i \in DOMAIN source :
         SelectSeq(root[i].ks, LAMBDA k : k.ty # "PORT_LIST")
           = FlattenSeq([j \in DOMAIN source[i].items |-> ItemParse(source[i].items[j]).t])

(* The Verilog the generator prints of a tree reads back as that tree,     *)
(* where it prints all of it: prefix operators, case statements and ports  *)
(* declared in a body it does not.                                         *)
RECURSIVE Printable(_)
Printable(n) == n.ty \notin {"UNARY", "CASE", "ERROR", "TERNARY"} /\ \A i \in DOMAIN n.ks : Printable(n.ks[i])
InBody(m) == \A i \in DOMAIN m.ks : m.ks[i].ty # "PORT"
GeneratedReads ==
  printed # <<>> /\ errors = 0 =>
    \A i \in DOMAIN root :
      Printable(root[i]) /\ InBody(root[i]) => ParseModule(printed[i]) = Read(<<root[i]>>, <<>>, 0)

SourcesRead == ExpressionsRead /\ ItemsApart /\ GeneratedReads

(* Sorting succeeds exactly when no module contains itself, however far    *)
(* down, and then every module comes before those it instantiates; with a  *)
(* cycle the order lists those that no cycle leads to.                     *)
RECURSIVE Below(_)
Below(ds) ==
  LET next == ds \cup {v \in 1 .. Designs : \E u \in ds : Instantiates(instances, u, v)}
  IN IF next = ds THEN ds ELSE Below(next)
Children(u) == {v \in 1 .. Designs : Instantiates(instances, u, v)}
Cyclic == {u \in 1 .. Designs : u \in Below(Children(u))}
OrderSound ==
  order # <<>> \/ complete =>
    /\ complete <=> Cyclic = {}
    /\ ToSet(order) = (1 .. Designs) \ Below(Cyclic)
    /\ \A i, j \in DOMAIN order : Instantiates(instances, order[i], order[j]) => i < j
=============================================================================
