------------------------------- MODULE Blocks -------------------------------
(***************************************************************************)
(* From the lines of a rule file to its rules, branches and actions: the   *)
(* indentation stack of the lexer (lexer.py: lex) and the block structure  *)
(* of the parser (parser.py: parse_source).                                *)
(*                                                                         *)
(* A line is its indentation and what it is: an import, a rule header, a   *)
(* branch header, a then line, or anything else.  Its own tokens are well  *)
(* formed and stand for one; blank lines and comments leave no token.      *)
(***************************************************************************)
EXTENDS Loops, Sequences

LineKind == {"import", "rule", "when", "elif", "else", "then", "other"}

Line == [indent: Nat, kind: LineKind]

-----------------------------------------------------------------------------
(* Lexer.  A token is INDENT, DEDENT, a line with its end, or EOF.         *)

Token(kind, line) == [kind |-> kind, line |-> line]

Top(stack) == stack[Len(stack)]

Latest(S) == CHOOSE i \in S : \A j \in S : j <= i

(* How many levels at the top of the indentation stack are above an        *)
(* indentation; the lowest is 0, which none is below.                      *)
Above(stack, indent) ==
  Len(stack) - Latest({i \in 1 .. Len(stack) : stack[i] <= indent})

Dedents(n, line) == [i \in 1 .. n |-> Token("DEDENT", line)]

(* A line is lexed: its indentation is pushed, or the stack is popped down *)
(* to it.  The first variant is wrong: a line that matches no enclosing    *)
(* block is taken for one of the block it lands in.                        *)
LexLineLenient(x, lines, n) ==
  LET indent == lines[n].indent
      k      == Above(x.stack, indent)
      below  == SubSeq(x.stack, 1, Len(x.stack) - k)
  IN  [stack  |-> IF indent > Top(x.stack) THEN Append(x.stack, indent) ELSE below,
       tokens |-> x.tokens
                  \o (IF indent > Top(x.stack) THEN <<Token("INDENT", n)>>
                                                   ELSE Dedents(k, n))
                  \o <<Token(lines[n].kind, n)>>,
       bad    |-> x.bad]

LexLine(x, lines, n) ==
  LET indent == lines[n].indent
      k      == Above(x.stack, indent)
      below  == SubSeq(x.stack, 1, Len(x.stack) - k)
  IN  [stack  |-> IF indent > Top(x.stack) THEN Append(x.stack, indent) ELSE below,
       tokens |-> x.tokens
                  \o (IF indent > Top(x.stack) THEN <<Token("INDENT", n)>>
                                                   ELSE Dedents(k, n))
                  \o <<Token(lines[n].kind, n)>>,
       bad    |-> x.bad \/ (indent < Top(x.stack) /\ indent # Top(below))]

LexedUpTo(lines, n) ==
  LET lexed[k \in 0 .. n] ==
        IF k = 0 THEN [stack |-> <<0>>, tokens |-> <<>>, bad |-> FALSE]
        ELSE LexLine(lexed[k - 1], lines, k)
  IN  lexed[n]

(* The blocks still open are closed after the last line.                   *)
Closed(x, end) ==
  [tokens |-> x.tokens \o Dedents(Len(x.stack) - 1, end) \o <<Token("EOF", end)>>,
   bad    |-> x.bad]

Lex(lines) == Closed(LexedUpTo(lines, Len(lines)), Len(lines) + 1)

-----------------------------------------------------------------------------
(* Parser.  Every function takes the tokens and what was parsed so far,    *)
(* with the position of the next token and the lines something was         *)
(* reported at: the line of the token that was not the expected one.       *)

Kind(s, p) == s[p.at].kind

Report(s, p) == [p EXCEPT !.errs = @ \union {s[p.at].line}]

Step(p) == [p EXCEPT !.at = @ + 1]

Expect(s, kind, p) == IF Kind(s, p) = kind THEN Step(p) ELSE Report(s, p)

(* Past the line the next token belongs to, or to the end.                 *)
SkipLine(s, p) ==
  LET to == CHOOSE i \in p.at .. Len(s) :
              /\ s[i].kind \notin {"INDENT", "DEDENT"}
              /\ \A j \in p.at .. i - 1 : s[j].kind \in {"INDENT", "DEDENT"}
  IN  [p EXCEPT !.at = IF s[to].kind = "EOF" THEN to ELSE to + 1]

(* The lines of a branch, up to its end: then lines are its actions, any   *)
(* other line is reported and skipped.                                     *)
ThenStep(s, p) ==
  CASE Kind(s, p) \in {"DEDENT", "EOF"} -> Stopped(p)
    [] Kind(s, p) = "then" -> Going([Step(p) EXCEPT !.got = Append(@, s[p.at].line)])
    [] OTHER -> Going(SkipLine(s, Report(s, p)))

ParseThens(s, p) == Loop(LAMBDA x : ThenStep(s, x), [p EXCEPT !.got = <<>>], Len(s))

(* A branch that has been read, appended to the branches so far.           *)
EndBranch(s, head, thens, branches) ==
  LET some == IF thens.got = <<>> THEN Report(s, thens) ELSE thens
  IN  [Expect(s, "DEDENT", some) EXCEPT
         !.got = Append(branches, [kind |-> head.kind, line |-> head.line,
                                   thens |-> thens.got])]

ParseBranch(s, p, branches) ==
  EndBranch(s, s[p.at], ParseThens(s, Expect(s, "INDENT", Step(p))), branches)

ElifStep(s, p) ==
  IF Kind(s, p) = "elif" THEN Going(ParseBranch(s, p, p.got)) ELSE Stopped(p)

ParseElifs(s, p) == Loop(LAMBDA x : ElifStep(s, x), p, Len(s))

ParseElse(s, p) == IF Kind(s, p) = "else" THEN ParseBranch(s, p, p.got) ELSE p

ParseBranches(s, p) ==
  IF Kind(s, p) # "when" THEN [Report(s, p) EXCEPT !.got = <<>>]
  ELSE ParseElse(s, ParseElifs(s, ParseBranch(s, p, <<>>)))

(* The file: its imports and its rules, each with its branches.            *)
ParseRule(s, p, rules) ==
  LET body == ParseBranches(s, Expect(s, "INDENT", Step(p)))
  IN  [Expect(s, "DEDENT", body) EXCEPT
         !.got = Append(rules, [line |-> s[p.at].line, branches |-> body.got])]

TopStep(s, p) ==
  CASE Kind(s, p) = "EOF"    -> Stopped(p)
    [] Kind(s, p) = "import" ->
         Going([Step(p) EXCEPT !.imports = Append(@, s[p.at].line)])
    [] Kind(s, p) = "rule"   -> Going(ParseRule(s, p, p.got))
    [] OTHER -> Going(SkipLine(s, Report(s, p)))

ParseTop(s, p) == Loop(LAMBDA x : TopStep(s, x), p, Len(s))

ParseLexed(x) ==
  LET end == ParseTop(x.tokens, [at |-> 1, errs |-> {}, imports |-> <<>>, got |-> <<>>])
  IN  [imports |-> end.imports, rules |-> end.got, errs |-> end.errs, bad |-> x.bad]

ParseBlocks(lines) == ParseLexed(Lex(lines))

-----------------------------------------------------------------------------
(* The declarative reading of the indentation: a line belongs to the       *)
(* nearest line before it that is indented less, line 0 being the file;    *)
(* the lines of one block are indented alike.                              *)

Parent(lines, n) ==
  Latest({0} \union {i \in 1 .. n - 1 : lines[i].indent < lines[n].indent})

(* The members of S up to n, in order.                                     *)
InOrder(S, n) ==
  LET upTo[k \in 0 .. n] ==
        IF k = 0 THEN <<>> ELSE IF k \in S THEN Append(upTo[k - 1], k) ELSE upTo[k - 1]
  IN  upTo[n]

Block(lines, n) == {i \in 1 .. Len(lines) : Parent(lines, i) = n}

BlockInOrder(lines, n) == InOrder(Block(lines, n), Len(lines))

KindsIn(lines, n) ==
  [i \in DOMAIN BlockInOrder(lines, n) |-> lines[BlockInOrder(lines, n)[i]].kind]

BranchKinds == {"when", "elif", "else"}

IsBranchList(kinds) ==
  /\ kinds # <<>>
  /\ kinds[1] = "when"
  /\ \A i \in 2 .. Len(kinds) :
       kinds[i] = "elif" \/ (kinds[i] = "else" /\ i = Len(kinds))

WellFormed(lines) ==
  /\ \A i \in Block(lines, 0) :
       lines[i].indent = 0 /\ lines[i].kind \in {"import", "rule"}
  /\ \A n \in 1 .. Len(lines) :
       /\ \A i, j \in Block(lines, n) : lines[i].indent = lines[j].indent
       /\ CASE lines[n].kind = "rule" -> IsBranchList(KindsIn(lines, n))
            [] lines[n].kind \in BranchKinds ->
                 /\ Block(lines, n) # {}
                 /\ \A i \in Block(lines, n) : lines[i].kind = "then"
            [] OTHER -> Block(lines, n) = {}

TopLines(lines, kind) ==
  InOrder({i \in Block(lines, 0) : lines[i].kind = kind}, Len(lines))

ImportsOf(lines) == TopLines(lines, "import")

RulesOf(lines) ==
  LET rules == TopLines(lines, "rule")
      branch(n) == [kind |-> lines[n].kind, line |-> n, thens |-> BlockInOrder(lines, n)]
      rule(n) == [line |-> n, branches |->
                    [b \in DOMAIN BlockInOrder(lines, n) |->
                       branch(BlockInOrder(lines, n)[b])]]
  IN  [r \in DOMAIN rules |-> rule(rules[r])]
=============================================================================
