------------------------------ MODULE SqlLexer ------------------------------
(***************************************************************************)
(* How SqlDumpReader.nextOperation reads one byte of SQL, and how psql     *)
(* does.                                                                   *)
(*                                                                         *)
(* Bytes are the classes the two of them tell apart, "quote" the double    *)
(* quote.  Read is the reader: one mode at a time, a peek at the next byte *)
(* where a byte may be the first of a pair.  Psql is the reference,        *)
(* PostgreSQL's lexical rules with psql's parentheses: no peek, a state    *)
(* after each byte.  Psql is external; the code names its quoting rules in *)
(* plain-sql-restore.md.                                                   *)
(***************************************************************************)
EXTENDS Integers, Sequences

Letters == {"a", "E"}
TagPart == Letters \cup {"1"}
Space   == {"blank", "\n"}
Bytes   == TagPart \cup Space
             \cup {"'", "quote", "$", "-", "/", "*", "semicolon", "\\", "(", ")", "+"}

-----------------------------------------------------------------------------
(* The reader's locals of one nextOperation.                               *)
Fresh ==
  [mode |-> "normal", depth |-> 0, escaped |-> FALSE, backslashes |-> FALSE,
   prev |-> "none", before |-> "none", candidate |-> <<>>, delimiter |-> <<>>,
   match |-> 0, hasCode |-> FALSE]

(* Bytes whose meaning depends on the next one.                            *)
Peeks(lex, c) ==
  CASE lex.mode = "block-comment" -> c \in {"/", "*"}
    [] lex.mode = "single-quote"  -> c = "'" /\ ~lex.escaped
    [] lex.mode = "double-quote"  -> c = "quote"
    [] lex.mode \in {"normal", "dollar-candidate"} -> c \in {"-", "/"}
    [] OTHER -> FALSE

(* What a byte did: the locals after it, whether it took the byte peeked   *)
(* at with it, and whether it ends the statement.                          *)
Took(lex)    == [lex |-> lex, pair |-> FALSE, ends |-> FALSE]
TookTwo(lex) == [lex |-> lex, pair |-> TRUE, ends |-> FALSE]

Unseen(lex) == [lex EXCEPT !.prev = "none", !.before = "none"]
Code(lex)   == [lex EXCEPT !.hasCode = TRUE]

\* Mutant: E is taken for the escape prefix at the end of any identifier.
EscapePrefixAny(lex) == lex.prev = "E"

EscapePrefix(lex) == lex.prev = "E" /\ lex.before \notin TagPart

Normal(lex, c, next) ==
  CASE c = "-" /\ next = "-" -> TookTwo([Unseen(lex) EXCEPT !.mode = "line-comment"])
    [] c = "/" /\ next = "*" ->
         TookTwo([Unseen(lex) EXCEPT !.mode = "block-comment", !.depth = 1])
    [] c = "'"  -> Took([Code(lex) EXCEPT !.mode = "single-quote",
                                          !.backslashes = EscapePrefix(lex)])
    [] c = "quote" -> Took([Code(Unseen(lex)) EXCEPT !.mode = "double-quote"])
    [] c = "$"  -> Took([Code(Unseen(lex)) EXCEPT !.mode = "dollar-candidate",
                                                  !.candidate = <<>>])
    [] c = "semicolon" -> [lex |-> Code(lex), pair |-> FALSE, ends |-> TRUE]
    [] c \in Space -> Took(Unseen(lex))
    [] OTHER -> Took([Code(lex) EXCEPT !.before = lex.prev, !.prev = c])

\* Mutant: the end of a comment leaves the count.
OutwardNever(depth) == depth

Outward(depth) == depth - 1

BlockComment(lex, c, next) ==
  CASE c = "/" /\ next = "*" -> TookTwo([lex EXCEPT !.depth = @ + 1])
    [] c = "*" /\ next = "/" ->
         TookTwo([lex EXCEPT !.depth = Outward(@),
                             !.mode = IF lex.depth = 1 THEN "normal" ELSE @])
    [] OTHER -> Took(lex)

SingleQuote(lex, c, next) ==
  CASE lex.escaped -> Took([lex EXCEPT !.escaped = FALSE])
    [] ~lex.escaped /\ lex.backslashes /\ c = "\\" -> Took([lex EXCEPT !.escaped = TRUE])
    [] ~lex.escaped /\ c = "'" /\ next = "'" -> TookTwo(lex)
    [] ~lex.escaped /\ c = "'" /\ next # "'" ->
         Took([lex EXCEPT !.mode = "normal", !.before = "none", !.prev = c])
    [] OTHER -> Took(lex)

DoubleQuote(lex, c, next) ==
  CASE c = "quote" /\ next = "quote" -> TookTwo(lex)
    [] c = "quote" /\ next # "quote" -> Took([lex EXCEPT !.mode = "normal"])
    [] OTHER -> Took(lex)

(* A byte that cannot continue the tag is read again in normal mode.       *)
DollarCandidate(lex, c, next) ==
  CASE c = "$" -> Took([lex EXCEPT !.mode = "dollar-quote", !.delimiter = @ \o lex.candidate,
                                   !.candidate = <<>>, !.match = 0])
    [] c \in (IF lex.candidate = <<>> THEN Letters ELSE TagPart) ->
         Took([lex EXCEPT !.candidate = Append(@, c)])
    [] OTHER -> Normal([lex EXCEPT !.mode = "normal", !.candidate = <<>>], c, next)

(* The delimiter is the tag between two dollars.                           *)
DelimiterAt(lex, i) ==
  IF i \in {1, Len(lex.delimiter) + 2} THEN "$" ELSE lex.delimiter[i - 1]

\* Mutant: after a mismatch the byte is never the first of a new match.
RestartNever(c) == 0

Restart(c) == IF c = "$" THEN 1 ELSE 0

DollarQuote(lex, c) ==
  CASE c = DelimiterAt(lex, lex.match + 1) /\ lex.match + 1 = Len(lex.delimiter) + 2 ->
         Took([lex EXCEPT !.mode = "normal", !.match = 0, !.delimiter = <<>>])
    [] c = DelimiterAt(lex, lex.match + 1) /\ lex.match + 1 # Len(lex.delimiter) + 2 ->
         Took([lex EXCEPT !.match = @ + 1])
    [] OTHER -> Took([lex EXCEPT !.match = Restart(c)])

Read(lex, c, next) ==
  CASE lex.mode = "normal"           -> Normal(lex, c, next)
    [] lex.mode = "line-comment"     -> Took([lex EXCEPT !.mode = IF c = "\n" THEN "normal" ELSE @])
    [] lex.mode = "block-comment"    -> BlockComment(lex, c, next)
    [] lex.mode = "single-quote"     -> SingleQuote(lex, c, next)
    [] lex.mode = "double-quote"     -> DoubleQuote(lex, c, next)
    [] lex.mode = "dollar-candidate" -> DollarCandidate(lex, c, next)
    [] lex.mode = "dollar-quote"     -> DollarQuote(lex, c)

(* Modes in which the end of the file is an error of its own.              *)
Unclosed(lex) == lex.mode \in {"single-quote", "double-quote", "block-comment", "dollar-quote"}

-----------------------------------------------------------------------------
(* The reference.  at: where in the text; depth, parens: how deep in       *)
(* comments and parentheses; code: something was read since the last end;  *)
(* ends: the last byte ended a statement or a payload; word: the           *)
(* identifier or number being read, as far as it matters; tag and seen:    *)
(* the open delimiter and what may be its end.                             *)
Start == [at |-> "top", depth |-> 0, parens |-> 0, word |-> "none", tag |-> <<>>,
          seen |-> <<>>, code |-> FALSE, ends |-> FALSE]

WordWith(word, c) ==
  CASE c = "E" /\ word = "none" -> "E"
    [] c = "1" /\ word \in {"none", "number"} -> "number"
    [] OTHER -> "word"

(* A first dash or slash counts as code only once it stays alone.          *)
Continued(s, c) ==
  [s EXCEPT !.at = "top", !.word = "none", !.seen = <<>>, !.ends = FALSE,
            !.code = @ \/ s.at \in {"dash", "slash"} \/ c \notin Space \cup {"-", "/"}]

Top(s, c) ==
  LET t == Continued(s, c) IN
  CASE c \in TagPart -> [t EXCEPT !.word = WordWith(s.word, c)]
    [] c = "-"  -> [t EXCEPT !.at = "dash"]
    [] c = "/"  -> [t EXCEPT !.at = "slash"]
    [] c = "'"  -> [t EXCEPT !.at = IF s.word = "E" THEN "escapes" ELSE "string"]
    [] c = "quote" -> [t EXCEPT !.at = "identifier"]
    [] c = "$"  -> [t EXCEPT !.at = "dollar"]
    [] c = "("  -> [t EXCEPT !.parens = @ + 1]
    [] c = ")"  -> [t EXCEPT !.parens = IF @ = 0 THEN 0 ELSE @ - 1]
    [] c = "semicolon" -> IF s.parens = 0 THEN [Start EXCEPT !.ends = TRUE] ELSE t
    [] OTHER    -> t

PsqlText(s, c) ==
  LET to(at) == [s EXCEPT !.at = at, !.ends = FALSE] IN
  CASE s.at = "top" -> Top(s, c)
    [] s.at = "dash" -> IF c = "-" THEN to("line") ELSE Top(s, c)
    [] s.at = "slash" -> IF c = "*" THEN [to("block") EXCEPT !.depth = 1] ELSE Top(s, c)
    [] s.at = "line" -> IF c = "\n" THEN to("top") ELSE s
    [] s.at = "block" ->
         CASE c = "/" -> to("block/") [] c = "*" -> to("block*") [] OTHER -> s
    [] s.at = "block/" ->
         CASE c = "*" -> [to("block") EXCEPT !.depth = @ + 1]
           [] c = "/" -> s
           [] OTHER -> to("block")
    [] s.at = "block*" ->
         CASE c = "/" -> [to(IF s.depth = 1 THEN "top" ELSE "block") EXCEPT !.depth = @ - 1]
           [] c = "*" -> s
           [] OTHER -> to("block")
    [] s.at = "string"      -> IF c = "'" THEN to("string'") ELSE s
    [] s.at = "string'"     -> IF c = "'" THEN to("string") ELSE Top(s, c)
    [] s.at = "escapes"     -> CASE c = "'" -> to("escapes'") [] c = "\\" -> to("escape") [] OTHER -> s
    [] s.at = "escape"      -> to("escapes")
    [] s.at = "escapes'"    -> IF c = "'" THEN to("escapes") ELSE Top(s, c)
    [] s.at = "identifier" -> IF c = "quote" THEN to("identifier'") ELSE s
    [] s.at = "identifier'" -> IF c = "quote" THEN to("identifier") ELSE Top(s, c)
    [] s.at = "dollar" ->
         CASE c = "$" -> [to("body") EXCEPT !.tag = s.seen, !.seen = <<>>]
           [] c \in (IF s.seen = <<>> THEN Letters ELSE TagPart) -> [s EXCEPT !.seen = Append(@, c)]
           [] OTHER -> Top(s, c)
    [] s.at = "body" -> IF c = "$" THEN [to("body$") EXCEPT !.seen = <<>>] ELSE s
    [] s.at = "body$" ->
         CASE c = "$" /\ s.seen = s.tag -> [to("top") EXCEPT !.tag = <<>>, !.seen = <<>>]
           [] c = "$" /\ s.seen # s.tag -> [s EXCEPT !.seen = <<>>]
           [] c \in (IF s.seen = <<>> THEN Letters ELSE TagPart) /\ Len(s.seen) <= Len(s.tag) ->
                [s EXCEPT !.seen = Append(@, c)]
           [] c \in (IF s.seen = <<>> THEN Letters ELSE TagPart) /\ Len(s.seen) > Len(s.tag) -> s
           [] OTHER -> [to("body") EXCEPT !.seen = <<>>]

(* After COPY ... FROM stdin: the rest of the line, then rows up to a line *)
(* that holds only \. and ends in LF or CRLF.                              *)
CopyStarts == [Start EXCEPT !.at = "copy-line", !.ends = TRUE]

PsqlCopy(s, c) ==
  LET to(at) == [s EXCEPT !.at = at, !.ends = FALSE] IN
  CASE s.at = "copy-line" -> IF c = "\n" THEN to("copy") ELSE to("copy-line")
    [] s.at = "copy" /\ c = "\\" -> to("copy\\")
    [] s.at = "copy\\" /\ c = "." -> to("copy\\.")
    [] s.at = "copy\\." /\ c = "\r" -> to("copy\\.\r")
    [] s.at \in {"copy\\.", "copy\\.\r"} /\ c = "\n" -> [Start EXCEPT !.ends = TRUE]
    [] OTHER -> to(IF c = "\n" THEN "copy" ELSE "copy-row")

Psql(s, c) ==
  IF s.at \in {"copy-line", "copy", "copy-row", "copy\\", "copy\\.", "copy\\.\r"}
  THEN PsqlCopy(s, c) ELSE PsqlText(s, c)
=============================================================================
