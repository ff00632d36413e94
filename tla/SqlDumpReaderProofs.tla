-------------------------- MODULE SqlDumpReaderProofs --------------------------
(***************************************************************************)
(* Proofs about SqlDumpReader, for chunks, tags, nesting and lines of any  *)
(* length: the reader stays in lockstep with psql, and no byte of a        *)
(* statement is lost but by a meta-command.                                *)
(*                                                                         *)
(* Alike says what the two have in common between bytes.  ReadMatches      *)
(* shows, mode by mode, that one byte (or two, where the reader peeks)     *)
(* keeps them so; the steps of the reader rest on it, and ReaderInv on the *)
(* steps.                                                                  *)
(***************************************************************************)
EXTENDS SqlDumpReader, TLAPS

Modes == {"normal", "line-comment", "block-comment", "single-quote", "double-quote",
          "dollar-candidate", "dollar-quote"}

Locals ==
  [mode : Modes, depth : Nat, escaped : BOOLEAN, backslashes : BOOLEAN,
   prev : Bytes \cup {"none"}, before : Bytes \cup {"none"},
   candidate : Seq(TagPart), delimiter : Seq(TagPart), match : Nat, hasCode : BOOLEAN]

(* Where psql is when the last byte may be the first of two, and the byte  *)
(* that makes it so.                                                       *)
Outside   == {"dash", "slash", "string'", "escapes'", "identifier'"}
Within    == {"block/", "block*"}
Undecided == Outside \cup Within

Second(at) ==
  CASE at = "dash" -> "-"
    [] at \in {"slash", "block/"} -> "*"
    [] at \in {"string'", "escapes'"} -> "'"
    [] at = "identifier'" -> "quote"
    [] at = "block*" -> "/"

(* The mode of the reader for each place psql may be at.                   *)
Quoted == {"string", "escapes", "escape"}
Body   == {"body", "body$"}

Texts == {"top", "line", "block", "identifier", "dollar"} \cup Undecided \cup Quoted \cup Body

ModeAt(at) ==
  CASE at \in {"top"} \cup Outside -> "normal"
    [] at = "line" -> "line-comment"
    [] at \in {"block"} \cup Within -> "block-comment"
    [] at \in Quoted -> "single-quote"
    [] at = "identifier" -> "double-quote"
    [] at = "dollar" -> "dollar-candidate"
    [] at \in Body -> "dollar-quote"

PsqlStates ==
  [at : Texts, depth : Nat, parens : Nat, word : {"none", "E", "number", "word"},
   tag : Seq(TagPart), seen : Seq(TagPart), code : BOOLEAN, ends : BOOLEAN]

(* Bytes of the closing delimiter read so far.                             *)
Starts(seen, tag) == Len(seen) <= Len(tag) /\ \A i \in 1..Len(seen) : seen[i] = tag[i]

Matched(s) == IF s.at = "body$" /\ Starts(s.seen, s.tag) THEN 1 + Len(s.seen) ELSE 0

TagShape(tag) == tag = <<>> \/ tag[1] \in Letters

(* The identifier or number before the byte, where the reader keeps it.    *)
WordsAgree(l, s) ==
  /\ s.word = "none" <=> l.prev \notin TagPart
  /\ s.word = "E" <=> l.prev = "E" /\ l.before \notin TagPart

(* The reader and psql have read the same text.                            *)
Alike(l, s) ==
  /\ l \in Locals /\ s \in PsqlStates
  /\ l.mode = ModeAt(s.at)
  /\ l.depth = s.depth /\ (s.depth > 0 <=> s.at \in {"block"} \cup Within)
  /\ l.escaped <=> s.at = "escape"
  /\ s.at \in Quoted => (l.backslashes <=> s.at # "string")
  /\ l.candidate = (IF s.at = "dollar" THEN s.seen ELSE <<>>)
  /\ l.delimiter = s.tag /\ l.match = Matched(s)
  /\ s.at \notin Body => s.tag = <<>>
  /\ TagShape(s.tag) /\ (s.at = "dollar" => TagShape(s.seen))
  /\ s.at \notin Quoted => WordsAgree(l, s)
  /\ s.at # "top" => s.word = "none" /\ ~s.ends
  /\ s.code \/ s.at \notin {"top", "line", "block"} \cup Within => l.hasCode

-----------------------------------------------------------------------------
(* The parts: between the bytes, the next part starts where it should.     *)
PartsInv ==
  (phase \in {"scan", "peek"} /\ ~emptied)
    => IF HasByte THEN buffer.partStart = due ELSE due = buffer.index /\ buffer.partStart = 0

(* The line of a payload, as psql knows it.                                *)
RowAt(text) ==
  CASE text = <<>> -> "copy"
    [] text = <<"\\">> -> "copy\\"
    [] text = <<"\\", ".">> -> "copy\\."
    [] text = <<"\\", ".", "\r">> -> "copy\\.\r"
    [] OTHER -> "copy-row"

(* What the byte that was looked at, or waits, may be.                     *)
AheadInv ==
  /\ phase = "scan" /\ ahead = "none" => (psql.at \in Undecided => ended)
  /\ phase = "scan" /\ ahead # "none" =>
       /\ psql.at \in Undecided => ahead # Second(psql.at)
       /\ ahead \in Written(psql, FALSE) /\ ~column1
  /\ phase = "peek" =>
       Peeks(lex, pending) /\ pending \in Written(psql, TRUE)
         /\ (psql.at \in Undecided => pending # Second(psql.at))
  /\ phase = "meta" => psql.at \notin Undecided
  /\ phase \in {"idle", "meta", "copy-line", "payload", "discard"} => ahead = "none"

(* psql is where the reader is.                                            *)
PlaceInv ==
  /\ phase \in {"scan", "peek", "meta"} => Alike(lex, psql) /\ psql.depth <= MaxDepth
  /\ phase = "idle" => psql = [Start EXCEPT !.ends = psql.ends]
  /\ phase = "copy-line" => psql = [Start EXCEPT !.at = "copy-line", !.ends = psql.ends]
  /\ phase \in {"payload", "discard"} => psql = [Start EXCEPT !.at = RowAt(line), !.ends = FALSE]
  /\ line \in Seq(PayloadBytes \ {"\n"})
  /\ phase \notin {"payload", "discard", "refused"} => line = <<>>

ReaderInv ==
  /\ TypeOK /\ lex \in Locals
  /\ ended => buffer.size = 0
  /\ PartsInv /\ PartsIntact
  /\ PlaceInv /\ AheadInv
  /\ SplitsAgree /\ psql.ends \in BOOLEAN /\ NothingDropped

-----------------------------------------------------------------------------
(* One byte of SQL.                                                        *)

(* What a byte did to the reader (r) and to psql (t): they are at the same *)
(* text again, next in view.  Where psql waits for a second byte, next is  *)
(* not that byte, or the reader took it too.                               *)
Together(r, t, next) ==
  /\ Alike(r.lex, t) /\ ~t.ends
  /\ t.at \in Undecided => next # Second(t.at)

Matches(r, t, next) ==
  \/ r.ends /\ ~r.pair /\ t = [Start EXCEPT !.ends = TRUE]
  \/ ~r.ends /\ ~r.pair /\ Together(r, t, next)
  \/ /\ ~r.ends /\ r.pair /\ next # "none"
     /\ Together(r, Psql(t, next), "none") /\ Psql(t, next).at \notin Undecided

LEMMA EmptyTag == <<>> \in Seq(TagPart)
PROOF OBVIOUS

(* The reader is outside quotes and comments, or was about to read a       *)
(* dollar tag that is none.                                                *)
Ready(l, s) ==
  /\ l \in Locals /\ s \in PsqlStates
  /\ l.mode = "normal" /\ l.depth = 0 /\ s.depth = 0 /\ ~l.escaped
  /\ l.candidate = <<>> /\ l.delimiter = <<>> /\ s.tag = <<>> /\ l.match = 0
  /\ WordsAgree(l, s)
  /\ s.code \/ s.at \in {"dash", "slash"} => l.hasCode

(* Where psql is after a byte outside quotes and comments.                 *)
TopAt(s, c) ==
  CASE c = "-"  -> "dash"
    [] c = "/"  -> "slash"
    [] c = "'"  -> IF s.word = "E" THEN "escapes" ELSE "string"
    [] c = "quote" -> "identifier"
    [] c = "$"  -> "dollar"
    [] OTHER    -> "top"

(* What a byte outside quotes and comments does to psql.                   *)
LEMMA TopByte ==
  ASSUME NEW s \in PsqlStates, NEW c \in Bytes, c # "semicolon"
  PROVE  LET t == Top(s, c) IN
         /\ t \in PsqlStates /\ ~t.ends /\ t.at = TopAt(s, c)
         /\ t.depth = s.depth /\ t.tag = s.tag /\ t.seen = <<>>
         /\ t.word = IF c \in TagPart THEN WordWith(s.word, c) ELSE "none"
         /\ t.code => s.code \/ s.at \in {"dash", "slash"} \/ c \notin Space \cup {"-", "/"}
PROOF
<1> DEFINE base == Continued(s, c)
<1>1. /\ base \in PsqlStates /\ ~base.ends /\ base.at = "top" /\ base.depth = s.depth
      /\ base.tag = s.tag /\ base.seen = <<>> /\ base.word = "none"
      /\ base.code => s.code \/ s.at \in {"dash", "slash"} \/ c \notin Space \cup {"-", "/"}
  BY EmptyTag DEF Continued, PsqlStates, Texts
<1>2. Top(s, c) = CASE c \in TagPart -> [base EXCEPT !.word = WordWith(s.word, c)]
                    [] c = "-"  -> [base EXCEPT !.at = "dash"]
                    [] c = "/"  -> [base EXCEPT !.at = "slash"]
                    [] c = "'"  -> [base EXCEPT !.at = IF s.word = "E" THEN "escapes" ELSE "string"]
                    [] c = "quote" -> [base EXCEPT !.at = "identifier"]
                    [] c = "$"  -> [base EXCEPT !.at = "dollar"]
                    [] c = "("  -> [base EXCEPT !.parens = @ + 1]
                    [] c = ")"  -> [base EXCEPT !.parens = IF @ = 0 THEN 0 ELSE @ - 1]
                    [] c = "semicolon"  -> IF s.parens = 0 THEN [Start EXCEPT !.ends = TRUE] ELSE base
                    [] OTHER    -> base
  BY DEF Top
<1> HIDE DEF base
<1>3. CASE c \in TagPart
  <2>1. Top(s, c) = [base EXCEPT !.word = WordWith(s.word, c)]
    BY <1>2, <1>3 DEF TagPart, Letters
  <2>2. WordWith(s.word, c) \in {"none", "E", "number", "word"}
    BY DEF WordWith
  <2>3. TopAt(s, c) = "top"
    BY <1>3 DEF TopAt, TagPart, Letters
  <2> QED BY <1>1, <1>3, <2>1, <2>2, <2>3 DEF PsqlStates
<1>4. CASE c \in {"-", "/", "'", "quote", "$"}
  <2>1. Top(s, c) = [base EXCEPT !.at = TopAt(s, c)]
    BY <1>2, <1>4 DEF TagPart, Letters, TopAt
  <2>2. TopAt(s, c) \in Texts /\ c \notin TagPart
    BY <1>4 DEF TopAt, Texts, Undecided, Outside, Quoted, TagPart, Letters
  <2> QED BY <1>1, <2>1, <2>2 DEF PsqlStates
<1>5. CASE c \in {"(", ")"}
  <2>1. \E n \in Nat : Top(s, c) = [base EXCEPT !.parens = n]
    <3>1. base.parens + 1 \in Nat /\ (IF base.parens = 0 THEN 0 ELSE base.parens - 1) \in Nat
      BY <1>1 DEF PsqlStates
    <3> QED BY <1>2, <1>5, <3>1 DEF TagPart, Letters
  <2>2. TopAt(s, c) = "top" /\ c \notin TagPart
    BY <1>5 DEF TopAt, TagPart, Letters
  <2> QED BY <1>1, <2>1, <2>2 DEF PsqlStates
<1>6. CASE c \in Space \cup {"*", "\\", "+"}
  BY <1>1, <1>2, <1>6 DEF TopAt, TagPart, Letters, Space
<1> QED BY <1>3, <1>4, <1>5, <1>6 DEF Bytes

(* A byte outside quotes and comments does the same to the reader and to   *)
(* psql (mode normal of nextOperation).                                    *)
LEMMA NormalByte ==
  ASSUME NEW l, NEW s, NEW c \in Bytes, NEW next,
         Ready(l, s), c = "semicolon" => s.parens = 0
  PROVE  Matches(Normal(l, c, next), Top(s, c), next)
PROOF
<1> DEFINE r == Normal(l, c, next)
           t == Top(s, c)
           u == Psql(t, next)
<1> SUFFICES Matches(r, t, next)
  OBVIOUS
<1> HIDE DEF r, t
<1>1. /\ l \in Locals /\ s \in PsqlStates
      /\ l.mode = "normal" /\ l.depth = 0 /\ s.depth = 0 /\ ~l.escaped
      /\ l.candidate = <<>> /\ l.delimiter = <<>> /\ s.tag = <<>> /\ l.match = 0
      /\ WordsAgree(l, s) /\ (s.code \/ s.at \in {"dash", "slash"} => l.hasCode)
  BY DEF Ready
<1>2. CASE c = "semicolon"
  <2>1. r = [lex |-> Code(l), pair |-> FALSE, ends |-> TRUE]
    BY <1>2 DEF Normal, Space, r
  <2>2. t = [Start EXCEPT !.ends = TRUE]
    BY <1>2 DEF Top, TagPart, Letters, t
  <2> QED BY <2>1, <2>2 DEF Matches
<1>3. CASE c # "semicolon"
  <2>1. /\ t \in PsqlStates /\ ~t.ends /\ t.at = TopAt(s, c)
        /\ t.depth = 0 /\ t.tag = <<>> /\ t.seen = <<>>
        /\ t.word = (IF c \in TagPart THEN WordWith(s.word, c) ELSE "none")
        /\ t.code => l.hasCode \/ c \notin Space \cup {"-", "/"}
    BY <1>1, <1>3, TopByte DEF t
  <2>2. CASE c = "-" /\ next = "-"
    <3>1. r = TookTwo([Unseen(l) EXCEPT !.mode = "line-comment"])
      BY <2>2 DEF Normal, Space, r
    <3>2. u = [t EXCEPT !.at = "line", !.ends = FALSE]
      <4>1. t.at = "dash"
        BY <2>1, <2>2 DEF TopAt
      <4>2. u = PsqlText(t, next)
        BY <4>1 DEF Psql
      <4> QED BY <2>2, <4>1, <4>2 DEF PsqlText
    <3> HIDE DEF u
    <3>3. /\ r.lex \in Locals /\ r.pair /\ ~r.ends
          /\ r.lex.mode = "line-comment" /\ r.lex.depth = 0 /\ ~r.lex.escaped
          /\ r.lex.candidate = <<>> /\ r.lex.delimiter = <<>> /\ r.lex.match = 0
          /\ r.lex.prev = "none" /\ r.lex.before = "none" /\ (r.lex.hasCode <=> l.hasCode)
      BY <1>1, <3>1 DEF TookTwo, Unseen, Locals, Modes
    <3>4. /\ u \in PsqlStates /\ ~u.ends /\ u.at = "line" /\ u.depth = 0 /\ u.tag = <<>>
          /\ u.word = "none" /\ (u.code => l.hasCode)
      BY <2>1, <2>2, <3>2 DEF PsqlStates, Texts, TagPart, Letters, Space
    <3>5. WordsAgree(r.lex, u)
      BY <3>3, <3>4 DEF WordsAgree, TagPart, Letters
    <3>6. Alike(r.lex, u)
      BY <3>3, <3>4, <3>5 DEF Alike, ModeAt, Outside, Within, Quoted, Body, Matched, TagShape
    <3> QED BY <2>2, <3>3, <3>4, <3>6 DEF Matches, Together, Undecided, Outside, Within, u
  <2>3. CASE c = "/" /\ next = "*"
    <3>1. r = TookTwo([Unseen(l) EXCEPT !.mode = "block-comment", !.depth = 1])
      BY <2>3 DEF Normal, Space, r
    <3>2. u = [[t EXCEPT !.at = "block", !.ends = FALSE] EXCEPT !.depth = 1]
      <4>1. t.at = "slash"
        BY <2>1, <2>3 DEF TopAt
      <4>2. u = PsqlText(t, next)
        BY <4>1 DEF Psql
      <4> QED BY <2>3, <4>1, <4>2 DEF PsqlText
    <3> HIDE DEF u
    <3>3. /\ r.lex \in Locals /\ r.pair /\ ~r.ends
          /\ r.lex.mode = "block-comment" /\ r.lex.depth = 1 /\ ~r.lex.escaped
          /\ r.lex.candidate = <<>> /\ r.lex.delimiter = <<>> /\ r.lex.match = 0
          /\ r.lex.prev = "none" /\ r.lex.before = "none" /\ (r.lex.hasCode <=> l.hasCode)
      BY <1>1, <3>1 DEF TookTwo, Unseen, Locals, Modes
    <3>4. /\ u \in PsqlStates /\ ~u.ends /\ u.at = "block" /\ u.depth = 1 /\ u.tag = <<>>
          /\ u.word = "none" /\ (u.code => l.hasCode)
      BY <2>1, <2>3, <3>2 DEF PsqlStates, Texts, TagPart, Letters, Space
    <3>5. WordsAgree(r.lex, u)
      BY <3>3, <3>4 DEF WordsAgree, TagPart, Letters
    <3>6. Alike(r.lex, u)
      BY <3>3, <3>4, <3>5 DEF Alike, ModeAt, Outside, Within, Quoted, Body, Matched, TagShape
    <3> QED BY <2>3, <3>3, <3>4, <3>6 DEF Matches, Together, Undecided, Outside, Within, u
  <2>4. CASE c = "'"
    <3>1. r = Took([Code(l) EXCEPT !.mode = "single-quote", !.backslashes = EscapePrefix(l)])
      BY <2>4 DEF Normal, Space, r
    <3>2. /\ r.lex \in Locals /\ ~r.pair /\ ~r.ends
          /\ r.lex.mode = "single-quote" /\ r.lex.depth = 0 /\ ~r.lex.escaped
          /\ r.lex.candidate = <<>> /\ r.lex.delimiter = <<>> /\ r.lex.match = 0
          /\ r.lex.hasCode /\ (r.lex.backslashes <=> EscapePrefix(l))
      BY <1>1, <3>1 DEF Took, Code, EscapePrefix, Locals, Modes
    <3>3. t.at = (IF s.word = "E" THEN "escapes" ELSE "string") /\ t.word = "none"
      BY <2>1, <2>4 DEF TopAt, TagPart, Letters, Space
    <3>4. s.word = "E" <=> EscapePrefix(l)
      BY <1>1 DEF WordsAgree, EscapePrefix
    <3>5. Alike(r.lex, t)
      BY <2>1, <3>2, <3>3, <3>4 DEF Alike, ModeAt, Outside, Within, Quoted, Body, Matched, TagShape
    <3> QED BY <2>1, <2>4, <3>2, <3>3, <3>5 DEF Matches, Together, Undecided, Outside, Within, Second
  <2>5. CASE c = "quote"
    <3>1. r = Took([Code(Unseen(l)) EXCEPT !.mode = "double-quote"])
      BY <2>5 DEF Normal, Space, r
    <3>2. /\ r.lex \in Locals /\ ~r.pair /\ ~r.ends
          /\ r.lex.mode = "double-quote" /\ r.lex.depth = 0 /\ ~r.lex.escaped
          /\ r.lex.candidate = <<>> /\ r.lex.delimiter = <<>> /\ r.lex.match = 0
          /\ r.lex.hasCode /\ r.lex.prev = "none" /\ r.lex.before = "none"
      BY <1>1, <3>1 DEF Took, Code, Unseen, Locals, Modes
    <3>3. t.at = "identifier" /\ t.word = "none"
      BY <2>1, <2>5 DEF TopAt, TagPart, Letters, Space
    <3>4. WordsAgree(r.lex, t)
      BY <1>1, <2>1, <2>5, <3>2, <3>3 DEF WordsAgree, TagPart, Letters
    <3>5. Alike(r.lex, t)
      BY <2>1, <3>2, <3>3, <3>4 DEF Alike, ModeAt, Outside, Within, Quoted, Body, Matched, TagShape
    <3> QED BY <2>1, <2>5, <3>2, <3>3, <3>5 DEF Matches, Together, Undecided, Outside, Within, Second
  <2>6. CASE c = "$"
    <3>1. r = Took([Code(Unseen(l)) EXCEPT !.mode = "dollar-candidate", !.candidate = <<>>])
      BY <2>6 DEF Normal, Space, r
    <3>2. /\ r.lex \in Locals /\ ~r.pair /\ ~r.ends
          /\ r.lex.mode = "dollar-candidate" /\ r.lex.depth = 0 /\ ~r.lex.escaped
          /\ r.lex.candidate = <<>> /\ r.lex.delimiter = <<>> /\ r.lex.match = 0
          /\ r.lex.hasCode /\ r.lex.prev = "none" /\ r.lex.before = "none"
      BY <1>1, <3>1 DEF Took, Code, Unseen, Locals, Modes
    <3>3. t.at = "dollar" /\ t.word = "none"
      BY <2>1, <2>6 DEF TopAt, TagPart, Letters, Space
    <3>4. WordsAgree(r.lex, t)
      BY <1>1, <2>1, <2>6, <3>2, <3>3 DEF WordsAgree, TagPart, Letters
    <3>5. Alike(r.lex, t)
      BY <2>1, <3>2, <3>3, <3>4 DEF Alike, ModeAt, Outside, Within, Quoted, Body, Matched, TagShape
    <3> QED BY <2>1, <2>6, <3>2, <3>3, <3>5 DEF Matches, Together, Undecided, Outside, Within, Second
  <2>7. CASE c \in Space
    <3>1. r = Took(Unseen(l))
      BY <2>7 DEF Normal, Space, r
    <3>2. /\ r.lex \in Locals /\ ~r.pair /\ ~r.ends
          /\ r.lex.mode = "normal" /\ r.lex.depth = 0 /\ ~r.lex.escaped
          /\ r.lex.candidate = <<>> /\ r.lex.delimiter = <<>> /\ r.lex.match = 0
          /\ (r.lex.hasCode <=> l.hasCode) /\ r.lex.prev = "none" /\ r.lex.before = "none"
      BY <1>1, <3>1 DEF Took, Unseen, Locals, Modes
    <3>3. t.at = "top" /\ t.word = "none" /\ (t.code => l.hasCode)
      BY <2>1, <2>7 DEF TopAt, TagPart, Letters, Space
    <3>4. WordsAgree(r.lex, t)
      BY <1>1, <2>1, <2>7, <3>2, <3>3 DEF WordsAgree, TagPart, Letters
    <3>5. Alike(r.lex, t)
      BY <2>1, <3>2, <3>3, <3>4 DEF Alike, ModeAt, Outside, Within, Quoted, Body, Matched, TagShape
    <3> QED BY <2>1, <2>7, <3>2, <3>3, <3>5 DEF Matches, Together, Undecided, Outside, Within, Second
  <2>8. CASE /\ c \in Bytes \ (Space \cup {"'", "quote", "$", "semicolon"})
              /\ ~(c = "-" /\ next = "-") /\ ~(c = "/" /\ next = "*")
    <3>1. r = Took([Code(l) EXCEPT !.before = l.prev, !.prev = c])
      BY <2>8 DEF Normal, Space, r
    <3>2. /\ r.lex \in Locals /\ ~r.pair /\ ~r.ends
          /\ r.lex.mode = "normal" /\ r.lex.depth = 0 /\ ~r.lex.escaped
          /\ r.lex.candidate = <<>> /\ r.lex.delimiter = <<>> /\ r.lex.match = 0
          /\ r.lex.hasCode /\ r.lex.prev = c /\ r.lex.before = l.prev
      BY <1>1, <3>1 DEF Took, Code, Locals, Modes
    <3>3. /\ t.at = (IF c = "-" THEN "dash" ELSE IF c = "/" THEN "slash" ELSE "top")
          /\ t.at # "top" => t.word = "none"
      BY <2>1, <2>8 DEF TopAt, TagPart, Letters, Space
    <3>4. WordsAgree(r.lex, t)
      BY <1>1, <2>1, <2>8, <3>2, <3>3 DEF WordsAgree, WordWith, PsqlStates, TagPart, Letters
    <3>5. Alike(r.lex, t)
      BY <2>1, <3>2, <3>3, <3>4 DEF Alike, ModeAt, Outside, Within, Quoted, Body, Matched, TagShape
    <3> QED BY <2>1, <2>8, <3>2, <3>3, <3>5 DEF Matches, Together, Undecided, Outside, Within, Second
  <2> QED BY <1>3, <2>2, <2>3, <2>4, <2>5, <2>6, <2>7, <2>8
<1> QED BY <1>2, <1>3

(* The mode tells where psql is.                                           *)
LEMMA Places ==
  ASSUME NEW l, NEW s, Alike(l, s)
  PROVE  /\ l.mode = "normal" => s.at \in {"top"} \cup Outside
         /\ l.mode = "line-comment" => s.at = "line"
         /\ l.mode = "block-comment" => s.at \in {"block"} \cup Within
         /\ l.mode = "single-quote" => s.at \in Quoted
         /\ l.mode = "double-quote" => s.at = "identifier"
         /\ l.mode = "dollar-candidate" => s.at = "dollar"
         /\ l.mode = "dollar-quote" => s.at \in Body
PROOF
<1>1. s.at \in Texts /\ l.mode = ModeAt(s.at)
  BY DEF Alike, PsqlStates
<1>2. CASE s.at \in {"top"} \cup Outside
  BY <1>1, <1>2 DEF ModeAt, Outside, Within, Quoted, Body
<1>3. CASE s.at \in {"line", "block", "identifier", "dollar"} \cup Within
  BY <1>1, <1>3 DEF ModeAt, Outside, Within, Quoted, Body
<1>4. CASE s.at \in Quoted \cup Body
  BY <1>1, <1>4 DEF ModeAt, Outside, Within, Quoted, Body
<1> QED BY <1>1, <1>2, <1>3, <1>4 DEF Texts, Undecided

LEMMA PlainByte ==
  ASSUME NEW l, NEW s, NEW c \in Bytes, NEW next, Alike(l, s), l.mode = "normal",
         s.at \in Undecided => c # Second(s.at), c = "semicolon" => s.parens = 0
  PROVE  Matches(Read(l, c, next), Psql(s, c), next)
PROOF
<1>1. s.at \in {"top"} \cup Outside
  BY Places
<1>2. Read(l, c, next) = Normal(l, c, next)
  BY DEF Read
<1>3. Psql(s, c) = PsqlText(s, c)
  BY <1>1 DEF Psql, Outside
<1>4. PsqlText(s, c) = Top(s, c)
  <2>1. CASE s.at \in {"top", "dash", "slash"}
    BY <2>1 DEF PsqlText, Undecided, Outside, Second
  <2>2. CASE s.at \in {"string'", "escapes'", "identifier'"}
    BY <2>2 DEF PsqlText, Undecided, Outside, Second
  <2> QED BY <1>1, <2>1, <2>2 DEF Outside
<1>5. Ready(l, s)
  BY <1>1 DEF Ready, Alike, Outside, Within, Quoted, Body, Matched, PsqlStates
<1> QED BY <1>2, <1>3, <1>4, <1>5, NormalByte

LEMMA LineByte ==
  ASSUME NEW l, NEW s, NEW c \in Bytes, NEW next, Alike(l, s), l.mode = "line-comment"
  PROVE  Matches(Read(l, c, next), Psql(s, c), next)
PROOF
<1> DEFINE r == Read(l, c, next)
           t == Psql(s, c)
<1> SUFFICES Matches(r, t, next)
  OBVIOUS
<1>1. s.at = "line"
  BY Places
<1>2. r = Took([l EXCEPT !.mode = IF c = "\n" THEN "normal" ELSE @])
  BY DEF Read
<1>3. t = IF c = "\n" THEN [s EXCEPT !.at = "top", !.ends = FALSE] ELSE s
  <2>1. t = PsqlText(s, c)
    BY <1>1 DEF Psql
  <2> QED BY <1>1, <2>1 DEF PsqlText
<1> HIDE DEF r, t
<1>4. l \in Locals /\ s \in PsqlStates
  BY DEF Alike
<1>5. CASE c = "\n"
  <2>1. /\ r.lex \in Locals /\ ~r.pair /\ ~r.ends /\ r.lex.mode = "normal"
        /\ r.lex.depth = l.depth /\ r.lex.escaped = l.escaped /\ r.lex.candidate = l.candidate
        /\ r.lex.delimiter = l.delimiter /\ r.lex.match = l.match
        /\ r.lex.prev = l.prev /\ r.lex.before = l.before /\ r.lex.hasCode = l.hasCode
    BY <1>2, <1>4, <1>5 DEF Took, Locals, Modes
  <2>2. /\ t \in PsqlStates /\ ~t.ends /\ t.at = "top" /\ t.depth = s.depth /\ t.tag = s.tag
        /\ t.word = s.word /\ t.seen = s.seen /\ t.code = s.code
    BY <1>3, <1>4, <1>5 DEF PsqlStates, Texts
  <2>3. Alike(r.lex, t)
    BY <1>1, <2>1, <2>2 DEF Alike, ModeAt, Outside, Within, Quoted, Body, Matched, TagShape, WordsAgree
  <2> QED BY <2>1, <2>2, <2>3 DEF Matches, Together, Undecided, Outside, Within
<1>6. CASE c # "\n"
  <2>1. r = Took(l)
    BY <1>2, <1>4, <1>6 DEF Locals
  <2> QED BY <1>1, <1>3, <1>6, <2>1 DEF Matches, Together, Took, Alike, Undecided, Outside, Within
<1> QED BY <1>5, <1>6

LEMMA BlockByte ==
  ASSUME NEW l, NEW s, NEW c \in Bytes, NEW next, Alike(l, s), l.mode = "block-comment",
         s.at \in Undecided => c # Second(s.at)
  PROVE  Matches(Read(l, c, next), Psql(s, c), next)
PROOF
<1> DEFINE r == Read(l, c, next)
           t == Psql(s, c)
           u == Psql(t, next)
           to(at) == [s EXCEPT !.at = at, !.ends = FALSE]
<1> SUFFICES Matches(r, t, next)
  OBVIOUS
<1>1. s.at \in {"block", "block/", "block*"} /\ l \in Locals /\ s \in PsqlStates /\ ~s.ends
  BY Places DEF Within, Alike
<1>2. r = BlockComment(l, c, next)
  BY DEF Read
<1>3. t = PsqlText(s, c)
  BY <1>1 DEF Psql
<1>4. (s.at = "block/" => c # "*") /\ (s.at = "block*" => c # "/")
  BY DEF Undecided, Within, Second
<1>5. t = IF c = "/" THEN (IF s.at = "block/" THEN s ELSE to("block/"))
          ELSE IF c = "*" THEN (IF s.at = "block*" THEN s ELSE to("block*"))
          ELSE IF s.at = "block" THEN s ELSE to("block")
  <2>1. CASE s.at = "block"
    BY <1>3, <2>1 DEF PsqlText
  <2>2. CASE s.at = "block/"
    BY <1>3, <1>4, <2>2 DEF PsqlText
  <2>3. CASE s.at = "block*"
    BY <1>3, <1>4, <2>3 DEF PsqlText
  <2> QED BY <1>1, <2>1, <2>2, <2>3
<1> HIDE DEF r, t
<1>6. /\ t \in PsqlStates /\ ~t.ends
      /\ t.at = (IF c = "/" THEN "block/" ELSE IF c = "*" THEN "block*" ELSE "block")
      /\ t.depth = s.depth /\ t.tag = s.tag /\ t.word = s.word /\ t.code = s.code
  BY <1>1, <1>5 DEF PsqlStates, Texts, Undecided, Within
<1>7. CASE c = "/" /\ next = "*"
  <2>1. r = TookTwo([l EXCEPT !.depth = @ + 1])
    BY <1>2, <1>7 DEF BlockComment
  <2>2. u = [[t EXCEPT !.at = "block", !.ends = FALSE] EXCEPT !.depth = @ + 1]
    <3>1. u = PsqlText(t, next)
      BY <1>6, <1>7 DEF Psql
    <3> QED BY <1>6, <1>7, <3>1 DEF PsqlText
  <2> HIDE DEF u
  <2>3. PICK n \in Nat : n = s.depth + 1
    BY <1>1 DEF PsqlStates
  <2>4. u = [t EXCEPT !.at = "block", !.ends = FALSE, !.depth = n]
    BY <1>6, <2>2, <2>3 DEF PsqlStates
  <2>5. /\ r.lex \in Locals /\ r.pair /\ ~r.ends
        /\ r.lex.mode = l.mode /\ r.lex.depth = l.depth + 1 /\ r.lex.escaped = l.escaped
        /\ r.lex.candidate = l.candidate /\ r.lex.delimiter = l.delimiter /\ r.lex.match = l.match
        /\ r.lex.prev = l.prev /\ r.lex.before = l.before /\ r.lex.hasCode = l.hasCode
    <3>1. l.depth + 1 \in Nat /\ r = TookTwo([l EXCEPT !.depth = l.depth + 1])
      BY <1>1, <2>1 DEF Locals
    <3>2. l \in Locals
      BY <1>1
    <3> QED BY ONLY <3>1, <3>2 DEF TookTwo, Locals
  <2>6. /\ u \in PsqlStates /\ ~u.ends /\ u.at = "block" /\ u.depth = s.depth + 1
        /\ u.tag = s.tag /\ u.word = s.word /\ u.code = s.code
    BY <1>6, <2>3, <2>4 DEF PsqlStates, Texts
  <2>7. s.depth \in Nat
    BY <1>1 DEF PsqlStates
  <2>8. Alike(r.lex, u)
    BY <1>1, <2>5, <2>6, <2>7 DEF Alike, ModeAt, Outside, Within, Quoted, Body, Matched, TagShape, WordsAgree
  <2> QED BY <1>7, <2>5, <2>6, <2>8 DEF Matches, Together, Undecided, Outside, Within, u
<1>8. CASE c = "*" /\ next = "/"
  <2>1. r = TookTwo([l EXCEPT !.depth = @ - 1, !.mode = IF l.depth = 1 THEN "normal" ELSE @])
    BY <1>2, <1>8 DEF BlockComment, Outward
  <2>2. u = [[t EXCEPT !.at = IF t.depth = 1 THEN "top" ELSE "block", !.ends = FALSE]
               EXCEPT !.depth = @ - 1]
    <3>1. u = PsqlText(t, next)
      BY <1>6, <1>8 DEF Psql
    <3> QED BY <1>6, <1>8, <3>1 DEF PsqlText
  <2> HIDE DEF u
  <2>3. s.depth \in Nat \ {0} /\ l.depth = s.depth
    BY <1>1 DEF PsqlStates, Alike, Within
  <2>4. PICK n \in Nat, m \in Modes, at \in Texts :
           /\ n = s.depth - 1 /\ m = (IF s.depth = 1 THEN "normal" ELSE l.mode)
           /\ at = (IF s.depth = 1 THEN "top" ELSE "block")
    BY <1>1, <2>3 DEF Modes, Texts, Locals
  <2>5. r = TookTwo([l EXCEPT !.depth = n, !.mode = m])
    BY <2>1, <2>3, <2>4
  <2>6. u = [t EXCEPT !.at = at, !.ends = FALSE, !.depth = n]
    BY <1>6, <2>2, <2>3, <2>4 DEF PsqlStates
  <2>7. /\ r.lex \in Locals /\ r.pair /\ ~r.ends
        /\ r.lex.mode = (IF s.depth = 1 THEN "normal" ELSE l.mode) /\ r.lex.depth = s.depth - 1
        /\ r.lex.escaped = l.escaped
        /\ r.lex.candidate = l.candidate /\ r.lex.delimiter = l.delimiter /\ r.lex.match = l.match
        /\ r.lex.prev = l.prev /\ r.lex.before = l.before /\ r.lex.hasCode = l.hasCode
    BY <1>1, <2>4, <2>5 DEF TookTwo, Locals
  <2>8. /\ u \in PsqlStates /\ ~u.ends /\ u.at = (IF s.depth = 1 THEN "top" ELSE "block")
        /\ u.depth = s.depth - 1 /\ u.tag = s.tag /\ u.word = s.word /\ u.code = s.code
    BY <1>6, <2>4, <2>6 DEF PsqlStates
  <2>9. Alike(r.lex, u)
    BY <1>1, <2>3, <2>7, <2>8 DEF Alike, ModeAt, Outside, Within, Quoted, Body, Matched, TagShape, WordsAgree
  <2> QED BY <1>8, <2>7, <2>8, <2>9 DEF Matches, Together, Undecided, Outside, Within, u
<1>9. CASE ~(c = "/" /\ next = "*") /\ ~(c = "*" /\ next = "/")
  <2>1. r = Took(l)
    BY <1>2, <1>9 DEF BlockComment
  <2>2. r.lex = l /\ ~r.pair /\ ~r.ends
    BY <2>1 DEF Took
  <2>3. Alike(l, t)
    BY <1>1, <1>6 DEF Alike, ModeAt, Outside, Within, Quoted, Body, Matched, TagShape, WordsAgree
  <2> QED BY <1>6, <1>9, <2>2, <2>3 DEF Matches, Together, Undecided, Outside, Within, Second
<1> QED BY <1>7, <1>8, <1>9

LEMMA IdentifierByte ==
  ASSUME NEW l, NEW s, NEW c \in Bytes, NEW next, Alike(l, s), l.mode = "double-quote"
  PROVE  Matches(Read(l, c, next), Psql(s, c), next)
PROOF
<1> DEFINE r == Read(l, c, next)
           t == Psql(s, c)
           u == Psql(t, next)
<1> SUFFICES Matches(r, t, next)
  OBVIOUS
<1>1. s.at = "identifier" /\ l \in Locals /\ s \in PsqlStates /\ ~s.ends
  BY Places DEF Alike
<1>2. r = DoubleQuote(l, c, next)
  BY DEF Read
<1>3. t = IF c = "quote" THEN [s EXCEPT !.at = "identifier'", !.ends = FALSE] ELSE s
  <2>1. t = PsqlText(s, c)
    BY <1>1 DEF Psql
  <2> QED BY <1>1, <2>1 DEF PsqlText
<1> HIDE DEF r, t
<1>4. /\ t \in PsqlStates /\ ~t.ends /\ t.at = (IF c = "quote" THEN "identifier'" ELSE "identifier")
      /\ t.depth = s.depth /\ t.tag = s.tag /\ t.word = s.word /\ t.code = s.code
  BY <1>1, <1>3 DEF PsqlStates, Texts, Undecided, Outside
<1>5. CASE c = "quote" /\ next = "quote"
  <2>1. r = TookTwo(l)
    BY <1>2, <1>5 DEF DoubleQuote
  <2>2. u = [t EXCEPT !.at = "identifier", !.ends = FALSE]
    <3>1. u = PsqlText(t, next)
      BY <1>4, <1>5 DEF Psql
    <3> QED BY <1>4, <1>5, <3>1 DEF PsqlText
  <2> HIDE DEF u
  <2>3. /\ u \in PsqlStates /\ ~u.ends /\ u.at = "identifier"
        /\ u.depth = s.depth /\ u.tag = s.tag /\ u.word = s.word /\ u.code = s.code
    BY <1>4, <2>2 DEF PsqlStates, Texts
  <2>4. r.lex = l /\ r.pair /\ ~r.ends
    BY <2>1 DEF TookTwo
  <2>5. Alike(l, u)
    BY <1>1, <2>3 DEF Alike, ModeAt, Outside, Within, Quoted, Body, Matched, TagShape, WordsAgree
  <2> QED BY <1>5, <2>3, <2>4, <2>5 DEF Matches, Together, Undecided, Outside, Within, u
<1>6. CASE c = "quote" /\ next # "quote"
  <2>1. r = Took([l EXCEPT !.mode = "normal"])
    BY <1>2, <1>6 DEF DoubleQuote
  <2>2. /\ r.lex \in Locals /\ ~r.pair /\ ~r.ends /\ r.lex.mode = "normal"
        /\ r.lex.depth = l.depth /\ r.lex.escaped = l.escaped
        /\ r.lex.candidate = l.candidate /\ r.lex.delimiter = l.delimiter /\ r.lex.match = l.match
        /\ r.lex.prev = l.prev /\ r.lex.before = l.before /\ r.lex.hasCode = l.hasCode
    BY <1>1, <2>1 DEF Took, Locals, Modes
  <2>3. Alike(r.lex, t)
    BY <1>1, <1>4, <1>6, <2>2 DEF Alike, ModeAt, Outside, Within, Quoted, Body, Matched, TagShape, WordsAgree
  <2> QED BY <1>4, <1>6, <2>2, <2>3 DEF Matches, Together, Undecided, Outside, Within, Second
<1>7. CASE c # "quote"
  <2>1. r = Took(l)
    BY <1>2, <1>7 DEF DoubleQuote
  <2> QED BY <1>1, <1>3, <1>7, <2>1 DEF Matches, Together, Took, Undecided, Outside, Within
<1> QED BY <1>5, <1>6, <1>7

LEMMA StringByte ==
  ASSUME NEW l, NEW s, NEW c \in Bytes, NEW next, Alike(l, s), l.mode = "single-quote"
  PROVE  Matches(Read(l, c, next), Psql(s, c), next)
PROOF
<1> DEFINE r == Read(l, c, next)
           t == Psql(s, c)
           u == Psql(t, next)
           to(at) == [s EXCEPT !.at = at, !.ends = FALSE]
<1> SUFFICES Matches(r, t, next)
  OBVIOUS
<1>1. /\ s.at \in Quoted /\ l \in Locals /\ s \in PsqlStates /\ ~s.ends
      /\ (l.escaped <=> s.at = "escape") /\ (l.backslashes <=> s.at # "string")
  BY Places DEF Alike, Quoted
<1>2. r = SingleQuote(l, c, next)
  BY DEF Read
<1>3. t = CASE s.at = "escape" -> to("escapes")
            [] s.at = "escapes" /\ c = "\\" -> to("escape")
            [] s.at = "escapes" /\ c = "'" -> to("escapes'")
            [] s.at = "string" /\ c = "'" -> to("string'")
            [] OTHER -> s
  <2>1. t = PsqlText(s, c)
    BY <1>1 DEF Psql, Quoted
  <2>2. CASE s.at = "escape"
    BY <2>1, <2>2 DEF PsqlText
  <2>3. CASE s.at = "escapes"
    BY <2>1, <2>3 DEF PsqlText
  <2>4. CASE s.at = "string"
    BY <2>1, <2>4 DEF PsqlText
  <2> QED BY <1>1, <2>2, <2>3, <2>4 DEF Quoted
<1> HIDE DEF r, t
<1>4. ASSUME NEW at \in Texts, t = to(at)
      PROVE  /\ t \in PsqlStates /\ ~t.ends /\ t.at = at
             /\ t.depth = s.depth /\ t.tag = s.tag /\ t.word = s.word /\ t.code = s.code
  BY <1>1, <1>4 DEF PsqlStates
<1> HIDE DEF to
<1>5. CASE l.escaped
  <2>1. r = Took([l EXCEPT !.escaped = FALSE])
    BY <1>2, <1>5 DEF SingleQuote
  <2>2. t = to("escapes")
    BY <1>1, <1>3, <1>5
  <2>3. /\ r.lex \in Locals /\ ~r.pair /\ ~r.ends /\ r.lex.mode = l.mode
        /\ r.lex.depth = l.depth /\ ~r.lex.escaped /\ r.lex.backslashes = l.backslashes
        /\ r.lex.candidate = l.candidate /\ r.lex.delimiter = l.delimiter /\ r.lex.match = l.match
        /\ r.lex.hasCode = l.hasCode
    BY <1>1, <2>1 DEF Took, Locals
  <2>4. /\ t \in PsqlStates /\ ~t.ends /\ t.at = "escapes"
        /\ t.depth = s.depth /\ t.tag = s.tag /\ t.word = s.word /\ t.code = s.code
    BY <1>4, <2>2 DEF Texts, Quoted
  <2>5. Alike(r.lex, t)
    BY <1>1, <1>5, <2>3, <2>4 DEF Alike, ModeAt, Outside, Within, Quoted, Body, Matched, TagShape
  <2> QED BY <2>3, <2>4, <2>5 DEF Matches, Together, Undecided, Outside, Within
<1>6. CASE ~l.escaped /\ l.backslashes /\ c = "\\"
  <2>1. r = Took([l EXCEPT !.escaped = TRUE])
    BY <1>2, <1>6 DEF SingleQuote
  <2>2. t = to("escape") /\ s.at = "escapes"
    BY <1>1, <1>3, <1>6 DEF Quoted
  <2>3. /\ r.lex \in Locals /\ ~r.pair /\ ~r.ends /\ r.lex.mode = l.mode
        /\ r.lex.depth = l.depth /\ r.lex.escaped /\ r.lex.backslashes = l.backslashes
        /\ r.lex.candidate = l.candidate /\ r.lex.delimiter = l.delimiter /\ r.lex.match = l.match
        /\ r.lex.hasCode = l.hasCode
    BY <1>1, <2>1 DEF Took, Locals
  <2>4. /\ t \in PsqlStates /\ ~t.ends /\ t.at = "escape"
        /\ t.depth = s.depth /\ t.tag = s.tag /\ t.word = s.word /\ t.code = s.code
    BY <1>4, <2>2 DEF Texts, Quoted
  <2>5. Alike(r.lex, t)
    BY <1>1, <2>2, <2>3, <2>4 DEF Alike, ModeAt, Outside, Within, Quoted, Body, Matched, TagShape
  <2> QED BY <2>3, <2>4, <2>5 DEF Matches, Together, Undecided, Outside, Within
<1>7. CASE ~l.escaped /\ c = "'"
  <2>1. t = to(IF s.at = "string" THEN "string'" ELSE "escapes'") /\ s.at \in {"string", "escapes"}
    BY <1>1, <1>3, <1>7 DEF Quoted
  <2>2. /\ t \in PsqlStates /\ ~t.ends /\ t.at = (IF s.at = "string" THEN "string'" ELSE "escapes'")
        /\ t.depth = s.depth /\ t.tag = s.tag /\ t.word = s.word /\ t.code = s.code
    BY <1>4, <2>1 DEF Texts, Undecided, Outside
  <2>3. CASE next = "'"
    <3>1. r = TookTwo(l)
      BY <1>2, <1>7, <2>3 DEF SingleQuote
    <3>2. r.lex = l /\ r.pair /\ ~r.ends
      BY <3>1, SMTT(30) DEF TookTwo
    <3>3. u = [t EXCEPT !.at = s.at, !.ends = FALSE]
      <4>1. u = PsqlText(t, next)
        BY <2>2 DEF Psql
      <4> QED BY <2>1, <2>2, <2>3, <4>1 DEF PsqlText
    <3> HIDE DEF u
    <3>4. /\ u \in PsqlStates /\ ~u.ends /\ u.at = s.at
          /\ u.depth = s.depth /\ u.tag = s.tag /\ u.word = s.word /\ u.code = s.code
      BY <1>1, <2>2, <3>3 DEF PsqlStates
    <3>5. Alike(l, u)
      BY <1>1, <2>1, <3>4 DEF Alike, ModeAt, Outside, Within, Quoted, Body, Matched, TagShape
    <3> QED BY <2>1, <2>3, <3>2, <3>4, <3>5 DEF Matches, Together, Undecided, Outside, Within, u
  <2>4. CASE next # "'"
    <3>1. r = Took([l EXCEPT !.mode = "normal", !.before = "none", !.prev = c])
      BY <1>2, <1>7, <2>4 DEF SingleQuote
    <3>2. /\ r.lex \in Locals /\ ~r.pair /\ ~r.ends /\ r.lex.mode = "normal"
          /\ r.lex.depth = l.depth /\ ~r.lex.escaped
          /\ r.lex.candidate = l.candidate /\ r.lex.delimiter = l.delimiter
          /\ r.lex.match = l.match /\ r.lex.hasCode = l.hasCode
          /\ r.lex.prev = "'" /\ r.lex.before = "none"
      BY <1>1, <1>7, <3>1 DEF Took, Locals, Modes
    <3>3. WordsAgree(r.lex, t)
      BY <1>1, <2>1, <2>2, <3>2 DEF WordsAgree, TagPart, Letters, Alike
    <3>4. Alike(r.lex, t)
      BY <1>1, <2>1, <2>2, <3>2, <3>3 DEF Alike, ModeAt, Outside, Within, Quoted, Body, Matched, TagShape
    <3> QED BY <2>2, <2>4, <3>2, <3>4 DEF Matches, Together, Undecided, Outside, Within, Second
  <2> QED BY <2>3, <2>4
<1>8. CASE ~l.escaped /\ ~(l.backslashes /\ c = "\\") /\ c # "'"
  <2>1. r = Took(l)
    BY <1>2, <1>8 DEF SingleQuote
  <2>2. t = s
    BY <1>1, <1>3, <1>8
  <2> QED BY <1>1, <2>1, <2>2 DEF Matches, Together, Took, Undecided, Outside, Within, Quoted
<1> QED BY <1>5, <1>6, <1>7, <1>8

(* A tag that ends with a dollar opens a body; a byte that belongs to no   *)
(* tag is read again in mode normal.                                       *)
LEMMA DollarByte ==
  ASSUME NEW l, NEW s, NEW c \in Bytes, NEW next, Alike(l, s), l.mode = "dollar-candidate",
         c = "semicolon" => s.parens = 0
  PROVE  Matches(Read(l, c, next), Psql(s, c), next)
PROOF
<1> DEFINE r == Read(l, c, next)
           t == Psql(s, c)
           tagged == c \in (IF s.seen = <<>> THEN Letters ELSE TagPart)
<1> SUFFICES Matches(r, t, next)
  OBVIOUS
<1>1. /\ s.at = "dollar" /\ l \in Locals /\ s \in PsqlStates /\ ~s.ends
      /\ l.candidate = s.seen /\ l.delimiter = <<>> /\ s.tag = <<>> /\ TagShape(s.seen) /\ s.depth = 0
  <2>1. s.at = "dollar"
    BY Places
  <2> QED BY <2>1 DEF Alike, Body, Within, Quoted, PsqlStates
<1>2. r = DollarCandidate(l, c, next)
  BY DEF Read
<1>3. t = PsqlText(s, c)
  BY <1>1 DEF Psql
<1> HIDE DEF r, t
<1>4. CASE c = "$"
  <2>1. r = Took([l EXCEPT !.mode = "dollar-quote", !.delimiter = @ \o l.candidate,
                           !.candidate = <<>>, !.match = 0])
    BY <1>2, <1>4 DEF DollarCandidate, TagPart, Letters
  <2>2. t = [[s EXCEPT !.at = "body", !.ends = FALSE] EXCEPT !.tag = s.seen, !.seen = <<>>]
    BY <1>1, <1>3, <1>4 DEF PsqlText, TagPart, Letters
  <2>3. l.delimiter \o l.candidate = s.seen
    BY <1>1 DEF PsqlStates
  <2>4. /\ r.lex \in Locals /\ ~r.pair /\ ~r.ends /\ r.lex.mode = "dollar-quote"
        /\ r.lex.depth = l.depth /\ r.lex.escaped = l.escaped
        /\ r.lex.candidate = <<>> /\ r.lex.delimiter = s.seen /\ r.lex.match = 0
        /\ r.lex.hasCode = l.hasCode /\ r.lex.prev = l.prev /\ r.lex.before = l.before
    BY <1>1, <2>1, <2>3, EmptyTag DEF Took, Locals, Modes
  <2>5. /\ t \in PsqlStates /\ ~t.ends /\ t.at = "body" /\ t.tag = s.seen /\ t.seen = <<>>
        /\ t.depth = s.depth /\ t.word = s.word /\ t.code = s.code
    BY <1>1, <2>2, EmptyTag DEF PsqlStates, Texts, Body
  <2>6. Alike(r.lex, t)
    BY <1>1, <2>4, <2>5 DEF Alike, ModeAt, Outside, Within, Quoted, Body, Matched, WordsAgree
  <2> QED BY <2>4, <2>5, <2>6 DEF Matches, Together, Undecided, Outside, Within
<1>5. CASE c # "$" /\ tagged
  <2>1. r = Took([l EXCEPT !.candidate = Append(@, c)])
    BY <1>1, <1>2, <1>5 DEF DollarCandidate
  <2>2. t = [s EXCEPT !.seen = Append(@, c)]
    BY <1>1, <1>3, <1>5 DEF PsqlText
  <2>3. /\ Append(s.seen, c) \in Seq(TagPart) /\ TagShape(Append(s.seen, c))
        /\ Append(s.seen, c) # <<>>
    <3>1. s.seen \in Seq(TagPart) /\ c \in TagPart
      BY <1>1, <1>5 DEF PsqlStates, TagPart
    <3>2. Append(s.seen, c) \in Seq(TagPart) /\ Append(s.seen, c) # <<>>
      BY <3>1
    <3>3. s.seen = <<>> => Append(s.seen, c)[1] = c /\ c \in Letters
      BY <1>5, <3>1
    <3>4. s.seen # <<>> => Append(s.seen, c)[1] = s.seen[1]
      BY <3>1
    <3> QED BY <1>1, <3>2, <3>3, <3>4 DEF TagShape
  <2> DEFINE tag == Append(s.seen, c)
  <2>4. r = Took([l EXCEPT !.candidate = tag]) /\ t = [s EXCEPT !.seen = tag]
    BY <1>1, <2>1, <2>2
  <2> HIDE DEF tag
  <2>5. /\ r.lex \in Locals /\ ~r.pair /\ ~r.ends /\ r.lex.mode = l.mode
        /\ r.lex.depth = l.depth /\ r.lex.escaped = l.escaped
        /\ r.lex.candidate = tag /\ r.lex.delimiter = l.delimiter /\ r.lex.match = l.match
        /\ r.lex.hasCode = l.hasCode /\ r.lex.prev = l.prev /\ r.lex.before = l.before
    BY <1>1, <2>3, <2>4 DEF Took, Locals, tag
  <2>6. /\ t \in PsqlStates /\ ~t.ends /\ t.at = "dollar" /\ t.tag = s.tag /\ t.seen = tag
        /\ t.depth = s.depth /\ t.word = s.word /\ t.code = s.code
    BY <1>1, <2>3, <2>4 DEF PsqlStates, tag
  <2>7. Alike(r.lex, t)
    BY <1>1, <2>3, <2>5, <2>6 DEF Alike, ModeAt, Outside, Within, Quoted, Body, Matched, WordsAgree, tag
  <2> QED BY <2>5, <2>6, <2>7 DEF Matches, Together, Undecided, Outside, Within
<1>6. CASE c # "$" /\ ~tagged
  <2> DEFINE m == [l EXCEPT !.mode = "normal", !.candidate = <<>>]
  <2>1. r = Normal(m, c, next)
    BY <1>1, <1>2, <1>6 DEF DollarCandidate
  <2>2. t = Top(s, c)
    BY <1>1, <1>3, <1>6 DEF PsqlText
  <2>3. /\ m \in Locals /\ m.mode = "normal" /\ m.depth = l.depth /\ m.escaped = l.escaped
        /\ m.candidate = <<>> /\ m.delimiter = l.delimiter /\ m.match = l.match
        /\ m.prev = l.prev /\ m.before = l.before /\ m.hasCode = l.hasCode
    BY <1>1, EmptyTag DEF Locals, Modes
  <2> HIDE DEF m
  <2>4. Ready(m, s)
    BY <1>1, <2>3 DEF Ready, Alike, Matched, WordsAgree, Within, Quoted, Body
  <2> QED BY <2>1, <2>2, <2>4, NormalByte
<1> QED BY <1>4, <1>5, <1>6

LEMMA StartsAll ==
  ASSUME NEW seen \in Seq(TagPart), NEW tag \in Seq(TagPart), Starts(seen, tag), Len(seen) = Len(tag)
  PROVE  seen = tag
PROOF BY DEF Starts

LEMMA StartsNone ==
  ASSUME NEW tag \in Seq(TagPart)
  PROVE  Starts(<<>>, tag) /\ Starts(tag, tag)
PROOF BY DEF Starts

LEMMA StartsMore ==
  ASSUME NEW seen \in Seq(TagPart), NEW tag \in Seq(TagPart), NEW c \in TagPart
  PROVE  Starts(Append(seen, c), tag)
           <=> Starts(seen, tag) /\ Len(seen) < Len(tag) /\ tag[Len(seen) + 1] = c
PROOF
<1> DEFINE more == Append(seen, c)
<1>1. /\ more \in Seq(TagPart) /\ Len(more) = Len(seen) + 1 /\ more[Len(seen) + 1] = c
      /\ \A i \in 1..Len(seen) : more[i] = seen[i]
  OBVIOUS
<1>2. Len(seen) \in Nat /\ Len(tag) \in Nat
  OBVIOUS
<1> HIDE DEF more
<1>3. ASSUME Starts(more, tag)
      PROVE  Starts(seen, tag) /\ Len(seen) < Len(tag) /\ tag[Len(seen) + 1] = c
  BY <1>1, <1>2, <1>3 DEF Starts
<1>4. ASSUME Starts(seen, tag), Len(seen) < Len(tag), tag[Len(seen) + 1] = c
      PROVE  Starts(more, tag)
  <2>1. \A i \in 1..Len(more) : i = Len(seen) + 1 \/ i \in 1..Len(seen)
    BY <1>1, <1>2
  <2> QED BY <1>1, <1>2, <1>4, <2>1 DEF Starts
<1> QED BY <1>3, <1>4 DEF more

(* The delimiter that closes a body, matched byte by byte: a dollar starts *)
(* a match anew, also where one has just failed.                           *)
LEMMA BodyByte ==
  ASSUME NEW l, NEW s, NEW c \in Bytes, NEW next, Alike(l, s), l.mode = "dollar-quote"
  PROVE  Matches(Read(l, c, next), Psql(s, c), next)
PROOF
<1> DEFINE r == Read(l, c, next)
           t == Psql(s, c)
           tagged == c \in (IF s.seen = <<>> THEN Letters ELSE TagPart)
<1> SUFFICES Matches(r, t, next)
  OBVIOUS
<1>1. /\ s.at \in Body /\ l \in Locals /\ s \in PsqlStates /\ ~s.ends
      /\ l.delimiter = s.tag /\ l.match = Matched(s) /\ TagShape(s.tag) /\ s.depth = 0
  <2>1. s.at \in Body
    BY Places
  <2> QED BY <2>1 DEF Alike, Body, Within, Quoted, PsqlStates
<1>2. s.tag \in Seq(TagPart) /\ s.seen \in Seq(TagPart)
  BY <1>1 DEF PsqlStates
<1>3. r = DollarQuote(l, c)
  BY DEF Read
<1>4. t = PsqlText(s, c)
  BY <1>1 DEF Psql, Body
<1> HIDE DEF r, t
<1>5. Len(s.tag) \in Nat /\ Len(s.seen) \in Nat
  BY <1>2
<1> DEFINE n == Matched(s)
           d == DelimiterAt(l, n + 1)
           whole == n + 1 = Len(s.tag) + 2
<1>6. n \in Nat
  BY <1>5 DEF Matched
<1>7. d = IF n + 1 \in {1, Len(s.tag) + 2} THEN "$" ELSE s.tag[n]
  BY <1>1, <1>6 DEF DelimiterAt
<1> DEFINE k == IF c = d THEN n + 1 ELSE Restart(c)
<1>8. ~(whole /\ c = d) => k \in Nat /\ r = Took([l EXCEPT !.match = k])
  <2>1. CASE c = d /\ ~whole
    BY <1>1, <1>3, <1>6, <2>1 DEF DollarQuote
  <2>2. CASE c # d
    BY <1>1, <1>3, <1>6, <2>2 DEF DollarQuote, Restart
  <2> QED BY <2>1, <2>2
<1> HIDE DEF d, k, n
(* What is left: the tag, the depth and the words stay, so the match is to *)
(* be shown what psql has seen of the delimiter.                           *)
<1>9. ASSUME t \in PsqlStates, t.at \in Body, ~t.ends, t.tag = s.tag, t.depth = s.depth,
             t.word = s.word, t.code = s.code, ~(whole /\ c = d), k = Matched(t)
      PROVE  Matches(r, t, next)
  <2>1. k \in Nat /\ r = Took([l EXCEPT !.match = k])
    BY <1>8, <1>9
  <2>2. l \in Locals
    BY <1>1
  <2>3. /\ r.lex \in Locals /\ ~r.pair /\ ~r.ends /\ r.lex.mode = l.mode
        /\ r.lex.depth = l.depth /\ r.lex.escaped = l.escaped
        /\ r.lex.candidate = l.candidate /\ r.lex.delimiter = l.delimiter /\ r.lex.match = k
        /\ r.lex.hasCode = l.hasCode /\ r.lex.prev = l.prev /\ r.lex.before = l.before
    BY ONLY <2>1, <2>2 DEF Took, Locals
  <2>4. Alike(r.lex, t)
    BY <1>1, <1>9, <2>3 DEF Alike, ModeAt, Outside, Within, Quoted, Body, TagShape, WordsAgree
  <2> QED BY <1>9, <2>3, <2>4 DEF Matches, Together, Undecided, Outside, Within, Body
<1>10. CASE s.at = "body"
  <2>1. n = 0 /\ d = "$" /\ ~whole
    BY <1>5, <1>7, <1>10 DEF Matched, n
  <2>2. CASE c = "$"
    <3>1. t = [[s EXCEPT !.at = "body$", !.ends = FALSE] EXCEPT !.seen = <<>>]
      BY <1>4, <1>10, <2>2 DEF PsqlText
    <3>2. /\ t \in PsqlStates /\ t.at = "body$" /\ ~t.ends /\ t.tag = s.tag /\ t.seen = <<>>
          /\ t.depth = s.depth /\ t.word = s.word /\ t.code = s.code
      BY <1>1, <3>1, EmptyTag DEF PsqlStates, Texts, Body
    <3>3. Matched(t) = 1
      BY <1>2, <3>2, StartsNone DEF Matched
    <3> QED BY <1>9, <2>1, <2>2, <3>2, <3>3 DEF k, Body
  <2>3. CASE c # "$"
    <3>1. t = s
      BY <1>4, <1>10, <2>3 DEF PsqlText
    <3> QED BY <1>1, <1>9, <1>10, <2>1, <2>3, <3>1 DEF k, n, Restart
  <2> QED BY <2>2, <2>3
<1>11. CASE s.at = "body$" /\ c = "$" /\ s.seen = s.tag
  <2>1. whole /\ d = c
    BY <1>2, <1>5, <1>7, <1>11, StartsNone DEF Matched, n
  <2>2. r = Took([l EXCEPT !.mode = "normal", !.match = 0, !.delimiter = <<>>])
    BY <1>1, <1>3, <2>1 DEF DollarQuote, d, n
  <2>3. t = [[s EXCEPT !.at = "top", !.ends = FALSE] EXCEPT !.tag = <<>>, !.seen = <<>>]
    BY <1>4, <1>11 DEF PsqlText, TagPart, Letters
  <2>4. /\ r.lex \in Locals /\ ~r.pair /\ ~r.ends /\ r.lex.mode = "normal"
        /\ r.lex.depth = l.depth /\ r.lex.escaped = l.escaped
        /\ r.lex.candidate = l.candidate /\ r.lex.delimiter = <<>> /\ r.lex.match = 0
        /\ r.lex.hasCode = l.hasCode /\ r.lex.prev = l.prev /\ r.lex.before = l.before
    BY <1>1, <2>2, EmptyTag DEF Took, Locals, Modes
  <2>5. /\ t \in PsqlStates /\ ~t.ends /\ t.at = "top" /\ t.tag = <<>>
        /\ t.depth = s.depth /\ t.word = s.word /\ t.code = s.code
    BY <1>1, <2>3, EmptyTag DEF PsqlStates, Texts
  <2>6. Alike(r.lex, t)
    BY <1>1, <1>11, <2>4, <2>5 DEF Alike, ModeAt, Outside, Within, Quoted, Body, Matched, TagShape, WordsAgree
  <2> QED BY <2>4, <2>5, <2>6 DEF Matches, Together, Undecided, Outside, Within
<1>12. CASE s.at = "body$" /\ c = "$" /\ s.seen # s.tag
  <2>1. t = [s EXCEPT !.seen = <<>>]
    BY <1>4, <1>12 DEF PsqlText, TagPart, Letters
  <2>2. /\ t \in PsqlStates /\ t.at = "body$" /\ ~t.ends /\ t.tag = s.tag /\ t.seen = <<>>
        /\ t.depth = s.depth /\ t.word = s.word /\ t.code = s.code
    BY <1>1, <1>12, <2>1, EmptyTag DEF PsqlStates
  <2>3. Matched(t) = 1
    BY <1>2, <2>2, StartsNone DEF Matched
  <2>4. CASE Starts(s.seen, s.tag)
    <3>1. n = 1 + Len(s.seen) /\ Len(s.seen) < Len(s.tag)
      BY <1>2, <1>5, <1>12, <2>4, StartsAll DEF Matched, Starts, n
    <3>2. d = s.tag[Len(s.seen) + 1] /\ d \in TagPart
      BY <1>2, <1>5, <1>7, <3>1
    <3>3. c # d
      BY <1>12, <3>2 DEF TagPart, Letters
    <3> QED BY <1>9, <1>12, <2>2, <2>3, <3>3 DEF k, Restart, Body
  <2>5. CASE ~Starts(s.seen, s.tag)
    <3>1. n = 0 /\ d = "$" /\ ~whole
      BY <1>5, <1>7, <2>5 DEF Matched, n
    <3> QED BY <1>9, <1>12, <2>2, <2>3, <3>1 DEF k, Body
  <2> QED BY <2>4, <2>5
<1>13. CASE s.at = "body$" /\ c # "$"
  <2>1. c = d => Starts(s.seen, s.tag) /\ Len(s.seen) < Len(s.tag) /\ c = s.tag[Len(s.seen) + 1]
    <3>1. CASE Starts(s.seen, s.tag)
      BY <1>2, <1>5, <1>7, <1>13, <3>1 DEF Matched, Starts, n
    <3>2. CASE ~Starts(s.seen, s.tag)
      BY <1>5, <1>7, <1>13, <3>2 DEF Matched, n
    <3> QED BY <3>1, <3>2
  <2>2. Starts(s.seen, s.tag) /\ Len(s.seen) < Len(s.tag) /\ c = s.tag[Len(s.seen) + 1]
          => c = d /\ n = 1 + Len(s.seen)
    BY <1>2, <1>5, <1>7, <1>13 DEF Matched, n
  <2>3. ~(whole /\ c = d)
    BY <1>5, <1>6, <2>1 DEF Matched, n
  <2>4. k = IF c = d THEN 2 + Len(s.seen) ELSE 0
    BY <1>5, <1>13, <2>1, <2>2 DEF k, Restart
  <2>5. CASE tagged /\ Len(s.seen) <= Len(s.tag)
    <3>1. t = [s EXCEPT !.seen = Append(@, c)]
      BY <1>4, <1>5, <1>13, <2>5 DEF PsqlText
    <3>2. c \in TagPart /\ Append(s.seen, c) \in Seq(TagPart) /\ Len(Append(s.seen, c)) = Len(s.seen) + 1
      BY <1>2, <2>5 DEF TagPart
    <3>3. /\ t \in PsqlStates /\ t.at = "body$" /\ ~t.ends /\ t.tag = s.tag
          /\ t.seen = Append(s.seen, c)
          /\ t.depth = s.depth /\ t.word = s.word /\ t.code = s.code
      BY <1>1, <1>13, <3>1, <3>2 DEF PsqlStates
    <3>4. Starts(t.seen, t.tag) <=> c = d
      BY <1>2, <2>1, <2>2, <3>2, <3>3, StartsMore
    <3>5. Matched(t) = k
      BY <1>5, <2>4, <3>2, <3>3, <3>4 DEF Matched
    <3> QED BY <1>9, <2>3, <3>3, <3>5 DEF Body
  <2>6. CASE tagged /\ Len(s.seen) > Len(s.tag)
    <3>1. t = s
      BY <1>4, <1>5, <1>13, <2>6 DEF PsqlText
    <3>2. Matched(t) = k
      BY <1>5, <2>1, <2>4, <2>6, <3>1 DEF Matched, Starts
    <3> QED BY <1>1, <1>9, <1>13, <2>3, <3>1, <3>2 DEF Body
  <2>7. CASE ~tagged
    <3>1. t = [[s EXCEPT !.at = "body", !.ends = FALSE] EXCEPT !.seen = <<>>]
      BY <1>4, <1>13, <2>7 DEF PsqlText
    <3>2. /\ t \in PsqlStates /\ t.at = "body" /\ ~t.ends /\ t.tag = s.tag
          /\ t.depth = s.depth /\ t.word = s.word /\ t.code = s.code
      BY <1>1, <3>1, EmptyTag DEF PsqlStates, Texts, Body
    <3>3. c # d
      <4>1. ASSUME c = d
            PROVE  FALSE
        <5>1. c \in TagPart /\ (s.seen = <<>> => c \in Letters)
          BY <1>1, <1>2, <1>5, <2>1, <4>1 DEF TagShape
        <5> QED BY <2>7, <5>1
      <4> QED BY <4>1
    <3> QED BY <1>9, <2>3, <2>4, <3>2, <3>3 DEF Body, Matched
  <2> QED BY <1>5, <2>5, <2>6, <2>7
<1> QED BY <1>1, <1>10, <1>11, <1>12, <1>13 DEF Body

(* Outside quotes and comments a dump writes no semicolon within           *)
(* parentheses.                                                            *)
EndsOnly(c, s) == s.at \in {"top", "dollar"} \cup Outside /\ c = "semicolon" => s.parens = 0

(* One byte of SQL, in any mode.                                           *)
LEMMA ReadMatches ==
  ASSUME NEW l, NEW s, NEW c \in Bytes, NEW next, Alike(l, s),
         s.at \in Undecided => c # Second(s.at), EndsOnly(c, s)
  PROVE  Matches(Read(l, c, next), Psql(s, c), next)
PROOF
<1>1. l.mode \in Modes
  BY DEF Alike, Locals
<1>2. l.mode \in {"normal", "dollar-candidate"} /\ c = "semicolon" => s.parens = 0
  BY Places DEF EndsOnly
<1> QED BY <1>1, <1>2, PlainByte, LineByte, BlockByte, StringByte, IdentifierByte, DollarByte, BodyByte
        DEF Modes

(* Where the reader does not look at the next byte, that changes nothing.  *)
LEMMA Unpeeked ==
  ASSUME NEW l \in Locals, NEW c, NEW x, NEW y, ~Peeks(l, c)
  PROVE  Read(l, c, x) = Read(l, c, y)
PROOF
<1>1. l.mode \in Modes
  BY DEF Locals
<1>2. ASSUME NEW m, c \notin {"-", "/"}
      PROVE  Normal(m, c, x) = Normal(m, c, y)
  BY <1>2 DEF Normal
<1>3. CASE l.mode \in {"normal", "dollar-candidate"}
  <2>1. c \notin {"-", "/"}
    BY <1>3 DEF Peeks
  <2> QED BY <1>2, <1>3, <2>1 DEF Read, DollarCandidate
<1>4. CASE l.mode \in {"line-comment", "dollar-quote"}
  BY <1>4 DEF Read
<1>5. CASE l.mode = "block-comment"
  <2>1. c \notin {"/", "*"}
    BY <1>5 DEF Peeks
  <2> QED BY <1>5, <2>1 DEF Read, BlockComment
<1>6. CASE l.mode = "single-quote"
  <2>1. l.escaped \/ c # "'"
    BY <1>6 DEF Peeks, Locals
  <2>2. SingleQuote(l, c, x) = SingleQuote(l, c, y)
    BY <2>1 DEF SingleQuote
  <2> QED BY <1>6, <2>2 DEF Read
<1>7. CASE l.mode = "double-quote"
  <2>1. c # "quote"
    BY <1>7 DEF Peeks
  <2> QED BY <1>7, <2>1 DEF Read, DoubleQuote
<1> QED BY <1>1, <1>3, <1>4, <1>5, <1>6, <1>7 DEF Modes

(* Hence psql does not wait for a second byte where the reader does not.   *)
LEMMA UnpeekedDecides ==
  ASSUME NEW l, NEW s, NEW c \in Bytes, Alike(l, s), ~Peeks(l, c),
         s.at \in Undecided => c # Second(s.at), EndsOnly(c, s)
  PROVE  LET r == Read(l, c, "none")
             t == Psql(s, c) IN
         \/ r.ends /\ ~r.pair /\ t = [Start EXCEPT !.ends = TRUE]
         \/ ~r.ends /\ ~r.pair /\ Alike(r.lex, t) /\ ~t.ends /\ t.at \notin Undecided
PROOF
<1> DEFINE r == Read(l, c, "none")
           t == Psql(s, c)
           second == Second(t.at)
<1>1. r = Read(l, c, second)
  BY Unpeeked DEF Alike
<1>2. Matches(r, t, "none")
  BY ReadMatches
<1>3. Matches(r, t, second)
  BY <1>1, ReadMatches
<1> HIDE DEF r, t, second
<1>4. ~r.pair
  BY <1>2 DEF Matches
<1>5. t.at \in Undecided => r.ends
  BY <1>3, <1>4 DEF Matches, Together, second
<1> QED BY <1>2, <1>4, <1>5 DEF Matches, Together, r, t

LEMMA PeekedBytes ==
  ASSUME NEW l \in Locals, NEW c, Peeks(l, c)
  PROVE  c \in {"-", "/", "*", "'", "quote"}
PROOF
<1>1. l.mode \in Modes
  BY DEF Locals
<1>2. CASE l.mode \in {"normal", "dollar-candidate"}
  BY <1>2 DEF Peeks
<1>3. CASE l.mode \in {"line-comment", "dollar-quote"}
  BY <1>3 DEF Peeks
<1>4. CASE l.mode = "block-comment"
  BY <1>4 DEF Peeks
<1>5. CASE l.mode = "single-quote"
  BY <1>5 DEF Peeks
<1>6. CASE l.mode = "double-quote"
  BY <1>6 DEF Peeks
<1> QED BY <1>1, <1>2, <1>3, <1>4, <1>5, <1>6 DEF Modes

(* What a dump may hold next.                                              *)
LEMMA WrittenFacts ==
  ASSUME NEW s, NEW f \in BOOLEAN, NEW c \in Written(s, f)
  PROVE  c \in Alphabet /\ c \in Bytes /\ EndsOnly(c, s) /\ c \in Written(s, TRUE)
PROOF
<1>1. c \in Alphabet /\ c \in Bytes
  BY DEF Written, Alphabet
<1>2. c \in Written(s, TRUE)
  BY DEF Written
<1>3. EndsOnly(c, s)
  <2>1. CASE s.at \in {"top"} \cup Outside
    BY <2>1 DEF EndsOnly, Written, Literal, Outside
  <2>2. CASE s.at = "dollar"
    BY <2>2 DEF EndsOnly, Written, Literal, Letters
  <2>3. CASE s.at \notin {"top", "dollar"} \cup Outside
    BY <2>3 DEF EndsOnly
  <2> QED BY <2>1, <2>2, <2>3
<1> QED BY <1>1, <1>2, <1>3

(* Comments are never nested deeper than the dump nests them.              *)
LEMMA DepthKept ==
  ASSUME NEW s \in PsqlStates, NEW c \in Written(s, TRUE), s.depth <= MaxDepth
  PROVE  Psql(s, c).depth <= MaxDepth
PROOF
<1> DEFINE t == Psql(s, c)
<1>1. s.depth \in Nat /\ s.at \in Texts /\ MaxDepth \in Nat /\ MaxDepth # 0 /\ c \in Bytes
  BY BoundsAssumption, WrittenFacts DEF PsqlStates
<1>2. t = PsqlText(s, c)
  BY <1>1 DEF Psql, Texts, Undecided, Outside, Within, Quoted, Body
<1>3. ASSUME c # "semicolon"
      PROVE  Top(s, c).depth = s.depth
  BY <1>1, <1>3, TopByte
<1>4. ASSUME c = "semicolon", s.at \in {"top"} \cup Outside
      PROVE  Top(s, c).depth = 0
  <2>1. s.parens = 0
    BY <1>4 DEF Written, Literal, Outside
  <2>2. Top(s, c) = [Start EXCEPT !.ends = TRUE]
    BY <1>4, <2>1 DEF Top, TagPart, Letters
  <2> QED BY <2>2 DEF Start
<1>5. ASSUME s.at = "dollar", c = "semicolon"
      PROVE  FALSE
  BY <1>5 DEF Written, Literal, Letters
<1>6. CASE t = Top(s, c) /\ s.at \in {"top", "dollar"} \cup Outside
  BY <1>1, <1>3, <1>4, <1>5, <1>6
<1>7. CASE s.at = "slash" /\ c = "*"
  <2>1. \E u \in PsqlStates : t = [u EXCEPT !.depth = 1]
    <3>1. [s EXCEPT !.at = "block", !.ends = FALSE] \in PsqlStates
      BY DEF PsqlStates, Texts
    <3> QED BY <1>2, <1>7, <3>1 DEF PsqlText
  <2>2. t.depth = 1
    BY <2>1 DEF PsqlStates
  <2> QED BY <1>1, <2>2
<1>8. CASE s.at = "block/" /\ c = "*"
  <2>1. s.depth < MaxDepth
    BY <1>8 DEF Written, Literal
  <2>2. \E u \in PsqlStates : u.depth = s.depth /\ t = [u EXCEPT !.depth = @ + 1]
    <3>1. /\ [s EXCEPT !.at = "block", !.ends = FALSE] \in PsqlStates
          /\ [s EXCEPT !.at = "block", !.ends = FALSE].depth = s.depth
      BY DEF PsqlStates, Texts
    <3> QED BY <1>2, <1>8, <3>1 DEF PsqlText
  <2>3. t.depth = s.depth + 1
    BY <2>2 DEF PsqlStates
  <2> QED BY <1>1, <2>1, <2>3
<1>9. CASE s.at = "block*" /\ c = "/"
  <2>1. \E u \in PsqlStates : u.depth = s.depth /\ t = [u EXCEPT !.depth = @ - 1]
    <3> DEFINE a == IF s.depth = 1 THEN "top" ELSE "block"
    <3>1. /\ [s EXCEPT !.at = a, !.ends = FALSE] \in PsqlStates
          /\ [s EXCEPT !.at = a, !.ends = FALSE].depth = s.depth
      BY DEF PsqlStates, Texts
    <3> QED BY <1>2, <1>9, <3>1 DEF PsqlText
  <2>2. t.depth = s.depth - 1
    BY <2>1 DEF PsqlStates
  <2> QED BY <1>1, <2>2
<1>10. CASE s.at = "dollar" /\ t # Top(s, c)
  <2>1. \/ t = [[s EXCEPT !.at = "body", !.ends = FALSE] EXCEPT !.tag = s.seen, !.seen = <<>>]
        \/ t = [s EXCEPT !.seen = Append(@, c)]
    BY <1>2, <1>10 DEF PsqlText
  <2> HIDE DEF t
  <2>2. t.depth = s.depth
    BY <2>1 DEF PsqlStates
  <2> QED BY <2>2 DEF t
<1>11. CASE s.at \in Body
  <2>1. \/ t = [[s EXCEPT !.at = "body$", !.ends = FALSE] EXCEPT !.seen = <<>>]
        \/ t = [[s EXCEPT !.at = "top", !.ends = FALSE] EXCEPT !.tag = <<>>, !.seen = <<>>]
        \/ t = [s EXCEPT !.seen = <<>>]
        \/ t = [s EXCEPT !.seen = Append(@, c)]
        \/ t = s
        \/ t = [[s EXCEPT !.at = "body", !.ends = FALSE] EXCEPT !.seen = <<>>]
    BY <1>2, <1>11, ZenonT(30) DEF PsqlText, Body
  <2> HIDE DEF t
  <2>2. t.depth = s.depth
    BY <2>1 DEF PsqlStates
  <2> QED BY <2>2 DEF t
<1>12. CASE /\ s.at \notin {"top", "dollar"} \cup Body
            /\ s.at \in Outside => t # Top(s, c)
            /\ ~(s.at \in {"slash", "block/"} /\ c = "*") /\ ~(s.at = "block*" /\ c = "/")
  <2>1. t = s \/ \E a \in Texts : t = [s EXCEPT !.at = a, !.ends = FALSE]
    BY <1>1, <1>2, <1>12, ZenonT(30) DEF PsqlText, Texts, Undecided, Outside, Within, Quoted, Body
  <2> HIDE DEF t
  <2>2. t.depth = s.depth
    BY <2>1 DEF PsqlStates
  <2> QED BY <2>2 DEF t
<1> QED BY <1>1, <1>2, <1>6, <1>7, <1>8, <1>9, <1>10, <1>11, <1>12 DEF PsqlText

(* A statement begins where psql's does.                                   *)
LEMMA FreshAlike ==
  ASSUME NEW s, NEW e \in BOOLEAN, s = [Start EXCEPT !.ends = e]
  PROVE  Alike(Fresh, s) /\ s.at = "top" /\ s.depth = 0
PROOF
<1>1. /\ Fresh \in Locals /\ Fresh.mode = "normal" /\ Fresh.depth = 0 /\ ~Fresh.escaped
      /\ Fresh.candidate = <<>> /\ Fresh.delimiter = <<>> /\ Fresh.match = 0
      /\ Fresh.prev = "none" /\ Fresh.before = "none"
  BY EmptyTag DEF Fresh, Locals, Modes
<1>2. /\ s \in PsqlStates /\ s.at = "top" /\ s.depth = 0 /\ s.tag = <<>> /\ s.word = "none" /\ ~s.code
  BY EmptyTag DEF Start, PsqlStates, Texts
<1>3. WordsAgree(Fresh, s)
  BY <1>1, <1>2 DEF WordsAgree, TagPart, Letters
<1> HIDE DEF Fresh
<1> QED BY <1>1, <1>2, <1>3 DEF Alike, ModeAt, Outside, Within, Quoted, Body, Matched, TagShape

-----------------------------------------------------------------------------
(* What the steps have in common.                                          *)
Buffers == [size : 0..MaxChunk, index : 0..MaxChunk, partStart : 0..MaxChunk]

(* A part that is cut off at the end of its chunk holds what it should.    *)
LEMMA ChunkEndKeeps ==
  ASSUME NEW b \in Buffers, b.index <= b.size, ReaderInv, AtChunkEnd(b),
         emptied \/ b.partStart = due \/ (b.index = 0 /\ due = 0)
  PROVE  /\ buffer' \in Buffers /\ buffer'.index <= buffer'.size /\ buffer'.size = b.size
         /\ due' \in 0..MaxChunk /\ torn' \in BOOLEAN /\ (torn' => emptied)
         /\ emptied \/ b.partStart = due \/ Exhausted(b)
              => emptied \/ IF Exhausted(buffer') THEN due' = buffer'.index /\ buffer'.partStart = 0
                    ELSE buffer'.partStart = due'
PROOF
<1>1. /\ b.index \in Nat /\ b.size \in Nat /\ b.index \in 0..MaxChunk /\ b.partStart \in Nat
      /\ due \in 0..MaxChunk /\ MaxChunk \in Nat /\ torn \in BOOLEAN /\ (torn => emptied)
  BY BoundsAssumption DEF Buffers, ReaderInv, TypeOK, PartsIntact
<1>2. CASE Exhausted(b)
  <2>1. buffer' = [b EXCEPT !.partStart = 0] /\ due' = b.index /\ torn' = (torn \/ Tears(b))
    BY <1>2 DEF AtChunkEnd, AppendPart, StartsOver
  <2>2. buffer' \in Buffers /\ buffer'.index = b.index /\ buffer'.size = b.size /\ buffer'.partStart = 0
    BY <1>1, <2>1 DEF Buffers
  <2>3. Tears(b) \in BOOLEAN /\ (Tears(b) => emptied)
    BY <1>1 DEF Tears, Span
  <2> QED BY <1>1, <1>2, <2>1, <2>2, <2>3 DEF Exhausted
<1>3. CASE ~Exhausted(b)
  <2>1. buffer' = b /\ due' = due /\ torn' = torn
    BY <1>3 DEF AtChunkEnd
  <2> QED BY <1>1, <1>3, <2>1
<1> QED BY <1>2, <1>3

(* The byte that comes next is one psql has no reason to pair.             *)
LEMMA ByteAhead ==
  ASSUME ReaderInv, phase = "scan", HasByte, NEW c \in NextByte
  PROVE  /\ c \in Written(psql, TRUE)
         /\ psql.at \in Undecided => c # Second(psql.at)
PROOF
<1>1. CASE ahead = "none"
  <2>1. ~ended
    BY DEF ReaderInv, TypeOK, HasByte, Exhausted
  <2>2. c \in Written(psql, column1) /\ column1 \in BOOLEAN
    BY <1>1 DEF NextByte, ReaderInv, TypeOK
  <2> QED BY <1>1, <2>1, <2>2, WrittenFacts DEF ReaderInv, AheadInv
<1>2. CASE ahead # "none"
  BY <1>2, WrittenFacts DEF ReaderInv, AheadInv, NextByte
<1> QED BY <1>1, <1>2

LEMMA DepthAlike ==
  ASSUME NEW l, NEW s, Alike(l, s), s.depth <= MaxDepth
  PROVE  /\ l \in Locals /\ s \in PsqlStates
         /\ l.depth \in 0..MaxDepth /\ (l.depth > 0 <=> l.mode = "block-comment")
PROOF
<1>1. l.depth \in Nat /\ s.at \in Texts /\ MaxDepth \in Nat
  BY BoundsAssumption DEF Alike, Locals, PsqlStates
<1>2. l.mode = "block-comment" <=> s.at \in {"block"} \cup Within
  BY <1>1 DEF Alike, ModeAt, Texts, Undecided, Outside, Within, Quoted, Body
<1> QED BY <1>1, <1>2 DEF Alike

(* One byte, or two, that end nothing.                                     *)
LEMMA ReadsAlike ==
  ASSUME NEW c, NEW next, NEW b, Reads(c, next, b), Alike(lex, psql), psql.depth <= MaxDepth,
         c \in Written(psql, TRUE), psql.at \in Undecided => c # Second(psql.at),
         \/ ~Peeks(lex, c) /\ next = "none"
         \/ Peeks(lex, c) /\ next \in Written(Psql(psql, c), FALSE)
         \/ ended /\ next = "none"
  PROVE  /\ Alike(lex', psql') /\ psql'.depth <= MaxDepth /\ ~psql'.ends
         /\ ahead' = "none" => (psql'.at \in Undecided => ended)
         /\ ahead' # "none" =>
              /\ psql'.at \in Undecided => ahead' # Second(psql'.at)
              /\ ahead' \in Written(psql', FALSE) /\ c # "\n"
PROOF
<1> DEFINE r == Read(lex, c, next)
           t == Psql(psql, c)
<1>1. /\ ~r.ends /\ lex' = r.lex
      /\ psql' = IF r.pair THEN Psql(t, next) ELSE t
      /\ ahead' = IF r.pair THEN "none" ELSE next
  BY DEF Reads
<1>2. c \in Bytes /\ EndsOnly(c, psql) /\ lex \in Locals /\ psql \in PsqlStates
  BY WrittenFacts DEF Alike
<1>3. Matches(r, t, next)
  BY <1>2, ReadMatches
<1>4. t.depth <= MaxDepth
  BY <1>2, DepthKept
<1>5. ~Peeks(lex, c) /\ next = "none" => r.ends \/ (~r.pair /\ t.at \notin Undecided)
  BY <1>2, UnpeekedDecides
<1> HIDE DEF r, t
<1>6. CASE ~r.pair
  <2>1. Together(r, t, next) /\ psql' = t /\ ahead' = next
    BY <1>1, <1>3, <1>6 DEF Matches
  <2>2. CASE next = "none"
    <3>1. ended \/ ~Peeks(lex, c)
      <4>1. "none" \notin Bytes
        BY DEF Bytes, TagPart, Letters, Space
      <4> QED BY <2>2, <4>1, WrittenFacts
    <3> QED BY <1>1, <1>4, <1>5, <2>1, <2>2, <3>1 DEF Together
  <2>3. CASE next # "none"
    <3>1. next \in Written(t, FALSE) /\ Peeks(lex, c)
      BY <2>3 DEF t
    <3>2. c # "\n"
      BY <1>2, <3>1, PeekedBytes
    <3> QED BY <1>1, <1>4, <2>1, <2>3, <3>1, <3>2 DEF Together
  <2> QED BY <2>2, <2>3
<1>7. CASE r.pair
  <2>1. /\ psql' = Psql(t, next) /\ ahead' = "none" /\ next # "none"
        /\ Together(r, psql', "none") /\ psql'.at \notin Undecided
    BY <1>1, <1>3, <1>7 DEF Matches
  <2>2. next \in Written(t, TRUE)
    BY <2>1, WrittenFacts DEF t
  <2>3. psql'.depth <= MaxDepth
    <3>1. t \in PsqlStates
      <4>1. Matches(Read(lex, c, "none"), t, "none")
        BY <1>2, ReadMatches DEF t
      <4>2. [Start EXCEPT !.ends = TRUE] \in PsqlStates
        BY EmptyTag DEF Start, PsqlStates, Texts
      <4> QED BY <4>1, <4>2 DEF Matches, Together, Alike
    <3> QED BY <1>4, <2>1, <2>2, <3>1, DepthKept
  <2> QED BY <1>1, <2>1, <2>3 DEF Together
<1> QED BY <1>6, <1>7

LEMMA TakeOne ==
  ASSUME ReaderInv, HasByte
  PROVE  LET b == Take(buffer, 1) IN
         /\ b \in Buffers /\ b.index = buffer.index + 1 /\ b.index <= b.size
         /\ b.size = buffer.size /\ b.partStart = buffer.partStart
PROOF
<1> DEFINE b == Take(buffer, 1)
<1>1. /\ buffer \in Buffers /\ buffer.index \in Nat /\ buffer.size \in 0..MaxChunk
      /\ buffer.index < buffer.size /\ MaxChunk \in Nat
  BY BoundsAssumption DEF ReaderInv, TypeOK, Buffers, HasByte, Exhausted
<1>2. b = [buffer EXCEPT !.index = @ + 1]
  BY DEF Take
<1> HIDE DEF b
<1>3. b \in Buffers /\ b.index = buffer.index + 1 /\ b.size = buffer.size /\ b.partStart = buffer.partStart
  BY <1>1, <1>2 DEF Buffers
<1> QED BY <1>1, <1>3 DEF b

LEMMA ReadsKeeps ==
  ASSUME ReaderInv, phase \in {"scan", "peek"},
         NEW c, NEW next, NEW b \in Buffers, Reads(c, next, b),
         b.index <= b.size, b.size = buffer.size, b.partStart = buffer.partStart,
         Read(lex, c, next).pair => ~Exhausted(b),
         HasByte \/ (ended /\ b = buffer),
         c \in Written(psql, TRUE), psql.at \in Undecided => c # Second(psql.at),
         \/ ~Peeks(lex, c) /\ next = "none"
         \/ Peeks(lex, c) /\ next \in Written(Psql(psql, c), FALSE)
         \/ ended /\ next = "none"
  PROVE  ReaderInv'
PROOF
<1> DEFINE r == Read(lex, c, next)
           d == IF r.pair THEN Take(b, 1) ELSE b
<1>1. /\ AtChunkEnd(d) /\ cut' = FALSE /\ column1' = (c = "\n") /\ phase' = "scan" /\ pending' = "none"
      /\ emptied' = emptied /\ ended' = ended /\ header' = header /\ checked' = checked /\ line' = line
  BY DEF Reads
<1>2. /\ Alike(lex, psql) /\ psql.depth <= MaxDepth /\ line = <<>>
      /\ emptied \in BOOLEAN /\ ended \in BOOLEAN /\ checked \in BOOLEAN
      /\ ended => buffer.size = 0
  BY DEF ReaderInv, PlaceInv, TypeOK
<1>3. /\ Alike(lex', psql') /\ psql'.depth <= MaxDepth /\ ~psql'.ends
      /\ ahead' = "none" => (psql'.at \in Undecided => ended)
      /\ ahead' # "none" =>
           /\ psql'.at \in Undecided => ahead' # Second(psql'.at)
           /\ ahead' \in Written(psql', FALSE) /\ c # "\n"
  BY <1>2, ReadsAlike
<1>4. d \in Buffers /\ d.index <= d.size /\ d.size = buffer.size /\ d.partStart = buffer.partStart
  <2>1. CASE r.pair
    <3>1. d = [b EXCEPT !.index = @ + 1] /\ b.index < b.size
      BY <2>1 DEF Take, Exhausted, Buffers
    <3> HIDE DEF d
    <3>2. b.index \in Nat /\ b.size \in 0..MaxChunk /\ MaxChunk \in Nat
      BY BoundsAssumption DEF Buffers
    <3> QED BY <3>1, <3>2 DEF Buffers
  <2>2. CASE ~r.pair
    BY <2>2
  <2> QED BY <2>1, <2>2
<1> HIDE DEF d, r
<1>5. emptied \/ d.partStart = due \/ (d.index = 0 /\ due = 0 /\ Exhausted(d))
  <2>1. CASE HasByte
    BY <1>4, <2>1 DEF ReaderInv, PartsInv
  <2>2. CASE ~HasByte
    <3>1. ended /\ b = buffer /\ buffer.size = 0 /\ buffer.index = 0
      BY <1>2, <2>2 DEF Buffers
    <3>2. Exhausted(b)
      BY <2>2, <3>1 DEF HasByte
    <3>3. d = buffer
      BY <3>1, <3>2 DEF d, r
    <3> QED BY <2>2, <3>1, <3>2, <3>3 DEF ReaderInv, PartsInv
  <2> QED BY <2>1, <2>2
<1>6. /\ buffer' \in Buffers /\ buffer'.index <= buffer'.size /\ buffer'.size = d.size
      /\ due' \in 0..MaxChunk /\ torn' \in BOOLEAN /\ (torn' => emptied)
      /\ emptied \/ IF Exhausted(buffer') THEN due' = buffer'.index /\ buffer'.partStart = 0
                    ELSE buffer'.partStart = due'
  BY <1>1, <1>4, <1>5, ChunkEndKeeps
<1>7. /\ lex' \in Locals /\ lex'.depth \in 0..MaxDepth /\ (lex'.depth > 0 <=> lex'.mode = "block-comment")
      /\ psql' \in PsqlStates
  BY <1>3, DepthAlike
<1>8. ahead' \in Alphabet \cup {"none"}
  BY <1>3, WrittenFacts
<1>9. TypeOK'
  BY <1>1, <1>2, <1>6, <1>7, <1>8 DEF TypeOK, Phases, Buffers
<1>10. PartsInv' /\ PartsIntact'
  BY <1>1, <1>6 DEF PartsInv, PartsIntact, HasByte, Exhausted
<1>11. PlaceInv'
  <2>1. line' = <<>> /\ line' \in Seq(PayloadBytes \ {"\n"})
    BY <1>1, <1>2
  <2> QED BY <1>1, <1>3, <2>1 DEF PlaceInv
<1>12. AheadInv'
  BY <1>1, <1>3 DEF AheadInv
<1>13. SplitsAgree' /\ NothingDropped' /\ psql'.ends \in BOOLEAN
  BY <1>1, <1>3, <1>7 DEF SplitsAgree, NothingDropped, PsqlStates
<1>14. ended' => buffer'.size = 0
  BY <1>1, <1>2, <1>4, <1>6
<1> QED BY <1>7, <1>9, <1>10, <1>11, <1>12, <1>13, <1>14 DEF ReaderInv

LEMMA ReadByteKeeps ==
  ASSUME ReaderInv, NEW c \in Alphabet, ReadByte(c)
  PROVE  ReaderInv'
PROOF
<1> DEFINE b == Take(buffer, 1)
<1>1. /\ phase = "scan" /\ HasByte /\ c \in NextByte /\ ~Peeks(lex, c) /\ Reads(c, "none", b)
  BY DEF ReadByte
<1>2. b \in Buffers /\ b.index <= b.size /\ b.size = buffer.size /\ b.partStart = buffer.partStart
  BY <1>1, TakeOne
<1>3. c \in Written(psql, TRUE) /\ (psql.at \in Undecided => c # Second(psql.at))
  BY <1>1, ByteAhead
<1>4. ~Read(lex, c, "none").pair
  <2>1. Alike(lex, psql) /\ c \in Bytes /\ EndsOnly(c, psql)
    BY <1>1, <1>3, WrittenFacts DEF ReaderInv, PlaceInv
  <2> QED BY <1>1, <1>3, <2>1, UnpeekedDecides
<1> HIDE DEF b
<1> QED BY <1>1, <1>2, <1>3, <1>4, ReadsKeeps

LEMMA ReadTwoKeeps ==
  ASSUME ReaderInv, NEW c \in Alphabet, NEW next \in Alphabet, ReadTwo(c, next)
  PROVE  ReaderInv'
PROOF
<1> DEFINE b == Take(buffer, 1)
<1>1. /\ phase = "scan" /\ HasByte /\ c \in NextByte /\ Peeks(lex, c) /\ ~Exhausted(b)
      /\ next \in Written(Psql(psql, c), FALSE) /\ Reads(c, next, b)
  BY DEF ReadTwo
<1>2. b \in Buffers /\ b.index <= b.size /\ b.size = buffer.size /\ b.partStart = buffer.partStart
  BY <1>1, TakeOne
<1>3. c \in Written(psql, TRUE) /\ (psql.at \in Undecided => c # Second(psql.at))
  BY <1>1, ByteAhead
<1> HIDE DEF b
<1> QED BY <1>1, <1>2, <1>3, ReadsKeeps

LEMMA PeekedKeeps ==
  ASSUME ReaderInv, (\E next \in Alphabet : PeekArrives(next)) \/ PeekAtEnd
  PROVE  ReaderInv'
PROOF
<1>1. buffer \in Buffers /\ buffer.index <= buffer.size
  BY DEF ReaderInv, TypeOK, Buffers
<1>2. ASSUME phase = "peek"
      PROVE  /\ Peeks(lex, pending) /\ pending \in Written(psql, TRUE)
             /\ psql.at \in Undecided => pending # Second(psql.at)
  BY <1>2 DEF ReaderInv, AheadInv
<1>3. ASSUME NEW next \in Alphabet, PeekArrives(next)
      PROVE  ReaderInv'
  <2>1. /\ phase = "peek" /\ HasByte
        /\ next \in Written(Psql(psql, pending), FALSE) /\ Reads(pending, next, buffer)
    BY <1>3 DEF PeekArrives
  <2>2. ~Exhausted(buffer)
    BY <2>1 DEF HasByte
  <2> QED BY <1>1, <1>2, <2>1, <2>2, ReadsKeeps
<1>4. CASE PeekAtEnd
  <2>1. phase = "peek" /\ ended /\ Reads(pending, "none", buffer)
    BY <1>4 DEF PeekAtEnd
  <2>2. ~Read(lex, pending, "none").pair
    <3>1. Alike(lex, psql) /\ pending \in Bytes /\ EndsOnly(pending, psql)
      BY <1>2, <2>1, WrittenFacts DEF ReaderInv, PlaceInv
    <3> QED BY <1>2, <2>1, <3>1, ReadMatches DEF Matches
  <2> QED BY <1>1, <1>2, <2>1, <2>2, ReadsKeeps
<1> QED BY <1>3, <1>4

(* A chunk, or the end of the source, leaves no byte behind.               *)
LEMMA SourceKeeps ==
  ASSUME ReaderInv, NEW size, (size \in 1..MaxChunk /\ NextChunk(size)) \/ (size = 0 /\ SourceEnds)
  PROVE  ReaderInv'
PROOF
<1>1. /\ ~ended /\ ~HasByte /\ phase \notin {"end", "refused"}
      /\ buffer' = [buffer EXCEPT !.size = size, !.index = 0]
      /\ size \in 0..MaxChunk /\ ended' \in BOOLEAN /\ (ended' => size = 0)
      /\ due' = 0 /\ torn' = (torn \/ LeavesBehind)
      /\ UNCHANGED <<phase, emptied, column1, header, checked, lex, pending, ahead, line, cut, psql>>
  <2>1. CASE size \in 1..MaxChunk /\ NextChunk(size)
    <3>1. size \in 0..MaxChunk /\ size \in Nat
      BY <2>1, BoundsAssumption
    <3>2. ~ended /\ ended' = ended /\ ended \in BOOLEAN
      BY <2>1 DEF NextChunk, ReaderInv, TypeOK
    <3> QED BY <2>1, <3>1, <3>2 DEF NextChunk
  <2>2. CASE size = 0 /\ SourceEnds
    BY <2>2, BoundsAssumption DEF SourceEnds
  <2> QED BY <2>1, <2>2
<1>2. buffer \in Buffers /\ buffer.index <= buffer.size /\ MaxChunk \in Nat
  BY BoundsAssumption DEF ReaderInv, TypeOK, Buffers
<1>3. /\ buffer' \in Buffers /\ buffer'.index = 0 /\ buffer'.partStart = buffer.partStart
      /\ ended' => buffer'.size = 0
  <2>1. 0 \in 0..MaxChunk /\ size \in 0..MaxChunk
    BY <1>1, <1>2
  <2>2. buffer' \in Buffers
    BY <1>1, <1>2, <2>1 DEF Buffers
  <2>3. buffer'.size = size /\ buffer'.index = 0 /\ buffer'.partStart = buffer.partStart
    BY <1>1, <1>2 DEF Buffers
  <2> QED BY <1>1, <2>2, <2>3
<1>4. ~emptied /\ phase \in {"scan", "peek"} => ~LeavesBehind /\ buffer'.partStart = 0
  BY <1>1, <1>3 DEF ReaderInv, PartsInv, LeavesBehind
<1>5. torn' \in BOOLEAN /\ (torn' => emptied)
  BY <1>1, <1>4 DEF ReaderInv, TypeOK, PartsIntact, LeavesBehind
<1>6. TypeOK' /\ PartsIntact'
  <2>1. buffer'.index <= buffer'.size
    BY <1>3 DEF Buffers
  <2> QED BY <1>1, <1>2, <1>3, <1>5, <2>1 DEF ReaderInv, TypeOK, PartsIntact, Buffers
<1>7. PartsInv'
  BY <1>1, <1>2, <1>3, <1>4 DEF PartsInv, HasByte, Exhausted
<1>8. PlaceInv'
  BY <1>1 DEF ReaderInv, PlaceInv
<1>9. AheadInv'
  BY <1>1 DEF ReaderInv, AheadInv
<1>10. SplitsAgree' /\ NothingDropped' /\ psql'.ends \in BOOLEAN /\ lex' \in Locals
  BY <1>1 DEF ReaderInv, SplitsAgree, NothingDropped
<1> QED BY <1>3, <1>6, <1>7, <1>8, <1>9, <1>10 DEF ReaderInv

LEMMA BeginKeeps ==
  ASSUME ReaderInv, Begin
  PROVE  ReaderInv'
PROOF
<1>1. /\ phase = "idle" /\ phase' = "scan" /\ lex' = Fresh /\ (HasByte \/ ended)
      /\ buffer' = [buffer EXCEPT !.partStart = buffer.index] /\ due' = buffer.index
      /\ UNCHANGED <<torn, emptied, ended, column1, header, checked, pending, ahead, line, cut, psql>>
  BY DEF Begin
<1>2. buffer \in Buffers /\ buffer.index <= buffer.size /\ MaxChunk \in Nat
  BY BoundsAssumption DEF ReaderInv, TypeOK, Buffers
<1>3. /\ buffer' \in Buffers /\ buffer'.index = buffer.index /\ buffer'.size = buffer.size
      /\ buffer'.partStart = buffer.index
  BY <1>1, <1>2 DEF Buffers
<1>4. psql = [Start EXCEPT !.ends = psql.ends] /\ psql.ends \in BOOLEAN /\ ahead = "none" /\ line = <<>>
  BY <1>1 DEF ReaderInv, PlaceInv, AheadInv
<1>5. Alike(Fresh, psql) /\ psql.at = "top" /\ psql.depth = 0 /\ MaxDepth \in Nat
  BY <1>4, FreshAlike, BoundsAssumption
<1>6. lex' \in Locals /\ lex'.depth \in 0..MaxDepth /\ (lex'.depth > 0 <=> lex'.mode = "block-comment")
  BY <1>1, <1>5, DepthAlike
<1>7. TypeOK'
  BY <1>1, <1>2, <1>3, <1>6 DEF ReaderInv, TypeOK, Buffers, Phases
<1>8. PartsInv'
  <2>1. ~HasByte => buffer.size = 0 /\ buffer.index = 0
    BY <1>1, <1>2 DEF ReaderInv, HasByte, Exhausted, Buffers
  <2> QED BY <1>1, <1>3, <2>1 DEF PartsInv, HasByte, Exhausted
<1>9. PlaceInv'
  <2>1. line' = <<>> /\ line' \in Seq(PayloadBytes \ {"\n"})
    BY <1>1, <1>4
  <2> QED BY <1>1, <1>5, <2>1 DEF PlaceInv
<1>10. AheadInv'
  BY <1>1, <1>4, <1>5 DEF AheadInv, Undecided, Outside, Within
<1> QED BY <1>1, <1>3, <1>6, <1>7, <1>8, <1>9, <1>10
        DEF ReaderInv, SplitsAgree, NothingDropped, PartsIntact

(* The byte that waits for the next chunk is in a part already.            *)
LEMMA PeekKeeps ==
  ASSUME ReaderInv, NEW c \in Alphabet, Peek(c)
  PROVE  ReaderInv'
PROOF
<1> DEFINE b == Take(buffer, 1)
<1>1. /\ phase = "scan" /\ HasByte /\ c \in NextByte /\ Peeks(lex, c) /\ Exhausted(b) /\ AtChunkEnd(b)
      /\ phase' = "peek" /\ pending' = c
      /\ UNCHANGED <<emptied, ended, column1, header, checked, lex, ahead, line, cut, psql>>
  BY DEF Peek
<1>2. b \in Buffers /\ b.index <= b.size /\ b.size = buffer.size /\ b.partStart = buffer.partStart
  BY <1>1, TakeOne
<1>3. c \in Written(psql, TRUE) /\ (psql.at \in Undecided => c # Second(psql.at))
  BY <1>1, ByteAhead
<1>4. emptied \/ b.partStart = due
  BY <1>1, <1>2 DEF ReaderInv, PartsInv
<1> HIDE DEF b
<1>5. /\ buffer' \in Buffers /\ buffer'.index <= buffer'.size /\ buffer'.size = b.size
      /\ due' \in 0..MaxChunk /\ torn' \in BOOLEAN /\ (torn' => emptied)
      /\ emptied \/ IF Exhausted(buffer') THEN due' = buffer'.index /\ buffer'.partStart = 0
                    ELSE buffer'.partStart = due'
  BY <1>1, <1>2, <1>4, ChunkEndKeeps
<1>6. c # "none"
  BY <1>3, WrittenFacts DEF Bytes, TagPart, Letters, Space
<1>7. TypeOK'
  BY <1>1, <1>5, <1>6 DEF ReaderInv, TypeOK, Phases, Buffers
<1>8. PartsInv' /\ PartsIntact'
  BY <1>1, <1>5 DEF PartsInv, PartsIntact, HasByte, Exhausted
<1>9. PlaceInv'
  BY <1>1 DEF ReaderInv, PlaceInv
<1>10. AheadInv'
  BY <1>1, <1>3 DEF AheadInv
<1>11. ended' => buffer'.size = 0
  BY <1>1, <1>2, <1>5 DEF ReaderInv
<1> QED BY <1>1, <1>7, <1>8, <1>9, <1>10, <1>11 DEF ReaderInv, SplitsAgree, NothingDropped

(* The semicolon: psql ends the statement there too.                       *)
LEMMA EndKeeps ==
  ASSUME ReaderInv, NEW c \in Alphabet, NEW kind \in Kinds, EndStatement(c, kind)
  PROVE  ReaderInv'
PROOF
<1> DEFINE b == Take(buffer, 1)
           t == Psql(psql, c)
<1>1. /\ phase = "scan" /\ HasByte /\ c \in NextByte /\ Read(lex, c, "none").ends
      /\ phase' = IF Acceptable(kind) THEN After(kind) ELSE "refused"
      /\ buffer' = b /\ AppendPart(b) /\ lex' = Fresh /\ cut' = TRUE
      /\ psql' = IF t.ends /\ kind = "copy" THEN CopyStarts ELSE t
      /\ checked' = TRUE /\ column1' = FALSE /\ ahead' = "none"
      /\ UNCHANGED <<emptied, ended, header, pending, line>>
  BY DEF EndStatement
<1>2. b \in Buffers /\ b.index <= b.size /\ b.size = buffer.size /\ b.partStart = buffer.partStart
  BY <1>1, TakeOne
<1>3. c \in Written(psql, TRUE) /\ (psql.at \in Undecided => c # Second(psql.at))
  BY <1>1, ByteAhead
<1>4. emptied \/ b.partStart = due
  BY <1>1, <1>2 DEF ReaderInv, PartsInv
<1>5. t = [Start EXCEPT !.ends = TRUE] /\ t.ends
  <2>1. Alike(lex, psql) /\ c \in Bytes /\ EndsOnly(c, psql)
    BY <1>1, <1>3, WrittenFacts DEF ReaderInv, PlaceInv
  <2>2. t = [Start EXCEPT !.ends = TRUE]
    BY <1>1, <1>3, <2>1, ReadMatches DEF Matches
  <2> QED BY <2>2 DEF Start
<1> HIDE DEF b, t
<1>6. due' \in 0..MaxChunk /\ torn' \in BOOLEAN /\ (torn' => emptied)
  BY <1>1, <1>2, <1>4 DEF AppendPart, Tears, Buffers, ReaderInv, TypeOK, PartsIntact
<1>7. lex' \in Locals /\ lex'.depth = 0 /\ lex'.mode = "normal" /\ MaxDepth \in Nat
  <2>1. Fresh \in Locals /\ Fresh.depth = 0 /\ Fresh.mode = "normal"
    BY EmptyTag DEF Fresh, Locals, Modes
  <2> QED BY <1>1, <2>1, BoundsAssumption
<1>8. phase' \in {"idle", "copy-line", "refused"}
  BY <1>1 DEF After
<1>9. TypeOK'
  <2>1. TypeOK /\ buffer' \in Buffers /\ buffer'.index <= buffer'.size
    BY <1>1, <1>2 DEF ReaderInv
  <2>2. phase' \in Phases /\ phase' # "peek"
    BY <1>8 DEF Phases
  <2>3. {torn', emptied', ended', column1', checked', cut'} \subseteq BOOLEAN
    BY <1>1, <1>6, <2>1 DEF TypeOK
  <2>4. {pending', ahead'} \subseteq Alphabet \cup {"none"}
    BY <1>1, <2>1 DEF TypeOK
  <2>5. lex'.depth \in 0..MaxDepth /\ (lex'.depth > 0 <=> lex'.mode = "block-comment")
    BY <1>7
  <2> HIDE DEF b
  <2> QED BY <1>6, <2>1, <2>2, <2>3, <2>4, <2>5 DEF TypeOK, Buffers
<1>10. PartsInv' /\ PartsIntact'
  BY <1>1, <1>6, <1>8 DEF PartsInv, PartsIntact
<1>11. psql'.ends /\ psql'.ends \in BOOLEAN
  BY <1>1, <1>5 DEF CopyStarts, Start
<1>12. PlaceInv'
  <2>1. line' = <<>> /\ line' \in Seq(PayloadBytes \ {"\n"})
    BY <1>1 DEF ReaderInv, PlaceInv
  <2>2. CASE phase' = "idle"
    <3>1. kind # "copy"
      BY <1>1, <2>2 DEF After
    <3>2. psql' = [Start EXCEPT !.ends = psql'.ends]
      BY <1>1, <1>5, <1>11, <3>1
    <3> QED BY <2>1, <2>2, <3>2 DEF PlaceInv
  <2>3. CASE phase' = "copy-line"
    <3>1. kind = "copy"
      BY <1>1, <2>3 DEF After
    <3>2. psql' = [Start EXCEPT !.at = "copy-line", !.ends = psql'.ends]
      BY <1>1, <1>5, <1>11, <3>1 DEF CopyStarts
    <3> QED BY <2>1, <2>3, <3>2 DEF PlaceInv
  <2>4. CASE phase' = "refused"
    BY <2>1, <2>4 DEF PlaceInv
  <2> QED BY <1>8, <2>2, <2>3, <2>4
<1>13. AheadInv'
  BY <1>1, <1>8 DEF AheadInv
<1>14. ended' => buffer'.size = 0
  BY <1>1, <1>2 DEF ReaderInv
<1> QED BY <1>1, <1>7, <1>8, <1>9, <1>10, <1>11, <1>12, <1>13, <1>14
        DEF ReaderInv, SplitsAgree, NothingDropped

(* The rest of the reader: meta-commands, payloads, and the end.           *)
LEMMA FileEndKeeps ==
  ASSUME ReaderInv, EndOfFile
  PROVE  ReaderInv'
PROOF
<1>1. /\ phase = "scan" /\ ~HasByte /\ ended /\ AppendPart(buffer)
      /\ phase' = IF Complete /\ (checked \/ header # "none") THEN "end" ELSE "refused"
      /\ UNCHANGED <<buffer, ended, emptied, column1, header, checked, lex, pending, ahead, line, cut, psql>>
  BY DEF EndOfFile, source
<1>2. /\ buffer \in Buffers /\ buffer.index = 0 /\ buffer.size = 0
      /\ emptied \/ (due = 0 /\ buffer.partStart = 0)
  <2>1. buffer \in Buffers /\ buffer.index <= buffer.size /\ buffer.size = 0
    BY <1>1 DEF ReaderInv, TypeOK, Buffers
  <2> QED BY <1>1, <2>1 DEF ReaderInv, PartsInv, Buffers
<1>3. due' \in 0..MaxChunk /\ torn' \in BOOLEAN /\ (torn' => emptied)
  BY <1>1, <1>2 DEF AppendPart, Tears, Buffers, ReaderInv, TypeOK, PartsIntact
<1>4. phase' \in {"end", "refused"}
  BY <1>1
<1>5. TypeOK' /\ PartsIntact'
  BY <1>1, <1>3, <1>4 DEF ReaderInv, TypeOK, PartsIntact, Phases
<1>6. PartsInv' /\ AheadInv'
  BY <1>4 DEF PartsInv, AheadInv
<1>7. Alike(lex, psql) /\ line \in Seq(PayloadBytes \ {"\n"}) /\ line = <<>>
  BY <1>1 DEF ReaderInv, PlaceInv
<1>8. PlaceInv'
  BY <1>1, <1>4, <1>7 DEF PlaceInv
<1>9. NothingDropped'
  <2>1. CASE phase' = "end"
    <3>1. Complete
      BY <1>1, <2>1
    <3>2. lex.mode \in Modes
      BY <1>7 DEF Alike, Locals
    <3>3. lex.mode \in {"normal", "line-comment", "dollar-candidate"} /\ ~lex.hasCode
      BY <3>1, <3>2 DEF Complete, Unclosed, Modes
    <3>4. psql.at \in {"top", "line"} /\ ~psql.code
      BY <1>7, <3>3, Places DEF Alike, Outside, Within
    <3> QED BY <1>1, <3>4 DEF NothingDropped
  <2>2. CASE phase' # "end"
    BY <2>2 DEF NothingDropped
  <2> QED BY <2>1, <2>2
<1> QED BY <1>1, <1>5, <1>6, <1>8, <1>9 DEF ReaderInv, SplitsAgree

LEMMA StartMetaKeeps ==
  ASSUME ReaderInv, StartMeta
  PROVE  ReaderInv'
PROOF
<1>1. /\ phase = "scan" /\ HasByte /\ column1 /\ phase' = "meta" /\ AppendPart(buffer) /\ ahead' = "none"
      /\ UNCHANGED <<buffer, ended, emptied, column1, header, checked, lex, pending, line, cut, psql>>
  BY DEF StartMeta, MetaCommand, source
<1>2. /\ buffer \in Buffers /\ buffer.index < buffer.size /\ ~ended
      /\ emptied \/ due = buffer.partStart
  <2>1. buffer \in Buffers /\ buffer.index < buffer.size
    BY <1>1 DEF ReaderInv, TypeOK, HasByte, Exhausted, Buffers
  <2> QED BY <1>1, <2>1 DEF ReaderInv, PartsInv, Buffers
<1>3. due' \in 0..MaxChunk /\ torn' \in BOOLEAN /\ (torn' => emptied)
  BY <1>1, <1>2 DEF AppendPart, Tears, Buffers, ReaderInv, TypeOK, PartsIntact
<1>4. TypeOK' /\ PartsIntact'
  BY <1>1, <1>3 DEF ReaderInv, TypeOK, PartsIntact, Phases
<1>5. psql.at \notin Undecided
  BY <1>1, <1>2 DEF ReaderInv, AheadInv
<1>6. PartsInv' /\ AheadInv'
  BY <1>1, <1>5 DEF PartsInv, AheadInv
<1>7. PlaceInv'
  BY <1>1 DEF ReaderInv, PlaceInv
<1> QED BY <1>1, <1>4, <1>6, <1>7 DEF ReaderInv, SplitsAgree, NothingDropped

(* The line of a meta-command, to its end or to the end of the chunk.      *)
LEMMA MetaKeeps ==
  ASSUME ReaderInv,
         \/ \E n \in 1..MaxChunk, supported \in BOOLEAN : ReadMetaLine(n, supported)
         \/ SkipMetaLine
         \/ \E supported \in BOOLEAN : MetaLineAtEnd(supported)
  PROVE  ReaderInv'
PROOF
<1>1. buffer \in Buffers /\ buffer.index <= buffer.size /\ MaxChunk \in Nat
  BY BoundsAssumption DEF ReaderInv, TypeOK, Buffers
<1>2. ASSUME NEW n \in Nat, n <= buffer.size - buffer.index
      PROVE  LET b == Take(buffer, n) IN
             b \in Buffers /\ b.index = buffer.index + n /\ b.index <= b.size /\ b.size = buffer.size
  <2> DEFINE b == Take(buffer, n)
  <2>1. b = [buffer EXCEPT !.index = buffer.index + n]
    BY DEF Take
  <2>2. buffer.index + n \in 0..MaxChunk /\ buffer.index + n <= buffer.size
    BY <1>1, <1>2 DEF Buffers
  <2> HIDE DEF b
  <2>3. b \in Buffers /\ b.index = buffer.index + n /\ b.size = buffer.size
    BY <1>1, <2>1, <2>2 DEF Buffers
  <2> QED BY <2>2, <2>3 DEF b
<1>3. ASSUME NEW b \in Buffers, b.index <= b.size, b.size = buffer.size, phase = "meta",
             NEW supported, MetaLineEnds(b, supported)
      PROVE  ReaderInv'
  <2>1. /\ phase' \in {"scan", "refused"}
        /\ buffer' = [b EXCEPT !.partStart = b.index] /\ due' = b.index
        /\ emptied' = (emptied \/ Exhausted(b)) /\ column1' = TRUE
        /\ UNCHANGED <<torn, ended, header, checked, lex, pending, ahead, line, cut, psql>>
    BY <1>3 DEF MetaLineEnds
  <2>2. /\ buffer' \in Buffers /\ buffer'.index = b.index /\ buffer'.size = b.size
        /\ buffer'.partStart = b.index /\ b.index \in 0..MaxChunk
    BY <1>3, <2>1 DEF Buffers
  <2>3. TypeOK' /\ PartsIntact'
    <3>1. phase' \in Phases /\ phase' # "peek"
      BY <2>1 DEF Phases
    <3>2. emptied' \in BOOLEAN /\ (emptied => emptied')
      BY <2>1 DEF ReaderInv, TypeOK, Exhausted
    <3> QED BY <1>3, <2>1, <2>2, <3>1, <3>2 DEF ReaderInv, TypeOK, PartsIntact, Buffers
  <2>4. PartsInv'
    <3>1. ~emptied' => ~Exhausted(buffer')
      BY <2>1, <2>2 DEF Exhausted
    <3> QED BY <2>1, <2>2, <3>1 DEF PartsInv, HasByte, Exhausted
  <2>5. psql.at \notin Undecided /\ ahead = "none"
    BY <1>3 DEF ReaderInv, AheadInv
  <2>6. AheadInv'
    BY <2>1, <2>5 DEF AheadInv
  <2>7. PlaceInv'
    BY <1>3, <2>1 DEF ReaderInv, PlaceInv
  <2>8. ended' => buffer'.size = 0
    BY <1>3, <2>1, <2>2 DEF ReaderInv
  <2> QED BY <2>1, <2>3, <2>4, <2>6, <2>7, <2>8 DEF ReaderInv, SplitsAgree, NothingDropped
<1>4. CASE \E n \in 1..MaxChunk, supported \in BOOLEAN : ReadMetaLine(n, supported)
  <2>1. PICK n \in 1..MaxChunk, supported \in BOOLEAN : ReadMetaLine(n, supported)
    BY <1>4
  <2>2. phase = "meta" /\ n <= buffer.size - buffer.index /\ MetaLineEnds(Take(buffer, n), supported)
    BY <2>1 DEF ReadMetaLine
  <2> QED BY <1>2, <1>3, <2>2
<1>5. CASE \E supported \in BOOLEAN : MetaLineAtEnd(supported)
  <2>1. PICK supported \in BOOLEAN : MetaLineAtEnd(supported)
    BY <1>5
  <2>2. phase = "meta" /\ MetaLineEnds(buffer, supported)
    BY <2>1 DEF MetaLineAtEnd
  <2> QED BY <1>1, <1>3, <2>2
<1>6. CASE SkipMetaLine
  <2> DEFINE n == buffer.size - buffer.index
             b == Take(buffer, n)
  <2>1. /\ phase = "meta" /\ HasByte /\ buffer' = b /\ due' = b.index /\ column1' = FALSE
        /\ UNCHANGED <<phase, torn, emptied, ended, header, checked, lex, pending, ahead, line, cut, psql>>
    BY <1>6 DEF SkipMetaLine
  <2>2. n \in Nat
    BY <1>1 DEF Buffers
  <2>3. b \in Buffers /\ b.index <= b.size /\ b.size = buffer.size
    BY <1>2, <2>2
  <2> HIDE DEF b, n
  <2>4. TypeOK' /\ PartsIntact'
    BY <2>1, <2>3 DEF ReaderInv, TypeOK, PartsIntact, Buffers
  <2>5. PartsInv' /\ AheadInv' /\ PlaceInv'
    BY <2>1 DEF ReaderInv, PartsInv, AheadInv, PlaceInv
  <2> QED BY <2>1, <2>3, <2>4, <2>5 DEF ReaderInv, SplitsAgree, NothingDropped
<1> QED BY <1>4, <1>5, <1>6

(* The line of the COPY command, up to its end.                            *)
LEMMA CopyLineKeeps ==
  ASSUME ReaderInv, NEW c \in {"blank", "\r", "\n", "a"}, ReadCopyLine(c)
  PROVE  ReaderInv'
PROOF
<1> DEFINE b == Take(buffer, 1)
           t == Psql(psql, c)
<1>1. /\ phase = "copy-line" /\ HasByte
      /\ phase' = CASE c = "\n" -> "payload" [] c \in {"blank", "\r"} -> phase [] OTHER -> "refused"
      /\ buffer' = b /\ due' = b.index /\ column1' = (c = "\n")
      /\ psql' = t /\ cut' = FALSE
      /\ UNCHANGED <<torn, emptied, ended, header, checked, lex, pending, ahead, line>>
  BY DEF ReadCopyLine
<1>2. b \in Buffers /\ b.index <= b.size /\ b.size = buffer.size
  BY <1>1, TakeOne
<1>3. psql = [Start EXCEPT !.at = "copy-line", !.ends = psql.ends] /\ line = <<>> /\ ahead = "none"
  BY <1>1 DEF ReaderInv, PlaceInv, AheadInv
<1>4. psql.at = "copy-line" /\ psql.ends \in BOOLEAN
  BY <1>3 DEF ReaderInv, Start
<1>5. t = [Start EXCEPT !.at = IF c = "\n" THEN "copy" ELSE "copy-line", !.ends = FALSE]
  <2>1. t = IF c = "\n" THEN [psql EXCEPT !.at = "copy", !.ends = FALSE]
                        ELSE [psql EXCEPT !.at = "copy-line", !.ends = FALSE]
    BY <1>4 DEF Psql, PsqlCopy
  <2> QED BY <1>3, <2>1 DEF Start
<1> HIDE DEF b, t
<1>6. t.ends = FALSE
  BY <1>5 DEF Start
<1>7. phase' = IF c = "\n" THEN "payload" ELSE IF c \in {"blank", "\r"} THEN "copy-line" ELSE "refused"
  BY <1>1
<1>8. TypeOK' /\ PartsIntact'
  <2>1. phase' \in Phases /\ phase' # "peek"
    BY <1>7 DEF Phases
  <2>2. due' \in 0..MaxChunk /\ column1' \in BOOLEAN
    BY <1>1, <1>2 DEF Buffers
  <2> QED BY <1>1, <1>2, <2>1, <2>2 DEF ReaderInv, TypeOK, PartsIntact, Buffers
<1>9. PartsInv' /\ AheadInv'
  BY <1>1, <1>3, <1>7 DEF PartsInv, AheadInv
<1>10. PlaceInv'
  <2>1. line' = <<>> /\ line' \in Seq(PayloadBytes \ {"\n"})
    BY <1>1, <1>3
  <2>2. RowAt(line') = "copy"
    BY <2>1 DEF RowAt
  <2>3. phase' = "payload" => psql' = [Start EXCEPT !.at = RowAt(line'), !.ends = FALSE]
    <3>1. ASSUME phase' = "payload"
          PROVE  psql' = [Start EXCEPT !.at = "copy", !.ends = FALSE]
      BY <1>1, <1>5, <1>7, <3>1
    <3> QED BY <2>2, <3>1
  <2>4. phase' = "copy-line" => psql' = [Start EXCEPT !.at = "copy-line", !.ends = psql'.ends]
    BY <1>1, <1>5, <1>6, <1>7
  <2> QED BY <1>7, <2>1, <2>3, <2>4 DEF PlaceInv
<1>11. ended' => buffer'.size = 0
  BY <1>1, <1>2 DEF ReaderInv
<1> QED BY <1>1, <1>6, <1>7, <1>8, <1>9, <1>10, <1>11 DEF ReaderInv, SplitsAgree, NothingDropped

(* A byte of a payload: the reader judges the line psql has followed.      *)
LEMMA RowCases ==
  ASSUME NEW text \in Seq(PayloadBytes)
  PROVE  LET n == Len(text) IN
         /\ n \in Nat /\ (text = <<>> <=> n = 0)
         /\ RowAt(text) \in {"copy", "copy\\", "copy\\.", "copy\\.\r", "copy-row"}
         /\ RowAt(text) = "copy" <=> n = 0
         /\ RowAt(text) = "copy\\" <=> n = 1 /\ text[1] = "\\"
         /\ RowAt(text) = "copy\\." <=> n = 2 /\ text[1] = "\\" /\ text[2] = "."
         /\ RowAt(text) = "copy\\.\r" <=> n = 3 /\ text[1] = "\\" /\ text[2] = "." /\ text[3] = "\r"
PROOF
<1> DEFINE n == Len(text)
<1>1. n \in Nat /\ (text = <<>> <=> n = 0)
  OBVIOUS
<1>2. text = <<"\\">> <=> n = 1 /\ text[1] = "\\"
  OBVIOUS
<1>3. text = <<"\\", ".">> <=> n = 2 /\ text[1] = "\\" /\ text[2] = "."
  OBVIOUS
<1>4. text = <<"\\", ".", "\r">> <=> n = 3 /\ text[1] = "\\" /\ text[2] = "." /\ text[3] = "\r"
  OBVIOUS
<1> HIDE DEF n
<1>5. RowAt(text) = CASE n = 0 -> "copy"
                      [] n = 1 /\ text[1] = "\\" -> "copy\\"
                      [] n = 2 /\ text[1] = "\\" /\ text[2] = "." -> "copy\\."
                      [] n = 3 /\ text[1] = "\\" /\ text[2] = "." /\ text[3] = "\r" -> "copy\\.\r"
                      [] OTHER -> "copy-row"
  BY <1>1, <1>2, <1>3, <1>4, Zenon DEF RowAt
<1> QED BY <1>1, <1>5 DEF n

LEMMA LineShape ==
  ASSUME NEW text \in Seq(PayloadBytes)
  PROVE  Marker(Append(text, "\n")) <=> RowAt(text) \in {"copy\\.", "copy\\.\r"}
PROOF
<1> DEFINE whole == Append(text, "\n")
<1>1. /\ Len(whole) = Len(text) + 1 /\ whole[Len(text) + 1] = "\n" /\ Len(text) \in Nat
      /\ \A i \in 1..Len(text) : whole[i] = text[i]
  OBVIOUS
<1> HIDE DEF whole
<1>2. ContentEnd(whole) = 2 <=> (Len(text) = 2 /\ text[2] # "\r") \/ (Len(text) = 3 /\ text[3] = "\r")
  BY <1>1 DEF ContentEnd
<1> QED BY <1>1, <1>2, RowCases DEF Marker, whole

LEMMA RowGrows ==
  ASSUME NEW text \in Seq(PayloadBytes), NEW c \in PayloadBytes
  PROVE  RowAt(Append(text, c)) =
           CASE RowAt(text) = "copy" /\ c = "\\" -> "copy\\"
             [] RowAt(text) = "copy\\" /\ c = "." -> "copy\\."
             [] RowAt(text) = "copy\\." /\ c = "\r" -> "copy\\.\r"
             [] OTHER -> "copy-row"
PROOF
<1> DEFINE more == Append(text, c)
<1>1. /\ Len(more) = Len(text) + 1 /\ more[Len(text) + 1] = c /\ Len(text) \in Nat
      /\ \A i \in 1..Len(text) : more[i] = text[i]
      /\ more \in Seq(PayloadBytes)
  OBVIOUS
<1> HIDE DEF more
<1>2. /\ RowAt(text) \in {"copy", "copy\\", "copy\\.", "copy\\.\r", "copy-row"}
      /\ RowAt(text) = "copy" <=> Len(text) = 0
      /\ RowAt(text) = "copy\\" <=> Len(text) = 1 /\ text[1] = "\\"
      /\ RowAt(text) = "copy\\." <=> Len(text) = 2 /\ text[1] = "\\" /\ text[2] = "."
      /\ RowAt(text) = "copy\\.\r" <=> Len(text) = 3 /\ text[1] = "\\" /\ text[2] = "." /\ text[3] = "\r"
  BY RowCases
<1>3. /\ RowAt(more) \in {"copy", "copy\\", "copy\\.", "copy\\.\r", "copy-row"}
      /\ RowAt(more) = "copy" <=> Len(more) = 0
      /\ RowAt(more) = "copy\\" <=> Len(more) = 1 /\ more[1] = "\\"
      /\ RowAt(more) = "copy\\." <=> Len(more) = 2 /\ more[1] = "\\" /\ more[2] = "."
      /\ RowAt(more) = "copy\\.\r" <=> Len(more) = 3 /\ more[1] = "\\" /\ more[2] = "." /\ more[3] = "\r"
  BY <1>1, RowCases
<1>4. RowAt(more) # "copy"
  BY <1>1, <1>3
<1>5. /\ Len(text) = 1 => more[1] = text[1] /\ more[2] = c
      /\ Len(text) = 2 => more[1] = text[1] /\ more[2] = text[2] /\ more[3] = c
  BY <1>1
<1>6. \A m, n \in Nat : m = n + 1 => (m = 2 <=> n = 1) /\ (m = 3 <=> n = 2)
  OBVIOUS
<1>7. Len(more) = Len(text) + 1 /\ Len(text) \in Nat /\ Len(more) \in Nat
  BY <1>1
<1>8. (Len(more) = 2 <=> Len(text) = 1) /\ (Len(more) = 3 <=> Len(text) = 2)
  BY <1>6, <1>7, Zenon
<1>9. RowAt(more) = "copy\\" <=> RowAt(text) = "copy" /\ c = "\\"
  BY <1>1, <1>2, <1>3
<1>10. RowAt(more) = "copy\\." <=> RowAt(text) = "copy\\" /\ c = "."
  BY <1>1, <1>2, <1>3, <1>5, <1>8
<1>11. RowAt(more) = "copy\\.\r" <=> RowAt(text) = "copy\\." /\ c = "\r"
  BY <1>1, <1>2, <1>3, <1>5, <1>8
<1> QED BY <1>2, <1>3, <1>4, <1>9, <1>10, <1>11 DEF more

LEMMA PayloadKeeps ==
  ASSUME ReaderInv, NEW c \in PayloadBytes, ReadPayload(c)
  PROVE  ReaderInv'
PROOF
<1> DEFINE b == Take(buffer, 1)
           t == Psql(psql, c)
           text == Append(line, c)
           closed == c = "\n" /\ Marker(text)
<1>1. line \in Seq(PayloadBytes \ {"\n"}) /\ line \in Seq(PayloadBytes)
  BY DEF ReaderInv, PlaceInv
<1>2. Whole(text) = (c = "\n")
  <2>1. text[Len(text)] = c
    BY <1>1
  <2> QED BY <2>1 DEF Whole
<1>3. /\ phase \in {"payload", "discard"} /\ HasByte
      /\ phase' = IF closed THEN "idle" ELSE phase
      /\ line' = IF c = "\n" THEN <<>> ELSE text
      /\ cut' = closed /\ column1' = (c = "\n")
      /\ buffer' = b /\ due' = b.index /\ psql' = t
      /\ UNCHANGED <<torn, emptied, ended, header, checked, lex, pending, ahead>>
  BY <1>2, Zenon DEF ReadPayload
<1>4. b \in Buffers /\ b.index <= b.size /\ b.size = buffer.size
  BY <1>3, TakeOne
<1>5. psql = [Start EXCEPT !.at = RowAt(line), !.ends = FALSE] /\ ahead = "none"
  BY <1>3 DEF ReaderInv, PlaceInv, AheadInv
<1>6. /\ psql.at = RowAt(line)
      /\ psql.at \in {"copy", "copy\\", "copy\\.", "copy\\.\r", "copy-row"}
  BY <1>1, <1>5, RowCases DEF Start
<1>7. t = IF closed THEN [Start EXCEPT !.ends = TRUE]
          ELSE [Start EXCEPT !.at = RowAt(line'), !.ends = FALSE]
  <2>1. t = PsqlCopy(psql, c)
    BY <1>6 DEF Psql
  <2>2. ASSUME NEW at
        PROVE  [psql EXCEPT !.at = at, !.ends = FALSE] = [Start EXCEPT !.at = at, !.ends = FALSE]
    BY <1>5 DEF Start
  <2>3. CASE c = "\n"
    <3>1. closed <=> RowAt(line) \in {"copy\\.", "copy\\.\r"}
      BY <1>1, <2>3, LineShape
    <3>2. RowAt(line') = "copy"
      BY <1>3, <2>3 DEF RowAt
    <3>3. t = IF RowAt(line) \in {"copy\\.", "copy\\.\r"} THEN [Start EXCEPT !.ends = TRUE]
              ELSE [psql EXCEPT !.at = "copy", !.ends = FALSE]
      <4> HIDE DEF t, closed, text
      <4> QED BY <1>6, <2>1, <2>3, SMTT(30) DEF PsqlCopy
    <3> HIDE DEF closed, t
    <3> QED BY <2>2, <3>1, <3>2, <3>3
  <2>4. CASE c # "\n"
    <3>1. ~closed /\ line' = text
      BY <1>3, <2>4
    <3>2. RowAt(text) = CASE RowAt(line) = "copy" /\ c = "\\" -> "copy\\"
             [] RowAt(line) = "copy\\" /\ c = "." -> "copy\\."
             [] RowAt(line) = "copy\\." /\ c = "\r" -> "copy\\.\r"
             [] OTHER -> "copy-row"
      BY <1>1, RowGrows
    <3>3. t = [psql EXCEPT !.at = RowAt(text), !.ends = FALSE]
      BY <1>6, <2>1, <2>4, <3>2 DEF PsqlCopy
    <3> HIDE DEF closed, t, text
    <3> QED BY <2>2, <3>1, <3>3
  <2> QED BY <2>3, <2>4
<1> HIDE DEF b, t, closed, text
<1>8. t.ends \in BOOLEAN /\ (t.ends <=> closed) /\ closed \in BOOLEAN
  <2>1. [Start EXCEPT !.ends = TRUE].ends = TRUE
    BY DEF Start
  <2>2. [Start EXCEPT !.at = RowAt(line'), !.ends = FALSE].ends = FALSE
    BY DEF Start
  <2>3. closed \in BOOLEAN
    BY DEF closed
  <2> QED BY <1>7, <2>1, <2>2, <2>3
<1>9. line' \in Seq(PayloadBytes \ {"\n"}) /\ (closed => line' = <<>>)
  <2>1. c # "\n" => text \in Seq(PayloadBytes \ {"\n"})
    BY <1>1 DEF text
  <2> QED BY <1>3, <2>1 DEF closed
<1>10. TypeOK' /\ PartsIntact'
  <2>1. phase' \in Phases /\ phase' # "peek"
    BY <1>3 DEF Phases
  <2>2. due' \in 0..MaxChunk /\ column1' \in BOOLEAN
    BY <1>3, <1>4 DEF Buffers
  <2> QED BY <1>3, <1>4, <1>8, <2>1, <2>2 DEF ReaderInv, TypeOK, PartsIntact, Buffers
<1>11. PartsInv' /\ AheadInv'
  BY <1>3, <1>5 DEF PartsInv, AheadInv
<1>12. PlaceInv'
  <2>1. CASE closed
    <3>1. psql' = [Start EXCEPT !.ends = psql'.ends]
      BY <1>3, <1>7, <1>8, <2>1
    <3> QED BY <1>3, <1>9, <2>1, <3>1 DEF PlaceInv
  <2>2. CASE ~closed
    BY <1>3, <1>7, <1>9, <2>2 DEF PlaceInv
  <2> QED BY <2>1, <2>2
<1>13. ended' => buffer'.size = 0
  BY <1>3, <1>4 DEF ReaderInv
<1> QED BY <1>3, <1>8, <1>10, <1>11, <1>12, <1>13 DEF ReaderInv, SplitsAgree, NothingDropped

-----------------------------------------------------------------------------
LEMMA ReaderInit == Init => ReaderInv
PROOF
<1> SUFFICES ASSUME Init PROVE ReaderInv
  OBVIOUS
<1>1. /\ phase = "idle" /\ buffer = [size |-> 0, index |-> 0, partStart |-> 0] /\ due = 0
      /\ torn = FALSE /\ emptied = FALSE /\ ended = FALSE /\ column1 = TRUE /\ checked = FALSE
      /\ lex = Fresh /\ pending = "none" /\ ahead = "none" /\ line = <<>> /\ cut = FALSE /\ psql = Start
  BY DEF Init
<1>2. 0 \in 0..MaxChunk /\ 0 \in 0..MaxDepth
  BY BoundsAssumption
<1>3. Fresh \in Locals /\ Fresh.depth = 0 /\ Fresh.mode = "normal"
  BY EmptyTag DEF Fresh, Locals, Modes
<1>4. psql = [Start EXCEPT !.ends = psql.ends] /\ psql.ends = FALSE
  BY <1>1 DEF Start
<1>5. TypeOK
  <2>1. lex.depth \in 0..MaxDepth /\ (lex.depth > 0 <=> lex.mode = "block-comment")
    BY <1>1, <1>2, <1>3
  <2>2. /\ buffer \in [size : 0..MaxChunk, index : 0..MaxChunk, partStart : 0..MaxChunk]
        /\ buffer.index <= buffer.size
    BY <1>1, <1>2
  <2> QED BY <1>1, <1>2, <2>1, <2>2, Zenon DEF TypeOK, Phases
<1>6. PlaceInv /\ AheadInv /\ PartsInv
  <2>1. line \in Seq(PayloadBytes \ {"\n"})
    BY <1>1
  <2> QED BY <1>1, <1>4, <2>1 DEF PlaceInv, AheadInv, PartsInv
<1> QED BY <1>1, <1>3, <1>4, <1>5, <1>6 DEF ReaderInv, PartsIntact, SplitsAgree, NothingDropped

LEMMA ReaderStep == ReaderInv /\ [Next]_vars => ReaderInv'
PROOF
<1> SUFFICES ASSUME ReaderInv, [Next]_vars PROVE ReaderInv'
  OBVIOUS
<1>1. ASSUME NEW size \in 1..MaxChunk, NextChunk(size) PROVE ReaderInv'
  BY <1>1, SourceKeeps
<1>2. CASE SourceEnds
  <2> DEFINE size == 0
  <2>1. size = 0 /\ SourceEnds
    BY <1>2
  <2> HIDE DEF size
  <2> QED BY <2>1, SourceKeeps
<1>3. CASE Begin
  BY <1>3, BeginKeeps
<1>4. ASSUME NEW c \in Alphabet, ReadByte(c) PROVE ReaderInv'
  BY <1>4, ReadByteKeeps
<1>5. ASSUME NEW c \in Alphabet, Peek(c) PROVE ReaderInv'
  BY <1>5, PeekKeeps
<1>6. ASSUME NEW c \in Alphabet, PeekArrives(c) PROVE ReaderInv'
  BY <1>6, PeekedKeeps
<1>7. ASSUME NEW c \in Alphabet, NEW next \in Alphabet, ReadTwo(c, next) PROVE ReaderInv'
  BY <1>7, ReadTwoKeeps
<1>8. CASE PeekAtEnd
  BY <1>8, PeekedKeeps
<1>9. ASSUME NEW c \in Alphabet, NEW kind \in Kinds, EndStatement(c, kind) PROVE ReaderInv'
  BY <1>9, EndKeeps
<1>10. CASE EndOfFile
  BY <1>10, FileEndKeeps
<1>11. CASE StartMeta
  BY <1>11, StartMetaKeeps
<1>12. ASSUME NEW n \in 1..MaxChunk, NEW supported \in BOOLEAN, ReadMetaLine(n, supported) PROVE ReaderInv'
  BY <1>12, MetaKeeps
<1>13. CASE SkipMetaLine
  BY <1>13, MetaKeeps
<1>14. ASSUME NEW supported \in BOOLEAN, MetaLineAtEnd(supported) PROVE ReaderInv'
  BY <1>14, MetaKeeps
<1>15. ASSUME NEW c \in {"blank", "\r", "\n", "a"}, ReadCopyLine(c) PROVE ReaderInv'
  BY <1>15, CopyLineKeeps
<1>16. ASSUME NEW c \in PayloadBytes, ReadPayload(c) PROVE ReaderInv'
  BY <1>16, PayloadKeeps
<1>17. CASE Discard
  <2>1. /\ phase = "payload" /\ phase' = "discard"
        /\ UNCHANGED <<buffer, ended, due, torn, emptied, column1, header, checked, lex,
                       pending, ahead, line, cut, psql>>
    BY <1>17 DEF Discard, source, parts
  <2>2. TypeOK'
    BY <2>1 DEF ReaderInv, TypeOK, Phases
  <2>3. PartsInv' /\ AheadInv' /\ PlaceInv'
    BY <2>1 DEF ReaderInv, PartsInv, AheadInv, PlaceInv
  <2> QED BY <2>1, <2>2, <2>3 DEF ReaderInv, PartsIntact, SplitsAgree, NothingDropped
<1>18. CASE Interrupted
  <2>1. /\ phase' = "refused"
        /\ UNCHANGED <<buffer, ended, due, torn, emptied, column1, header, checked, lex,
                       pending, ahead, line, cut, psql>>
    BY <1>18 DEF Interrupted, source, parts
  <2>2. TypeOK'
    BY <2>1 DEF ReaderInv, TypeOK, Phases
  <2>3. PartsInv' /\ AheadInv' /\ PlaceInv'
    BY <2>1 DEF ReaderInv, PartsInv, AheadInv, PlaceInv
  <2> QED BY <2>1, <2>2, <2>3 DEF ReaderInv, PartsIntact, SplitsAgree, NothingDropped
<1>19. CASE UNCHANGED vars
  <2>1. UNCHANGED <<phase, buffer, ended, due, torn, emptied, column1, header, checked, lex,
                    pending, ahead, line, cut, psql>>
    BY <1>19 DEF vars, source, parts
  <2>2. TypeOK' /\ PartsInv'
    BY <2>1 DEF ReaderInv, TypeOK, PartsInv, HasByte, Exhausted
  <2>3. AheadInv' /\ PlaceInv'
    BY <2>1 DEF ReaderInv, AheadInv, PlaceInv
  <2> QED BY <2>1, <2>2, <2>3 DEF ReaderInv, PartsIntact, SplitsAgree, NothingDropped
<1>20. Next => ReaderInv'
  <2> SUFFICES ASSUME Next PROVE ReaderInv'
    OBVIOUS
  <2> QED BY <1>1, <1>2, <1>3, <1>4, <1>5, <1>6, <1>7, <1>8, <1>9, <1>10, <1>11, <1>12,
             <1>13, <1>14, <1>15, <1>16, <1>17, <1>18, <1>19 DEF Next, Done
<1> QED BY <1>19, <1>20

LEMMA ReaderAlways == Spec => []ReaderInv
PROOF BY ReaderInit, ReaderStep, PTL DEF Spec

(* Every variable keeps its type, and nested comments are counted no       *)
(* deeper than the dump nests them (nextOperation's blockDepth), for       *)
(* chunks, nesting and lines of any length.                                *)
THEOREM TypeCorrect == Spec => []TypeOK
PROOF
<1>1. ReaderInv => TypeOK
  BY DEF ReaderInv
<1> QED BY <1>1, ReaderAlways, PTL

(* nextOperation ends a statement at the semicolon at which psql ends it,  *)
(* and readCopyPayload a payload at the line at which psql ends it,        *)
(* whatever strings, comments, identifiers and dollar quotes the dump      *)
(* holds and wherever its chunks end.                                      *)
THEOREM SplitsWherePsqlDoes == Spec => []SplitsAgree
PROOF
<1>1. ReaderInv => SplitsAgree
  BY DEF ReaderInv
<1> QED BY <1>1, ReaderAlways, PTL

(* appendPart loses no byte of a statement and takes none twice, across    *)
(* any number of chunks of any size, until a meta-command takes the last   *)
(* byte of its chunk.                                                      *)
THEOREM PartsHoldEveryByte == Spec => []PartsIntact
PROOF
<1>1. ReaderInv => PartsIntact
  BY DEF ReaderInv
<1> QED BY <1>1, ReaderAlways, PTL

(* nextOperation returns null only where psql would have nothing left to   *)
(* run.                                                                    *)
THEOREM NothingLeftAtEnd == Spec => []NothingDropped
PROOF
<1>1. ReaderInv => NothingDropped
  BY DEF ReaderInv
<1> QED BY <1>1, ReaderAlways, PTL
=============================================================================
