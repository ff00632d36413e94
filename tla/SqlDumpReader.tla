--------------------------- MODULE SqlDumpReader ---------------------------
(***************************************************************************)
(* SqlDumpReader: nextOperation, readCopyPayload and                       *)
(* discardCopyPayloadRemainder over a stream that arrives in chunks, run   *)
(* in lockstep with psql.                                                  *)
(*                                                                         *)
(* The bytes of a chunk are chosen when they are looked at, so a behaviour *)
(* is a dump of any length; where the chunks end is the source's choice.   *)
(* The buffer, its index and partStart are kept as the code keeps them; of *)
(* the parts of a statement only how far into the buffer they should reach *)
(* (due), and whether they ever missed or repeated a byte (torn).  The     *)
(* leading comments come before the bytes modelled here: header says what  *)
(* detectHeader finds in them.                                             *)
(***************************************************************************)
EXTENDS SqlLexer

CONSTANTS
  Excluded,  \* the bytes the SQL of the dump does not hold
  MaxChunk,  \* bytes of a chunk (bound)
  MaxTag,    \* letters of a dollar tag (bound)
  MaxDepth,  \* nesting of comments and of parentheses (bound)
  MaxLine    \* bytes of a line of a payload (bound)

ASSUME ExcludedAssumption == Excluded \subseteq Bytes
ASSUME BoundsAssumption == {MaxChunk, MaxTag, MaxDepth, MaxLine} \subseteq Nat /\ MaxDepth # 0

Alphabet == Bytes \ Excluded

VARIABLES
  phase,     \* what the reader is doing
  buffer,    \* length of #buffer, #index, and the local partStart
  due,       \* how far into the buffer the parts should reach
  torn,      \* a part was lost, or holds a byte twice
  emptied,   \* a meta-command took the last byte of a chunk
  ended,     \* #ended
  column1,   \* #column = 1
  header,    \* what the leading comments say
  checked,   \* #headerChecked
  lex,       \* the locals of nextOperation
  pending,   \* the byte that waits for a peek beyond its chunk
  ahead,     \* a byte peeked at and not taken
  line,      \* the bytes of the payload line read so far
  cut,       \* the last byte ended a statement or a payload
  psql       \* the reference

source == <<buffer, ended>>
parts  == <<due, torn, emptied>>
vars   == <<phase, source, parts, column1, header, checked, lex, pending, ahead, line, cut, psql>>

Phases == {"idle", "scan", "peek", "meta", "copy-line", "payload", "discard", "end", "refused"}

Init ==
  /\ phase = "idle"
  /\ buffer = [size |-> 0, index |-> 0, partStart |-> 0]
  /\ due = 0 /\ torn = FALSE /\ emptied = FALSE
  /\ ended = FALSE /\ column1 = TRUE
  /\ header \in {"none", "dbgate", "pg-dump"} /\ checked = FALSE
  /\ lex = Fresh /\ pending = "none" /\ ahead = "none" /\ line = <<>>
  /\ cut = FALSE /\ psql = Start

Exhausted(b) == b.index >= b.size
HasByte      == ~Exhausted(buffer)

-----------------------------------------------------------------------------
(* What a dump may hold: see the assumptions on the input in the README.   *)
Literal(s) == s.at \in {"string", "escapes", "escape", "identifier", "body", "line", "block"}

Written(s, firstColumn) ==
  {c \in Alphabet :
    \/ Literal(s) /\ s.at # "block"
    \/ s.at \in {"block", "block/", "block*"} /\ (s.at = "block/" /\ c = "*" => s.depth < MaxDepth)
    \/ /\ s.at = "dollar"
       /\ \/ c = "$"
          \/ c \in Letters /\ Len(s.seen) < MaxTag
          \/ c = "1" /\ (s.seen = <<>> \/ Len(s.seen) < MaxTag)
    \/ s.at = "body$"
    \/ /\ s.at \in {"top", "dash", "slash", "string'", "escapes'", "identifier'"}
       /\ c = "\\" => firstColumn
       /\ c = "$" => s.word = "none"
       /\ c \in Letters => s.word # "number"
       /\ c = "(" => s.parens < MaxDepth
       /\ c = "semicolon" => s.parens = 0}

-----------------------------------------------------------------------------
(* appendPart: the bytes from partStart to the index become a part.        *)
Span(from, to) == (from + 1)..to

Tears(b) == Span(b.partStart, b.index) # Span(due, b.index)

AppendPart(b) ==
  /\ torn' = (torn \/ Tears(b))
  /\ due' = b.index

(* At the end of a chunk what it holds becomes a part, and the next part   *)
(* starts with the next chunk.                                             *)
\* Mutant: the next part starts where the last one did.
KeepsStart(b) == b

StartsOver(b) == [b EXCEPT !.partStart = 0]

AtChunkEnd(b) ==
  IF Exhausted(b) THEN AppendPart(b) /\ buffer' = StartsOver(b)
  ELSE buffer' = b /\ UNCHANGED <<due, torn>>

(* ensureBuffer.  Bytes of a statement that are in no part are lost.       *)
LeavesBehind == phase \in {"scan", "peek"} /\ due # buffer.index

NextChunk(size) ==
  /\ ~ended /\ ~HasByte
  /\ phase \notin {"end", "refused"}
  /\ buffer' = [buffer EXCEPT !.size = size, !.index = 0]
  /\ due' = 0 /\ torn' = (torn \/ LeavesBehind)
  /\ UNCHANGED <<phase, emptied, ended, column1, header, checked, lex, pending, ahead, line, cut, psql>>

SourceEnds ==
  /\ ~ended /\ ~HasByte
  /\ phase \notin {"end", "refused"}
  /\ ended' = TRUE
  /\ buffer' = [buffer EXCEPT !.size = 0, !.index = 0]
  /\ due' = 0 /\ torn' = (torn \/ LeavesBehind)
  /\ UNCHANGED <<phase, emptied, column1, header, checked, lex, pending, ahead, line, cut, psql>>

-----------------------------------------------------------------------------
(* nextOperation: partStart is set once there is a byte to read.           *)
Begin ==
  /\ phase = "idle"
  /\ HasByte \/ ended
  /\ phase' = "scan"
  /\ lex' = Fresh
  /\ buffer' = [buffer EXCEPT !.partStart = buffer.index]
  /\ due' = buffer.index
  /\ UNCHANGED <<torn, emptied, ended, column1, header, checked, pending, ahead, line, cut, psql>>

Take(b, n) == [b EXCEPT !.index = @ + n]

(* One byte of SQL that ends nothing, with the byte after it where the     *)
(* reader looked at that.                                                  *)
Reads(c, next, b) ==
  LET r == Read(lex, c, next) IN
  /\ ~r.ends
  /\ lex' = r.lex
  /\ AtChunkEnd(IF r.pair THEN Take(b, 1) ELSE b)
  /\ psql' = LET s == Psql(psql, c) IN IF r.pair THEN Psql(s, next) ELSE s
  /\ cut' = FALSE
  /\ column1' = (c = "\n")
  /\ ahead' = IF r.pair THEN "none" ELSE next
  /\ phase' = "scan" /\ pending' = "none"
  /\ UNCHANGED <<emptied, ended, header, checked, line>>

MetaCommand(c) == lex.mode = "normal" /\ column1 /\ c = "\\"

NextByte == IF ahead = "none" THEN Written(psql, column1) ELSE {ahead}

ReadByte(c) ==
  /\ phase = "scan" /\ HasByte
  /\ c \in NextByte /\ ~MetaCommand(c) /\ ~Peeks(lex, c)
  /\ Reads(c, "none", Take(buffer, 1))

ReadTwo(c, next) ==
  /\ phase = "scan" /\ HasByte
  /\ c \in NextByte /\ ~MetaCommand(c) /\ Peeks(lex, c)
  /\ ~Exhausted(Take(buffer, 1))
  /\ next \in Written(Psql(psql, c), FALSE)
  /\ Reads(c, next, Take(buffer, 1))

(* The byte ends its chunk: appendPart, then wait for the next one.        *)
Peek(c) ==
  /\ phase = "scan" /\ HasByte
  /\ c \in NextByte /\ ~MetaCommand(c) /\ Peeks(lex, c)
  /\ Exhausted(Take(buffer, 1))
  /\ phase' = "peek" /\ pending' = c
  /\ AtChunkEnd(Take(buffer, 1))
  /\ UNCHANGED <<emptied, ended, column1, header, checked, lex, ahead, line, cut, psql>>

PeekArrives(next) ==
  /\ phase = "peek" /\ HasByte
  /\ next \in Written(Psql(psql, pending), FALSE)
  /\ Reads(pending, next, buffer)

PeekAtEnd ==
  /\ phase = "peek" /\ ~HasByte /\ ended
  /\ Reads(pending, "none", buffer)

(* What the text between two ends is depends on its words: plain SQL, the  *)
(* canonical COPY, or a COPY this reader refuses.                          *)
Kinds == {"sql", "copy", "variant"}

Acceptable(kind) == kind # "variant" /\ (checked \/ header # "none")

After(kind) == IF kind = "copy" THEN "copy-line" ELSE "idle"

EndStatement(c, kind) ==
  /\ phase = "scan" /\ HasByte
  /\ c \in NextByte /\ ~MetaCommand(c)
  /\ Read(lex, c, "none").ends
  /\ phase' = IF Acceptable(kind) THEN After(kind) ELSE "refused"
  /\ checked' = TRUE
  /\ buffer' = Take(buffer, 1)
  /\ AppendPart(buffer')
  /\ psql' = LET s == Psql(psql, c) IN IF s.ends /\ kind = "copy" THEN CopyStarts ELSE s
  /\ cut' = TRUE
  /\ column1' = FALSE /\ ahead' = "none"
  /\ lex' = Fresh
  /\ UNCHANGED <<emptied, ended, header, pending, line>>

(* The end of the file, also within a statement.                           *)
\* Mutant: a statement without its semicolon is dropped.
CompleteAnyway == ~Unclosed(lex)

Complete == ~Unclosed(lex) /\ ~lex.hasCode

EndOfFile ==
  /\ phase = "scan" /\ ~HasByte /\ ended
  /\ AppendPart(buffer)
  /\ phase' = IF Complete /\ (checked \/ header # "none") THEN "end" ELSE "refused"
  /\ UNCHANGED <<source, emptied, column1, header, checked, lex, pending, ahead, line, cut, psql>>

-----------------------------------------------------------------------------
(* consumePgDumpMetaCommand.  The line belongs to no part; supported says  *)
(* whether it is \restrict or \unrestrict.                                 *)
StartMeta ==
  /\ phase = "scan" /\ HasByte
  /\ \E c \in NextByte : MetaCommand(c)
  /\ phase' = "meta"
  /\ AppendPart(buffer)
  /\ ahead' = "none"
  /\ UNCHANGED <<source, emptied, column1, header, checked, lex, pending, line, cut, psql>>

MetaLineEnds(b, supported) ==
  /\ phase' = IF supported /\ header = "pg-dump" THEN "scan" ELSE "refused"
  /\ buffer' = [b EXCEPT !.partStart = b.index]
  /\ due' = b.index
  /\ emptied' = (emptied \/ Exhausted(b))
  /\ column1' = TRUE
  /\ UNCHANGED <<torn, ended, header, checked, lex, pending, ahead, line, cut, psql>>

ReadMetaLine(n, supported) ==
  /\ phase = "meta" /\ HasByte
  /\ n <= buffer.size - buffer.index
  /\ MetaLineEnds(Take(buffer, n), supported)

SkipMetaLine ==
  /\ phase = "meta" /\ HasByte
  /\ buffer' = Take(buffer, buffer.size - buffer.index)
  /\ due' = buffer'.index
  /\ column1' = FALSE
  /\ UNCHANGED <<phase, torn, emptied, ended, header, checked, lex, pending, ahead, line, cut, psql>>

MetaLineAtEnd(supported) ==
  /\ phase = "meta" /\ ~HasByte /\ ended
  /\ MetaLineEnds(buffer, supported)

-----------------------------------------------------------------------------
(* consumeCopyCommandLineEnding.                                           *)
ReadCopyLine(c) ==
  /\ phase = "copy-line" /\ HasByte
  /\ phase' = CASE c = "\n" -> "payload" [] c \in {"blank", "\r"} -> phase [] OTHER -> "refused"
  /\ buffer' = Take(buffer, 1) /\ due' = buffer'.index
  /\ column1' = (c = "\n")
  /\ psql' = Psql(psql, c) /\ cut' = FALSE
  /\ UNCHANGED <<torn, emptied, ended, header, checked, lex, pending, ahead, line>>

(* readCopyPayload and discardCopyPayloadRemainder collect a line, over as *)
(* many chunks as it takes, and judge it once it is whole.                 *)
PayloadBytes == {"\\", ".", "\r", "\n", "a"}

Whole(text) == text[Len(text)] = "\n"

ContentEnd(text) ==
  IF Len(text) >= 2 /\ text[Len(text) - 1] = "\r" THEN Len(text) - 2 ELSE Len(text) - 1

Marker(text) == ContentEnd(text) = 2 /\ text[1] = "\\" /\ text[2] = "."

ReadPayload(c) ==
  LET text == Append(line, c) IN
  /\ phase \in {"payload", "discard"} /\ HasByte
  /\ Len(line) < MaxLine \/ Whole(text)
  /\ phase' = IF Whole(text) /\ Marker(text) THEN "idle" ELSE phase
  /\ line' = IF Whole(text) THEN <<>> ELSE text
  /\ cut' = (Whole(text) /\ Marker(text))
  /\ buffer' = Take(buffer, 1) /\ due' = buffer'.index
  /\ column1' = Whole(text)
  /\ psql' = Psql(psql, c)
  /\ UNCHANGED <<torn, emptied, ended, header, checked, lex, pending, ahead>>

(* A load that failed stops the generator where it yields: after a line.   *)
Discard ==
  /\ phase = "payload" /\ line = <<>>
  /\ phase' = "discard"
  /\ UNCHANGED <<source, parts, column1, header, checked, lex, pending, ahead, line, cut, psql>>

(* Data is missing at the end of the file; elsewhere the read is cut off   *)
(* by a cancellation, an error of the source, a statement over its limit   *)
(* or text that is not UTF-8.                                              *)
Interrupted ==
  /\ phase \notin {"end", "refused"}
  /\ phase' = "refused"
  /\ UNCHANGED <<source, parts, column1, header, checked, lex, pending, ahead, line, cut, psql>>

Done == phase \in {"end", "refused"} /\ UNCHANGED vars

Next ==
  \/ \E size \in 1..MaxChunk : NextChunk(size)
  \/ SourceEnds
  \/ Begin
  \/ \E c \in Alphabet : ReadByte(c) \/ Peek(c) \/ PeekArrives(c)
  \/ \E c, next \in Alphabet : ReadTwo(c, next)
  \/ PeekAtEnd
  \/ \E c \in Alphabet, kind \in Kinds : EndStatement(c, kind)
  \/ EndOfFile
  \/ StartMeta
  \/ \E n \in 1..MaxChunk, supported \in BOOLEAN : ReadMetaLine(n, supported)
  \/ SkipMetaLine
  \/ \E supported \in BOOLEAN : MetaLineAtEnd(supported)
  \/ \E c \in {"blank", "\r", "\n", "a"} : ReadCopyLine(c)
  \/ \E c \in PayloadBytes : ReadPayload(c)
  \/ Discard
  \/ Interrupted
  \/ Done

Spec == Init /\ [][Next]_vars

-----------------------------------------------------------------------------
(* PROPERTIES                                                              *)

(* Each variable stays within its type; comments are never counted deeper  *)
(* than the dump nests them, and only within a comment.                    *)
TypeOK ==
  /\ phase \in Phases
  /\ buffer \in [size : 0..MaxChunk, index : 0..MaxChunk, partStart : 0..MaxChunk]
  /\ buffer.index <= buffer.size
  /\ due \in 0..MaxChunk
  /\ {torn, emptied, ended, column1, checked, cut} \subseteq BOOLEAN
  /\ {pending, ahead} \subseteq Alphabet \cup {"none"}
  /\ lex.depth \in 0..MaxDepth /\ (lex.depth > 0 <=> lex.mode = "block-comment")
  /\ phase = "peek" => pending # "none"

(* The reader ends a statement at the byte at which psql ends it, and a    *)
(* payload at the line at which psql ends it, wherever the chunks end:     *)
(* every string, identifier, comment, dollar quote and row is read as the  *)
(* same text by both.                                                      *)
SplitsAgree == cut <=> psql.ends

(* No byte of a statement is lost and none is read twice, wherever the     *)
(* chunks end, except after a meta-command that takes the last byte of its *)
(* chunk.                                                                  *)
PartsIntact == torn => emptied

(* nextOperation says that nothing is left only when psql would have       *)
(* nothing left to run: no statement without its semicolon is dropped.     *)
NothingDropped == phase = "end" => ~psql.code /\ psql.at \in {"top", "line"}

(* A supported meta-command does nothing, as plain-sql-restore.md says of  *)
(* \restrict and \unrestrict: the statement after it, or around it, is     *)
(* read whole.                                                             *)
GuardsDoNothing == ~torn
=============================================================================
