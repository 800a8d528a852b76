------------------------------- MODULE Sources -------------------------------
(***************************************************************************)
(* From a source to its declarations: the splitter, which cuts a source at *)
(* the lines that begin a definition, and the strict parser, which rejects *)
(* what the splitter would drop and says where (language/pipeline/split.ts,*)
(* language/parse-strict.ts).  A line is a sequence of tokens of width one,*)
(* with the declaration its construct denotes if it begins one.            *)
(***************************************************************************)
EXTENDS Integers, SequencesExt

CONSTANT Keyword       \* DEFINITION_KEYWORDS, every one with a module

Each(f(_), seq) == [i \in DOMAIN seq |-> f(seq[i])]
Flat(f(_), seq) == FlattenSeq(Each(f, seq))

\* The elements of seq that are in S: SelectSeq in a form proofs can open.
Kept(seq, S) == Flat(LAMBDA e : IF e \in S THEN <<e>> ELSE <<>>, seq)

Blob    == "\"\"\""    \* opens and closes opaque text, over lines
Quote   == "'"
Comment == "//"

Code(toks)    == [toks |-> toks, node |-> <<>>]         \* a line without declaration
Decl(word, n) == [toks |-> <<word, "body">>, node |-> <<n>>]

-----------------------------------------------------------------------------
(* scanLine: a comment outside blobs and quotes ends the line; a quote ends*)
(* with the line at the latest, a blob does not.                           *)
Scan(s, t) ==
  IF s.cut THEN s
  ELSE CASE s.in = "blob"  -> [s EXCEPT !.out = Append(@, t), !.in = IF t = Blob THEN "code" ELSE @]
         [] s.in = "quote" -> [s EXCEPT !.out = Append(@, t), !.in = IF t = Quote THEN "code" ELSE @]
         [] s.in = "code"  ->
              IF t = Comment THEN [s EXCEPT !.cut = TRUE]
              ELSE [s EXCEPT !.out = Append(@, t),
                             !.in = IF t = Blob THEN "blob" ELSE IF t = Quote THEN "quote" ELSE @]

scanLine(toks, inBlob) ==
  LET s == FoldLeft(Scan, [out |-> <<>>, in |-> IF inBlob THEN "blob" ELSE "code", cut |-> FALSE], toks)
  IN [stripped |-> s.out, inBlob |-> s.in = "blob"]

\* Anchoring looks at the blob state at the start of the line.
Anchors(before, scanned) ==
  ~before /\ scanned.stripped # <<>> /\ Head(scanned.stripped) \in Keyword

ClassifyLine(s, line) ==
  LET scanned == scanLine(line.toks, s.inBlob) IN
  [infos  |-> Append(s.infos, [stripped |-> scanned.stripped, node |-> line.node,
                               isAnchor |-> Anchors(s.inBlob, scanned), offset |-> s.offset]),
   inBlob |-> scanned.inBlob,
   offset |-> s.offset + Len(line.toks) + 1]

classify(lines) ==
  FoldLeft(ClassifyLine, [infos |-> <<>>, inBlob |-> FALSE, offset |-> 0], lines).infos

(* A region runs from its anchor to the next one, without the blank lines  *)
(* at its end; line is where it begins.                                    *)
toBlocks(infos) ==
  LET anchors == Kept([i \in DOMAIN infos |-> i], {i \in DOMAIN infos : infos[i].isAnchor})
      Block(a) ==
        LET first == anchors[a]
            end   == IF a < Len(anchors) THEN anchors[a + 1] - 1 ELSE Len(infos)
            last  == Max({first} \cup {i \in first..end : infos[i].stripped # <<>>})
        IN [text   |-> [i \in 1..(last - first + 1) |-> infos[first + i - 1].stripped],
            offset |-> infos[first].offset, node |-> infos[first].node, line |-> first]
  IN [a \in DOMAIN anchors |-> Block(a)]

split(lines) == toBlocks(classify(lines))

-----------------------------------------------------------------------------
(* What the grammars of the constructs make of a block: the declaration, or*)
(* the line and column in the block's text of the first token that has no  *)
(* place in it, or of its end when a blob or a quote is still open.  Unlike*)
(* the splitter they let a quote run over lines.                           *)
MatchToken(s, t) ==
  IF s.bad THEN s
  ELSE IF s.in = "code" /\ (t = "junk" \/ (t \in Keyword /\ s.seen)) THEN [s EXCEPT !.bad = TRUE]
  ELSE [s EXCEPT !.col = @ + 1, !.seen = TRUE,
                 !.in = CASE @ = "code" /\ t = Blob  -> "blob"
                          [] @ = "code" /\ t = Quote -> "quote"
                          [] @ = "blob" /\ t = Blob   -> "code"
                          [] @ = "quote" /\ t = Quote -> "code"
                          [] OTHER -> @]

MatchLine(s, toks) ==
  FoldLeft(MatchToken, IF s.bad THEN s ELSE [s EXCEPT !.line = @ + 1, !.col = 1], toks)

Match(block) ==
  LET end == FoldLeft(MatchLine, [in |-> "code", line |-> 0, col |-> 1, seen |-> FALSE, bad |-> FALSE],
                      block.text)
  IN [ok |-> ~end.bad /\ end.in = "code", line |-> end.line, col |-> end.col]

\* Where a line begins that follows these, the first of which begins at off.
Behind(off, toks)  == off + Len(toks) + 1
Offset(off, texts) == FoldLeft(Behind, off, texts)

Start(lines, i) == Offset(0, [k \in 1..(i - 1) |-> lines[k].toks])

posToLineCol(lines, pos) ==
  LET line == Max({1} \cup {i \in DOMAIN lines : Start(lines, i) <= pos})
  IN <<line, pos - Start(lines, line) + 1>>

\* The lines are those of the block's text, where the comments are gone.
blockPosToAbsolute(block, rel) ==
  Offset(block.offset, SubSeq(block.text, 1, rel.line - 1)) + rel.col - 1

(* Mutant: what precedes the first definition is not looked at. *)
leadingGarbageUnseen(lines, covered) == {}

\* The lines before the first block with anything but a comment on them.
leadingGarbage(lines, covered) ==
  {i \in DOMAIN lines : Start(lines, i) < covered /\ lines[i].toks # <<>>
                        /\ Head(lines[i].toks) # Comment}

Failing(blocks) == Kept(blocks, {b \in Range(blocks) : ~Match(b).ok})
Located(lines, block) == posToLineCol(lines, blockPosToAbsolute(block, Match(block)))

\* The first thing wrong, before the blocks or in one of them, is reported.
Strict(lines, blocks) ==
  LET end     == Append(Each(LAMBDA b : b.offset, blocks), Start(lines, Len(lines) + 1))
      garbage == leadingGarbage(lines, end[1])
      failing == Failing(blocks)
  IN IF garbage # {} THEN [ok |-> FALSE, at |-> <<Min(garbage), 1>>]
     ELSE IF failing # <<>> THEN [ok |-> FALSE, at |-> Located(lines, failing[1])]
     ELSE [ok |-> TRUE, nodes |-> Flat(LAMBDA b : b.node, blocks)]

parseProgramStrict(lines) == Strict(lines, split(lines))

-----------------------------------------------------------------------------
\* The code of a source: what is left of its lines without the comments.
CodeOf(infos) == Flat(LAMBDA i : i.stripped, infos)

\* Whether a comment was taken out of the block before the given line of it.
Shortened(lines, infos, first, upto) ==
  \E i \in first..(upto - 1) : Len(infos[i].stripped) < Len(lines[i].toks)

KeepsTheCode(lines, infos, blocks) ==
  CodeOf(infos) = Flat(LAMBDA b : FlattenSeq(b.text), blocks)

\* The error at a position is in the block, never behind the token that has no
\* place in it.
Locates(lines, infos, block, rel, at) ==
  LET line == block.line + rel.line - 1 IN
  /\ at[1] \in block.line..line
  /\ ~Shortened(lines, infos, block.line, line) => at = <<line, rel.col>>

LocatesFirst(lines, infos, block, at) == Locates(lines, infos, block, Match(block), at)

LocatesGarbage(lines, blocks, at) ==
  /\ at[2] = 1 /\ scanLine(lines[at[1]].toks, FALSE).stripped # <<>>
  /\ \A i \in 1..(at[1] - 1) : scanLine(lines[i].toks, FALSE).stripped = <<>>
  /\ \A i \in DOMAIN blocks : at[1] < blocks[i].line

(* What the strict parser accepts it reads in full: every token outside the*)
(* comments is in the text of exactly one block, in order.  What it rejects*)
(* it locates: inside the block that fails, never behind the token, and    *)
(* exactly, if no comment precedes it in its block: "absolute source       *)
(* position" forgets the comments.  (split.ts:99-129, parse-strict.ts:33-83)*)
ReadsEverything(lines, r, infos, blocks) ==
  IF r.ok THEN KeepsTheCode(lines, infos, blocks)
  ELSE \/ LocatesGarbage(lines, blocks, r.at)
       \/ /\ Failing(blocks) # <<>>
          /\ LocatesFirst(lines, infos, Failing(blocks)[1], r.at)
=============================================================================
