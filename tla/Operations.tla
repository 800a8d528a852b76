------------------------------ MODULE Operations ------------------------------
(***************************************************************************)
(* The operations of the language as a client meets them over MCP: it      *)
(* edits a source line by line and calls parse, check, typecheck, compile, *)
(* run and the rest; calls that read the workspace overlap                 *)
(* (operations/*.ts, fs/workspace.ts, mcp/tools.ts).                       *)
(***************************************************************************)
EXTENDS Extraction

CONSTANTS Clients,     \* what clients do: the source they open, the lines they
                       \* add to a size, their calls, the names, cells and texts
          Files,       \* the workspace in the beginning: name -> content
          MaxVersion,  \* how often a document of the workspace is replaced
          MaxLength,   \* how many pieces the text of such a document has
          MaxOpen      \* how many calls wait for the workspace at a time

\* A client writes lines of tokens, some of which begin a declaration; the text
\* of a document has a length.
IsLine(line)  == /\ line = [toks |-> line.toks, node |-> line.node]
                 /\ IsSequence(line.toks) /\ IsSequence(line.node)
Written(c)    == Range(Clients[c].start) \cup Clients[c].lines

ASSUME ClientsAssumption ==
  \A c \in DOMAIN Clients : IsSequence(Clients[c].start) /\ \A line \in Written(c) : IsLine(line)
ASSUME DeclarationsAssumption ==
  \A c \in DOMAIN Clients : \A line \in Written(c) : \A n \in Range(line.node) : IsDeclaration(n)
ASSUME TextsAssumption == \A c \in DOMAIN Clients : \A text \in Clients[c].texts : IsText(text)
ASSUME FilesAssumption == \A name \in DOMAIN Files : Files[name].is = "pdf" => Files[name].length \in Nat

VARIABLES client,      \* which client it is
          source,      \* the lines it has written; every operation parses them
          parsed,      \* what the strict parser makes of them
          artifact,    \* what it compiled last, if it did
          files,       \* the workspace
          open,        \* the calls that wait for the workspace
          answer       \* the last answer

vars == <<client, source, parsed, artifact, files, open, answer>>

me == Clients[client]

-----------------------------------------------------------------------------
(* What an operation comes to: a result, a failure that is a value, or an  *)
(* exception; and what the server makes of it for the protocol.            *)
Succeeds    == [outcome |-> "result", why |-> "none"]
Fails(why)  == [outcome |-> "failure", why |-> why]
Throws(why) == [outcome |-> "exception", why |-> why]

\* The first of the checks, <<failed, why>>, that fails.
Checked(checks) ==
  LET failed == Kept(checks, {c \in Range(checks) : c[1]})
  IN IF failed = <<>> THEN Succeeds ELSE Fails(failed[1][2])

operations == {"parse", "check", "typecheck", "run", "compile-schemas", "run-grammar", "run-ttable",
               "diagram", "pdf-to-text", "compile-js", "run-compiled"}

NoAnswer == [op |-> "none"]
dispatch(op, r) ==
  IF op \notin operations THEN [op |-> op, ok |-> FALSE, why |-> "unknown tool", isError |-> TRUE]
  ELSE [op |-> op, ok |-> r.outcome = "result", why |-> r.why, isError |-> r.outcome = "exception"]

-----------------------------------------------------------------------------
(* The operations that only look at the source p, already parsed.          *)
Program(p) == IF p.ok THEN p.nodes ELSE <<>>
Syntax(p)  == <<~p.ok, "syntax">>

parse(p) == Checked(<<Syntax(p)>>)

check(p) ==
  Checked(<<Syntax(p),
            <<\E g \in Range(OfKind(Program(p), "grammar")) : ~validateGrammarSyntax(g), "grammar">>>>)

\* Not among its checks: whether the declarations merge.
typecheck(p) ==
  LET nodes == Program(p)
      Some(kind, bad(_)) == \E n \in Range(OfKind(nodes, kind)) : bad(n)
  IN Checked(<<Syntax(p),
       <<Some("grammar", LAMBDA g : ~validateGrammarSyntax(g) \/ ~validateGrammarSignature(g, nodes)), "grammar">>,
       <<Some("extract", LAMBDA e : ~validateExtract(e, nodes)), "extract">>,
       <<Some("ttable", LAMBDA t : ~validateTTable(t, nodes)), "ttable">>,
       <<reservedFieldErrors(nodes) # {}, "reserved field">>,
       <<validateInterpolate(nodes) # {}, "interpolate">>,
       <<validateLLMFn(nodes) # {}, "llmfn">>>>)

compileJs(p) ==
  LET made == emitJs(Program(p))
  IN IF ~p.ok THEN Fails("syntax") ELSE IF made.ok THEN Succeeds ELSE Fails(made.why)

(* Mutant: the exception of an endless schema is not caught. *)
compileSchemasUncaught(p) ==
  IF ~p.ok THEN Fails("syntax")
  ELSE IF buildSchemas(Program(p)) THEN Succeeds ELSE Throws("endless schema")

\* A record made of itself runs out of stack, which is caught.
compileSchemas(p) ==
  Checked(<<Syntax(p), <<~buildSchemas(Program(p)), "endless schema">>>>)

runGrammar(p, name, text) ==
  LET nodes == Program(p)
      g     == The(nodes, "grammar", name)
      tried == Checked(<<Syntax(p), <<~Declares(nodes, "grammar", name), "unknown-grammar">>>>)
      vector == g.signature # <<>> /\ g.signature[1].depth > 0
      result == compileGrammar(g, nodes, text)
  IN IF tried # Succeeds THEN tried
     ELSE IF ~validateGrammarSyntax(g) \/ ~validateGrammarSignature(g, nodes) THEN Fails("syntax")
     ELSE IF vector /\ ~ScannerBuilds(g) THEN Throws("no scanner")
     ELSE IF result.is = "contradiction" THEN Fails("no-match") ELSE Succeeds

runTtable(p, name, text) ==
  LET nodes  == Program(p)
      t      == The(nodes, "ttable", name)
      tried  == Checked(<<Syntax(p), <<~Declares(nodes, "ttable", name), "unknown-ttable">>>>)
  IN IF tried # Succeeds THEN tried
     ELSE IF ~validateTTable(t, nodes) THEN Fails("syntax")
     ELSE IF compileTTable(t, nodes, text).is = "contradiction" THEN Fails("no-match") ELSE Succeeds

\* Without a name (<<>>) there has to be exactly one network.
diagram(p, name) ==
  LET nets == OfKind(Program(p), "network") IN
  Checked(<<Syntax(p), <<nets = <<>>, "no networks">>,
            <<name # <<>> /\ ~Declares(nets, "network", name), "unknown network">>,
            <<name = <<>> /\ Len(nets) # 1, "which network">>>>)

-----------------------------------------------------------------------------
(* The workspace is flat: a name is one part, of stem and suffix.          *)
safeName(name) == name \notin {<<>>, <<".">>, <<"..">>} /\ Range(name) \cap {"/", "\\"} = {}

\* Why a file cannot be read, if it cannot.
Unreadable(name) ==
  Checked(<<<<~safeName(name), "bad name">>, <<name \notin DOMAIN files, "no such file">>,
            <<name \in DOMAIN files /\ files[name].is = "link", "symlink">>>>)
Unwritable(name) ==
  Checked(<<<<~safeName(name), "bad name">>, <<name \in DOMAIN files /\ files[name].is = "link", "symlink">>>>)

\* A text is written in pieces, here each the document it is the text of.
txtNameFor(pdf) == (IF Last(pdf) \in {".pdf", ".PDF"} THEN Front(pdf) ELSE pdf) \o <<".txt">>
TextOf(call)    == txtNameFor(call.file)
TextFile(pieces) == [is |-> "text", pieces |-> pieces]
Extracted(bytes) == TextFile([k \in 1..bytes.length |-> bytes])
\* A piece goes where it belongs, whatever is before or behind it by now.
WithPiece(pieces, k, bytes) ==
  [j \in DOMAIN pieces \cup 1..k |->
     IF j = k THEN bytes ELSE IF j \in DOMAIN pieces THEN pieces[j] ELSE [is |-> "hole"]]
Storing(name, content) ==
  [other \in DOMAIN files \cup {name} |-> IF other = name THEN content ELSE files[other]]

-----------------------------------------------------------------------------
Answer(op, r) == answer' = dispatch(op, r)
Drop(i)       == open' = RemoveAt(open, i)

Serve(op, r) ==
  /\ op \in me.calls
  /\ Answer(op, r)
  /\ UNCHANGED <<client, source, parsed, artifact, files, open>>

Edit ==
  /\ Len(source) < me.size
  /\ \E line \in me.lines : source' = Append(source, line)
  /\ answer' = NoAnswer
  /\ parsed' = parseProgramStrict(source')
  /\ UNCHANGED <<client, artifact, files, open>>

Parse          == Serve("parse", parse(parsed))
Check          == Serve("check", check(parsed))
Typecheck      == Serve("typecheck", typecheck(parsed))
CompileSchemas == Serve("compile-schemas", compileSchemas(parsed))
RunGrammar     == \E name \in me.names, text \in me.texts :
                     Serve("run-grammar", runGrammar(parsed, name, text))
RunTtable      == \E name \in me.names, text \in me.texts :
                     Serve("run-ttable", runTtable(parsed, name, text))
Diagram        == \E name \in me.names \cup {<<>>} : Serve("diagram", diagram(parsed, name))
UnknownTool    == Serve("lint", Succeeds)

CompileJs ==
  /\ "compile-js" \in me.calls
  /\ Answer("compile-js", compileJs(parsed))
  /\ artifact' = IF compileJs(parsed) = Succeeds THEN <<emitJs(Program(parsed)).code>> ELSE artifact
  /\ UNCHANGED <<client, source, parsed, files, open>>

-----------------------------------------------------------------------------
(* Running: from a source, or from the artifact compiled last, whatever    *)
(* the source is by now.  The cells are seeded one after the other, those  *)
(* of the form @file after reading it; a client may leave the cells out.   *)
Begin(op, code, name, cells) ==
  LET loaded == loadProgram(code) IN
  IF ~loaded.ok \/ name \notin loaded.networks
  THEN Answer(op, Fails(IF loaded.ok THEN "unknown network" ELSE "load error")) /\ UNCHANGED open
  ELSE IF cells = <<>> THEN Answer(op, Throws("no cells")) /\ UNCHANGED open
  ELSE /\ open' = Append(open, [op |-> op, loaded |-> loaded, network |-> name, todo |-> cells[1]])
       /\ UNCHANGED answer

Run1(op, ready, code) ==
  /\ op \in me.calls /\ Len(open) < MaxOpen
  /\ \E name \in me.names, cells \in me.cells :
       IF ready = Succeeds THEN Begin(op, code, name, cells) ELSE Answer(op, ready) /\ UNCHANGED open
  /\ UNCHANGED <<client, source, parsed, artifact, files>>

RunSource ==
  Run1("run", Checked(<<<<source = <<>>, "source is required">>,
                        <<compileJs(parsed) # Succeeds, "compile error">>>>),
       emitJs(Program(parsed)).code)
RunCompiled == Run1("run-compiled", Checked(<<<<artifact = <<>>, "code is required">>>>), artifact[1])

\* An expression is evaluated with all the values of the program as
\* parameters, whatever they are called: a reserved word is a syntax error.
Evaluates(loaded, expr) ==
  /\ \A v \in loaded.values : ~(Len(v) = 1 /\ v[1] \in ReservedWord)
  /\ expr.uses \subseteq loaded.values

SeedCell ==
  \E i \in DOMAIN open :
    /\ open[i].op \in {"run", "run-compiled"} /\ open[i].todo # <<>>
    /\ LET expr == Head(open[i].todo)
           r    == IF expr.is = "file" THEN Unreadable(expr.name)
                   ELSE IF Evaluates(open[i].loaded, expr) THEN Succeeds ELSE Fails("cannot evaluate cell")
       IN IF r = Succeeds
          THEN open' = [open EXCEPT ![i].todo = Tail(@)] /\ UNCHANGED answer
          ELSE Answer(open[i].op, r) /\ Drop(i)
    /\ UNCHANGED <<client, source, parsed, artifact, files>>

\* The network runs; what was registered under its name may be a function.
RunNetwork ==
  \E i \in DOMAIN open :
    /\ open[i].op \in {"run", "run-compiled"} /\ open[i].todo = <<>>
    /\ LET leaf == open[i].loaded.leaves[<<"network", "/">> \o open[i].network] IN
       Answer(open[i].op, Checked(<<<<leaf.kind # "network", "runtime error">>>>))
    /\ Drop(i)
    /\ UNCHANGED <<client, source, parsed, artifact, files>>

-----------------------------------------------------------------------------
(* Extraction.  The bytes are read; they are decoded and the name of the   *)
(* text is looked at; its file is emptied; the pieces are written; the call*)
(* is answered.  Other calls and uploads come in between any two of these, *)
(* and the file system may fail from the second on: then the call fails,   *)
(* and what it has done stays.  alone says that no other call has been     *)
(* writing the same text since this one began to (history).                *)
Extracting(file, bytes) ==
  [op |-> "pdf-to-text", file |-> file, bytes |-> bytes, at |-> "read", done |-> 0, alone |-> TRUE]

ReadPdf ==
  /\ "pdf-to-text" \in me.calls /\ Len(open) < MaxOpen
  /\ \E file \in me.names :
       IF Unreadable(file) = Succeeds
       THEN open' = Append(open, Extracting(file, files[file])) /\ UNCHANGED answer
       ELSE Answer("pdf-to-text", Unreadable(file)) /\ UNCHANGED open
  /\ UNCHANGED <<client, source, parsed, artifact, files>>

PrepareText(i) ==
  LET call == open[i]
      r    == IF call.bytes.is # "pdf" THEN Fails("cannot decode") ELSE Unwritable(TextOf(call))
  IN /\ call.at = "read"
     /\ IF r = Succeeds THEN open' = [open EXCEPT ![i].at = "prepared"] /\ UNCHANGED answer
                        ELSE Answer("pdf-to-text", r) /\ Drop(i)
     /\ UNCHANGED files

Writes(call, name) == call.op = "pdf-to-text" /\ call.at = "writing" /\ TextOf(call) = name
Writers(name)      == {k \in DOMAIN open : Writes(open[k], name)}

EmptyText(i) ==
  LET name == TextOf(open[i]) IN
  /\ open[i].at = "prepared"
  /\ files' = Storing(name, TextFile(<<>>))
  /\ open' = [k \in DOMAIN open |->
                IF k = i THEN [open[k] EXCEPT !.at = "writing", !.alone = Writers(name) = {}]
                ELSE IF k \in Writers(name) THEN [open[k] EXCEPT !.alone = FALSE] ELSE open[k]]
  /\ UNCHANGED answer

WritePiece(i) ==
  LET call == open[i]
      name == TextOf(call)
  IN /\ call.at = "writing" /\ call.done < call.bytes.length
     /\ files' = Storing(name, TextFile(WithPiece(files[name].pieces, call.done + 1, call.bytes)))
     /\ open' = [open EXCEPT ![i].done = @ + 1]
     /\ UNCHANGED answer

(* Mutant: nobody waits for the write. *)
FinishTextEarly(i) ==
  /\ open[i].at = "writing"
  /\ Answer("pdf-to-text", Succeeds) /\ Drop(i)
  /\ UNCHANGED files

FinishText(i) ==
  /\ open[i].at = "writing" /\ open[i].done = open[i].bytes.length
  /\ Answer("pdf-to-text", Succeeds) /\ Drop(i)
  /\ UNCHANGED files

FailToWrite(i) ==
  /\ open[i].bytes.is = "pdf"
  /\ Answer("pdf-to-text", Fails("file system")) /\ Drop(i)
  /\ UNCHANGED files

WritePdf ==
  \E i \in DOMAIN open :
    /\ open[i].op = "pdf-to-text"
    /\ PrepareText(i) \/ EmptyText(i) \/ WritePiece(i) \/ FinishText(i) \/ FailToWrite(i)
    /\ UNCHANGED <<client, source, parsed, artifact>>

\* Someone else replaces a document of the workspace, which is none until it is
\* there in full.
Upload ==
  \E file \in me.names \cap DOMAIN files :
    /\ \/ /\ files[file].is = "pdf" /\ files[file].version < MaxVersion
          /\ files' = Storing(file, [is |-> "broken", of |-> file, version |-> files[file].version + 1])
       \/ /\ files[file].is = "broken"
          /\ \E length \in 1..MaxLength :
               files' = Storing(file, [is |-> "pdf", of |-> file, version |-> files[file].version, length |-> length])
    /\ UNCHANGED <<client, source, parsed, artifact, open, answer>>

Init ==
  /\ client \in DOMAIN Clients
  /\ source = me.start /\ parsed = parseProgramStrict(source) /\ artifact = <<>> /\ files = Files /\ open = <<>>
  /\ answer = NoAnswer

Next ==
  \/ Edit \/ Parse \/ Check \/ Typecheck \/ CompileSchemas \/ RunGrammar \/ RunTtable \/ Diagram
  \/ UnknownTool \/ CompileJs \/ RunSource \/ RunCompiled \/ SeedCell \/ RunNetwork
  \/ ReadPdf \/ WritePdf \/ Upload

Spec == Init /\ [][Next]_vars

-----------------------------------------------------------------------------
\* The declarations, in the states where the source has just been edited.
Edited == answer = NoAnswer /\ open = <<>>
Nodes  == IF Edited THEN Program(parsed) ELSE <<>>

(* The strict parser, on every source. *)
ReadInFull == Edited => ReadsEverything(source, parsed, classify(source), split(source))

(* Merging and loading, on every program. *)
BagOfDeclarations   == OrderIndependent(Nodes)
AcceptedMeansLoaded == LoadsWhenAccepted(Nodes, emitJs(Nodes))

(* The type checker, on every network. *)
CheckedMeansSound == \A n \in Range(OfKind(Nodes, "network")) : CleanIsSound(n, Nodes)

(* Text tables, on every text. *)
TablesKeepTheirRows ==
  \A text \in me.texts : \A t \in Range(OfKind(Nodes, "ttable")) : RowsKeepTheirColumns(t, Nodes, text)

(* A failure is content the client reads, never a protocol error, with two *)
(* exceptions the code makes: a scanner that cannot be built for a vector  *)
(* grammar, and a run without cells. (mcp/tools.ts:36-43, run-grammar.ts:67*)
(* outside any try, run-network.ts:46)                                     *)
FailuresAreValues ==
  answer # NoAnswer /\ answer.isError =>
    \/ answer.op \notin operations
    \/ /\ answer.op = "run-grammar" /\ answer.why = "no scanner"
       /\ \E g \in Range(OfKind(Program(parsed), "grammar")) : ~ScannerBuilds(g)
    \/ answer.op \in {"run", "run-compiled"} /\ answer.why = "no cells" /\ <<>> \in me.cells

(* The workspace changes by uploads, and by extractions that empty and     *)
(* write, piece by piece, the one text of the document they have read, and *)
(* never a link or through one that is there.  An extraction that reports  *)
(* success, and wrote the text alone, leaves there exactly what it read,   *)
(* whatever was there and whatever has become of the document. (Two that   *)
(* overlap may leave a mixture, and one that fails a part of its text.)    *)
(* (pdf-to-text.ts:26-60, workspace.ts:46-77)                              *)
Replaced(name) ==
  /\ files[name].is \in {"pdf", "broken"} /\ files'[name].is \in {"pdf", "broken"}
  /\ UNCHANGED <<open, answer>>

WrittenBy(i, name) ==
  /\ open[i].op = "pdf-to-text" /\ name = TextOf(open[i]) /\ open[i].bytes.is = "pdf"
  /\ name \in DOMAIN files => files[name].is # "link"
  /\ \/ files'[name] = TextFile(<<>>)
     \/ \E k \in 1..open[i].bytes.length :
          files'[name] = TextFile(WithPiece(files[name].pieces, k, open[i].bytes))
  /\ Len(open') = Len(open) /\ UNCHANGED answer

\* A call is answered when it is no longer open.
Reported(i) ==
  /\ open[i].op = "pdf-to-text" /\ open' = RemoveAt(open, i)
  /\ open[i].alone => TextOf(open[i]) \in DOMAIN files' /\ files'[TextOf(open[i])] = Extracted(open[i].bytes)

TextsComeFromTheirDocuments ==
  [][/\ \A name \in DOMAIN files' :
          \/ name \in DOMAIN files /\ (files'[name] = files[name] \/ Replaced(name))
          \/ \E i \in DOMAIN open : WrittenBy(i, name)
     /\ Len(open') < Len(open) /\ answer'.op = "pdf-to-text" /\ answer'.ok =>
          \E i \in DOMAIN open : Reported(i)]_vars
=============================================================================
