# A verification of the propagation-network engine

This directory holds TLA+ modules that model the engine of this repository, TLC
configurations that check them on small instances, and proofs that TLAPS checks
for every instance. Paths below are relative to the repository's root.

The program compiles a small language (records, functions, grammars, tables, LLM
functions, networks) into *propagation networks*: cells that hold information
structures, and propagators that read some cells and merge what they compute
into another. Everything else in the repository prepares such a network, runs
it, or shows what it answered.

## 1. Inventory

| Part (source) | State it keeps | Operations | Talks to | What makes it correct |
|---|---|---|---|---|
| Information structures (`src/info-structure.ts`, `src/information-structures/merge-*.ts`, `src/nary-unpacking.ts`) | none: immutable values | `I`, `merge`, `bind`/`flatten`, `content`, `equals` | cells, runtime | `merge` is a join: commutative, associative, idempotent, least; an empty domain is a contradiction; `bind` over sets is a product |
| Cell (`src/network-impl/cell.ts`) | `info`, `default_` | `mergeContent`, `setContent`, `forget` | runners | holds the join of what it was told, no more and no less |
| Compiled network (`src/network-impl/runtime.ts`, `propagator.ts`, `src/data-network/data-network.ts`) | cells and neighbours, fixed before a run | `invoke`, `invokeAsync`, `restart`, coercions | registry, runners | a propagator's readers are exactly its neighbours; a restart forgets everything |
| Runners (`runner.ts`, `async-runner.ts`, `async-propagator.ts`) | work queue, set of queued names | fire, enqueue, restart, end | cells, propagators | no wake-up lost; "done" is a fixpoint; the order does not matter; the loop ends |
| Ranking (`src/data-network/ranking.ts`, `hierarchy.ts`) | a hierarchy while it sorts | `rankPropagators` | runtime | a permutation of the propagators; producers first where possible |
| Pending results (`src/information-structures/apromise.ts`, `deferred.ts`) | a promise, realised or not | `resolve`, `merge`, `unpack`, `flatten`, `abort` | cells, runtime, LLM leaves | the laws of `merge` once it settles; no result lost |
| Executor (`src/network-impl/executor.ts`) | cap, running, peak, queue | `submit`, `pump`, completion, `setCap` | LLM leaves | never beyond the cap, no idle slot, first in first out, no slot leaked, no deadlock |
| Runtime adapters (`src/language/runtime/`) | registry, memo of LLM calls, lazily built networks | `register`, `resolve`, `llmFn`, `network` | executor, LLM client, runtime | one call of the model per distinct arguments; a leaf always settles; what was accepted loads |
| LLM client (`src/sandbox/llmfn-client.ts`, `tools.ts`) | conversation of one call | tool rounds, batches, forced answer | API, tools | bounded number of calls; every tool use answered before the next call |
| Text runtimes (`src/sandbox/{extract,grammar,ttable}-runtime.ts`, `record-sandbox.ts`) | values and spans of one extract | match, scan, build records, locate regions | grammar library | an element is filled from its own text; a row's cells go to their columns |
| Type checker, schemas (`src/data-network/{type-checker,schema,types}.ts`, `src/language/reserved-words.ts`) | types and writers of cells during two passes | `inferNetwork`, `validate*`, `buildSchemas` | language, operations | a clean network is well typed at every term, whatever the order of its terms |
| Pipeline (`src/language/pipeline/`, `parse-strict.ts`, `select.ts`) | none | split, combine, emit | constructs | nothing of the source is dropped; merging does not depend on the order; what is accepted loads |
| Constructs, expressions (`src/language/constructs/`, `src/language/expr/`) | none | one `parse` and `emit` per construct; expression parser and compiler | pipeline | a node's constants and keys; a compiled body computes what it says |
| Operations, MCP (`src/operations/`, `src/mcp/`, `src/fs/`) | a workspace of files | parse, check, typecheck, run, ... | all of the above | failures are values; files change only as an answer says |
| Chat server (`docker/chat-server/*.mjs`) | session, busy flag, set of event streams, workspace | events, chat, reset, upload, files, content | agent, pages | one turn at a time; every turn ends idle; the session is the conversation |
| Chat page (`docker/chat-server/public/*.js`) | one state object | events, asynchronous effects | server | shows the server's conversation and files; late answers do no harm |
| Packaging, scripts, editor support, examples (`scripts/`, `editors/`, `docker/` otherwise, `repo_workspace/`) | none | | | |

What is hard in this code:

* **Order.** The firing order of a network is decided by a ranking, by a queue
  that is coalesced in one runner and not in the other, and by who writes first.
* **State beside state.** `queued` beside `queue`; cells that a recursive call
  must wipe; a peak beside a counter.
* **Callbacks between steps.** A task's caller continues before its slot is
  freed; a thunk submits while the pump that started it is still running.
* **Waiting.** Tasks wait for tasks of the same executor; networks may never end.
* **Late answers.** Pending results in cells, and responses and events in the
  chat page, arrive in any order.
* **Names.** A declaration has a key in the registry, constants in the artifact
  and a mangled name in JavaScript; the three name spaces merge by different rules.
* **Two structures side by side.** Types and writers of cells; values and spans
  of an extract; a page's list of files and the workspace.

`PROJECT.json` lists these hazards at their lines with the properties that cover
them, and says of the others what is missing.

## 2. Modules

| Module | Models | Kind |
|---|---|---|
| `InfoStructures` | the synchronous structures, `Merge`, `Bind`, `NaryUnpack`, coercions | operators |
| `Cell` | one cell and its three operations | state machine |
| `Networks` | a compiled network: what each propagator computes and whom it notifies | operators, assumptions |
| `Propagation` | what an invocation promises, in any firing order | abstract specification |
| `NetworkPropagation` | `Propagation` of the structures of `Networks` | composition |
| `MonotonePropagation` | networks with monotone propagators, least fixpoints | properties |
| `Runners` | `run` and `asyncRun` with their queues | detailed specification, refines `Propagation` |
| `AsyncNetworks` | pending results: promises, the calls they wait for, `bind` and `merge` on them | operators |
| `AsyncRunner` | `invokeAsync` with LLM functions that answer in any order | state machine |
| `DelayedNetworks` | the networks in which a late answer makes no difference, and the invariant that shows it | properties |
| `Executor` | the bounded executor | state machine |
| `LlmCalls` | calls of LLM functions: memo, tool loop, answers, as tasks of the executor | composition with `Executor` |
| `Products` | one constraint over two set-valued cells | state machine |
| `Sources` | splitter and strict parser | operators |
| `Constructs` | the ten constructs: node, constants, keys | operators |
| `Programs` | combining, prelude, emission, loading, schemas; the rules of merging and loading | operators |
| `TypeChecker` | inference over a network, rules for fields, templates, prompts | operators |
| `Extraction` | grammars, text tables, the rules for extracts | operators |
| `Extracts` | the statements of an extract over the regions of a text | operators, recursive |
| `Expressions` | expression parser and compiler, with a reference semantics | operators, recursive |
| `Operations` | the eleven operations, the protocol's answers, the workspace | state machine |
| `Language` | what the operations compile: expressions and extracts | properties of `Operations` |
| `ChatPage` | the page's state, reducer and view | operators |
| `ChatServer` | the server's handlers, streams, turns, uploads | actions |
| `Chat` | pages, effects and calls in flight, composed with the server | state machine |
| `MC*` | instances for TLC | |
| `*Theorems` | theorems and proofs | |

```
InfoStructures <- Cell
               <- Networks <- NetworkPropagation <- MonotonePropagation
                    ^              |  INSTANCE
                    |         Propagation
                  Runners ---------^  INSTANCE ... WITH pending <- Waiting
               <- Networks <- AsyncNetworks <- AsyncRunner <- DelayedNetworks
               <- Products
Executor <- LlmCalls
Sources <- Constructs <- Programs <- TypeChecker <- Extraction <- Operations <- Language
                            |                           ^--- Extracts <----------'
                            ^--- Expressions <-----------------------------------'
ChatPage <- ChatServer <- Chat
```

### Information structures and cells

`InfoStructures` has one operator per class that implements `merge`, as in the
code: `Merge` dispatches on the class of the left operand. Contents are scalars
(`Value`), flat records and arrays. `valueEquals` is TLA+ equality. An array is
represented by the set of its elements, because the modelled code only lifts
arrays to sets and compares them; all contradictions are one element, because
`Contradiction.equals` makes no difference between them. `null` and `undefined`
are one content. `bind` takes continuations as functions from contents to
structures; `NaryUnpack` nests them exactly as `naryUnpacking` does, which
matters: it flattens inner sets before outer ones.

`Cell` adds two history variables (what the cell was last set to, what it has
been told since) so that `HoldsTheJoin` can say what the cell must hold.

### Networks and their runs

`Networks` describes a network by its constants: the cells, and for every
propagator its kind, inputs, output, coercion and function. `Compute` is the
compiled call (unpack the inputs, apply, coerce), `Neighbors` the wiring of
`addPropagator`, `Ready`/`Restarted` the recursive call and `restart`.

`Runners` models both loops with one specification; `coalesce` tells them apart.
An iteration of the loop is `Activate`, `Recurse` or `Wait`, followed by one
`Enqueue` step per propagator of the message; `Finish` leaves the loop. The
ranking is *any* permutation of the propagators, chosen in the initial state, so
nothing depends on `rankPropagators` sorting well. `asyncRun` awaits between the
iterations, but the cells of an invocation are created by it and reached by
nobody else, so an await adds no interleaving.

`Propagation` is what the runners promise. It knows neither queue nor ranking:
propagators wait in a set, any of them may fire. `Runners` implements it with
`pending` being the names in the queue or still to be enqueued.

### Pending results

An LLM function returns an `APromise` at once and a cell may hold one.
`AsyncNetworks` describes a promise by what it will become: the calls it waits
for and the structure it settles to when they are answered. This is well defined
because `llmFn` keeps one promise per list of arguments, failed calls included:
the answer belongs to the call. The set of calls that fail is chosen once, in the
initial state (`failing`), and no action looks at it before the answer.

* `Offer` is `bind` through all inputs of a propagator: `Looked` are the inputs up
  to the first that stops it, `Innermost` what the last continuation gives,
  wrapped in a promise if any input looked at was one. `Opened` is what a
  continuation hands to the function; behind a promise a `MergeObject` or a
  `Nothing` is handed on as it is, as in `unpack`.
* `Merged` is the merge of what a cell holds with what it is offered, a set of
  outcomes: a promise made of others resolves a few microtasks after the last of
  them, so merging `Nothing` into it may give either.
* `Changed` is identity, as `equals` is.

`AsyncRunner` has the loop of `asyncRun` (`Activate`, `Recurse`, `GiveUp`,
`Finish`) and `Answer`, which is the environment: any call that was made, and
whose own arguments have arrived, is answered at any moment, also after the
loop has ended. `made` is the memo of every LLM function, with what each call had
to wait for. A recursive call waits until its arguments have arrived, in order,
and the loop waits with it: `Recurse` and `GiveUp` are both disabled meanwhile.
Sets are excluded (`AsyncAssumption`), as are predicates of two-cell switches that
are LLM functions.

### Executor

One turn of `pump` is one step (`Start`), `pumping` says that a pump is running,
and other code runs only between pumps, except for a thunk that pump itself
called. The answer of a task and the release of its slot are two steps, because
the caller of `submit` continues before `finally` does. `Needs` gives the tasks
that a task submits and awaits: the executor knows nothing of it, its comment
demands that it be empty.

### Calls of LLM functions

`LlmCalls` extends the executor: `Fire` is a call of the closure `llmFn` returns
(memo, configuration, submission), `StartCall` the synchronous part of
`callLLMFn`, run by `pump`, and the steps of a task are the rounds of the tool
loop. A key stands for a function with canonical arguments. The model may respond,
end with text, use any tools its function has and one it does not, or fail; tools
of a batch end in any order. `Settle` resolves the deferred and settles the task.

### The language

`Sources` takes lines of tokens of width one: what matters to the splitter are
blobs, quotes, comments and the keyword that begins a line. Whether the grammar of
a construct matches a block is external (`Match`): it matches what the line was
written as, if nothing is left over. `Constructs` has for every construct the
node `parse` builds from its clauses and what `emit` adds: constants, before
mangling, and registry keys. Names are sequences of words and marks, so that
mangling can be modelled by what it does (`<<"Foo", "?">>` becomes
`<<"Foo", "$">>`). `Programs` merges nodes under registry keys, prepends the part of
the prelude that is not overridden, emits and loads. The compiler throws over an `if`
with fewer than three arguments (`Compiles`). Loading parses the whole artifact at once, so
one constant bound twice, or one function that is no JavaScript (`IsJavaScript`: a
parameter or a binding of an arm twice, a placeholder root that is no key), fails all of
it; so do a grammar and an answer's schema that cannot be built. Both registries, of merging and of the runtime, are maps
in which the later entry replaces the earlier one (`Registering`).

`TypeChecker` follows the code's two passes term by term, with the same maps of
types and writers. `Extraction` works on texts that are trees of tagged items, a
tag being the rule that recognises the item; blanks matter, characters do not.
What nests, expressions, items and the statements of an extract, is followed
`MaxNesting` levels down. `Extracts` runs the statements of an extract, which recurse on their nesting.
`Expressions` has the parser on tokens and the compiler to JavaScript, an abstract
tree with scopes; `MeansWhatItSays` evaluates both to the symbolic term they
compute. It does so of the functions that compile and load.

`Expressions` and `Extracts` are the only recursive modules. `Language` joins them to
the operations for their two properties; `Operations` reaches neither, so that it can
be proved about.

`Operations` is one client that edits a source and calls operations. `parsed` is
what the strict parser makes of the source, kept as a variable because every
operation begins with it. `run`, `run-compiled` and `pdf-to-text` wait for the
workspace between steps (`open`); the others are atomic, as in the code. What
`loadProgram` and the network of a run do is in the other modules. An extraction goes
step by step, as its awaits do: `ReadPdf` reads the bytes; `PrepareText` decodes them and
looks at the name of the text (`mkdir`, `lstat`); `EmptyText` and `WritePiece` are what one
`writeFile` does to a file, which it truncates and then fills; `FinishText` answers.
`FailToWrite` is the file system's refusal at any of these, and leaves what was done.
`Upload` empties and refills a document in two steps of its own.

### Chat

`ChatPage` is the reducer, `ChatServer` has one action per step of a handler
between two awaits, `Chat` one per effect of the page and per answer to it. A call
is in flight (`sent`), possibly half done (`read`, `written`), and `answered`; its
answer and the frames the server wrote meanwhile reach the page in any order, and a
call may be lost before or after it was handled (`Reject`). Frames of one stream
keep their order and are lost only when the connection closes (`Drop`). `unheard`
records, per page, what it cannot know: what was broadcast while it was not
connected, what its own reset wiped, a listing that failed or crossed another, a
file opened over another. The properties hold exactly up to these.

## 3. Runs

| Run | Instance | Question | States |
|---|---|---|---|
| `cell` | 11 contents of every class, 2 scalars, 2 fields | does a cell always hold the join of what it was told? | 22 528 |
| `propagation` | a recursive countdown over 0..3, an equation wired in three directions, a switch; callers give `n`, `m`, both, `n` and the constant, or both and null for the constant | any firing order: no lost wake-up, least fixpoint, exits only when forced, forgets only by restart | 1 346 |
| `runners` | six propagators with two writers of one record, a set narrowed by a self-loop, recursion; all 720 rankings, both runners | do the runners implement the abstraction, keep `queued` right, and end? | 212 366 |
| `executor` | 3 calls of 4 LLM functions (plain, with a tool, with an incomplete prompt, with an unknown tool), caps 1 and 2 changed at any time, 2 rounds of tools | slots, order, peak; one call per arguments; the rounds; every task is answered | 66 534 |
| `async_runner` | the recursive search of the language guide with three LLM functions over 0..2; every choice of failing calls, three rankings | is the result what ordinary functions would have computed, do failures surface, does everything settle? | 2 360 |
| `chat` | two pages, three files, seven scenarios of what users, agent and network may still do | do the pages show the conversation, the status and the files; does the session remember the conversation; do turns end? | 405 970 |
| `operations` | ten clients, each with its lines, calls, texts and workspace | is every source read in full, every accepted program loadable, every clean network sound, every expression compiled as written, every record filled from its own text; are failures values; do texts come from their documents? | 186 111 |
| `feedback` | two cells, two mutually inverse LLM functions | **violated**: the run never ends | |
| `information` | the search with an LLM function as its test | **violated**: an LLM function is called with `Nothing` | |
| `alternatives` | an LLM function and an ordinary one that answers null, writing one cell | **violated**: the pending result is lost | |
| `nested_executor` | two slots, two tasks that need one each | **violated**: the queue deadlocks | |
| `products` | two sets of two elements, every relation between them | **violated**: a dead branch kills the product | |

Bounds. Three is enough everywhere something has to happen twice: a countdown
from 3 restarts three times; three tasks over one or two slots give a queue of
two and a cap lowered below the running tasks. `MAX_TOOL_ROUNDS` is 2 instead of 10:
one round that is followed by another, and a last one. Two scalars and two fields
produce every pair of agreeing, completing and contradicting structures, and
`MCBounds`, against which a join is compared, is every such structure over them.
The rankings are exhaustive. What the bounds leave open, the theorems close.

In `async_runner` two LLM functions and a table write one cell, so promises are
merged with promises and with plain structures, agree or contradict, and fail
alone or together; a third reads the merged cell, so calls wait for calls; the
recursive call awaits its result, twice when it starts at 0. `AllSaid` is the
reference: the merge of what all writers of a cell compute when every function
answers at once.

In `chat` a budget is a scenario: two turns and a reset on two pages; two turns with a
failure and a lost call; a page that connects late and drops; two uploads with two
listings at once; uploads seen by the other page; an agent that writes; two views of two
files. A product of all of them would add no crossing of more than two messages.
In `operations` each client aims at one pair of components: `reader` (four lines of
blobs, quotes, comments and stray words), `collector` (three of 20 declarations that
meet under one name), `typer` (three terms over three cells), `extractor` (seven
extracts, five tables, five texts), `writer` (expressions of two operators, `let`,
`match` and templates), `runner`, `builder` and `looper` (programs with a network, a
record, a recursive record) and `converter` (documents replaced once during at most
two overlapping calls, `MaxVersion` and `MaxOpen` 2; `a.pdf` and `a.PDF` have one text, of
one or two pieces, `MaxLength` 2: a text may be empty, half there, mixed of two documents, or
have the tail of a longer one). No expression, item or statement of theirs nests as deep as
`MaxNesting`, which is 6. The properties are reference
definitions: `OrderIndependent` compares a program with those in which two neighbours change
places, `CleanIsSound` follows what the cells carry from the signatures alone, `MeansWhatItSays`
evaluates source and compiled expression, `RowsKeepTheirColumns` and
`ElementsKeepTheirText` read the text once more. Where the code departs from its
comments (section 5), their exceptions are stated in the definitions.

`CHECK_DEADLOCK FALSE` stands where the modelled thing ends: an invocation that
is done, a conversation or a client that has done all its scenario allows, or a
deadlock that is the run's very question.

Fairness. `Runners!FairSpec` asks `WF(Next)`: the loop does not pause by itself
and every promise it awaits is already settled. `Executor!FairSpec` asks weak
fairness of the pump, which runs synchronously to its end, and strong fairness of
a task's answer and of the release of its slot: both are callbacks that are
disabled, over and over, while a pump runs, and JavaScript runs every due
callback in its turn. That a task answers at all is the API client's timeout,
which settles every request. `LlmCalls!LlmFairness` is the same, with strong fairness of each task's
steps: a request is answered, fails or times out, and a tool ends. `Chat!Fairness`
asks weak fairness of the server's handlers, of the page's frames and answers and of
the end of the agent's turn; users, losses and reconnections are never forced.
`AsyncRunner!FairSpec` asks weak fairness of the loop
and of the answers: the loop does not pause by itself; the executor starts every
call (`EveryTaskIsAnswered`, where calls are leaves) and every call ends.

`Terminates` holds of networks whose recursion is bounded, as the instance's is.
The engine bounds nothing: a network that always calls itself runs for ever.

Every property has a mutant: a definition of the code changed the way a bug
would change it (an intersection that stays empty, a restart that keeps the
cells, a slot too many, ...), under which TLC finds the property violated. They
stand beside the definitions they change, marked *Mutant*.

## 4. Theorems

All for any constants that satisfy the assumptions the modules name. These say

* of the engine (`CellAssumption`, `NetworkAssumption`, `FnAssumption`,
  `ReadersAssumption`, `RankingsAssumption`, `ExecutorAssumption`, `LlmCallsAssumption`,
  `AsyncAssumption`, `AsyncFnAssumption`): functions return plain contents, null, errors or
  structures; a propagator has one to five inputs and reads as many cells as its
  function has parameters; a recursive call passes at least the signature's inputs,
  which are different cells; a cell's readers are the propagators that name it;
* of the chat (`BudgetsAssumption`, `UploadListsAssumption`, `UploadsAreFiles`): only files
  are uploaded, in lists;
* of the language (`PreludeAssumption`, `NestingAssumption`): the prelude is functions with
  plain names that compile and are JavaScript, and with the native functions and the constants of the emitted module it
  binds no name twice, which is so of `prelude-source.ts` and `builtins.ts`;
* of the operations (`ClientsAssumption`, `DeclarationsAssumption`, `TextsAssumption`,
  `FilesAssumption`): clients write lines of tokens; what a block denotes is a declaration
  of one of the ten kinds, whose name has no dot, and no slash unless it names something
  that is called (`shared/grammar.ts:11-23`); a switch names a cell it reads; no text
  nests deeper than `MaxNesting`; a document is of some kind, and has a length.

Three theorems hold of a class of networks, which is an assumption of the theorem
and not of the model: `ResultIsDetermined` and `ExitIsForced` of networks with
monotone propagators (`DomainAssumption`, `MonotoneAssumption`), `DelaysDoNotMatter` of
networks that a late answer cannot surprise (`PlainAssumption`, `DelayedAssumption`).
`MCPropagation` and `MCAsyncRunner` end with an ASSUME that their instances belong to
the class, so that TLC evaluates it and no class is empty.

* `InfoStructureTheorems`: `Merge` is commutative, associative, idempotent and
  the least upper bound of `\preceq`. The proof of associativity splits on the
  classes of the three operands; records reduce to their fields.
* `CellTheorems`: `HoldsTheJoin`, from `MergeLeast`.
* `PropagationTheorems`: `NoLostWakeup` is inductive with the type invariant. A
  step that fires `p` changes one cell: propagators that do not read it compute
  what they computed (`ComputeLocal`), those that write it stay settled because
  its content only grew (associativity), those that read it are made to wait;
  and `p` itself is settled because merging twice changes nothing (idempotence),
  unless it reads its own output, and then it waits. `DoneIsFixpoint` follows.
  `ForgetsOnlyByRestart` follows from the type invariant and the merge laws.
  Of networks with monotone propagators (`MonotonePropagation`) the invariant is that
  the cells lie between the seed and every fixpoint above it. With `DoneIsFixpoint` the
  result is *the* least fixpoint; a contradiction below every fixpoint is in every
  fixpoint.
* `RunnersTheorems`: the type invariant; `queued` mirrors the queue; and the refinement:
  every step of a runner is a step of `Propagation` or a stutter. It needs the type of
  the queue only; what is enqueued moves from `notify` to `queue`, so `Waiting` stays.
* `ExecutorTheorems`: the counters (with `InSlot` finite), no idle slot, no start
  beyond the cap, the peak. `FirstInFirstOut` is not inductive: its invariant is
  that the queue is the tail of the order of submission (`QueueIsTail`). The
  theorems hold for tasks that submit tasks. `LeavesCannotDeadlock` needs that
  none does: it is exactly the condition that `nested_executor` refutes for the
  program. `LlmCallsUseTheExecutor` shows that `LlmSpec` implies `Spec`, so all of
  this holds of the calls of LLM functions: a step of `LlmCalls` is a step of the
  executor or leaves it alone. `CallsAreShared` and `LoopsAreCounted` prove
  `OneCallPerArguments` and `CallsOfTheLoop` for any number of keys, tools and rounds.
  Their invariant (`CallsInvariant`) adds that every firing was given what the memo
  still holds of its key (`Shares`) and that a failure for want of rounds, and only
  it, has used them all (`CountsOf`).
* `AsyncTheorems`: the type invariant of `AsyncRunner` (a promise waits only for
  calls that were made; a recursive call starts from structures that have
  arrived) and `FailuresSurface`. Every cell "surfaces": if a call it waits for
  fails, it settles to a contradiction. Merging keeps this because a
  contradiction absorbs from both sides (`MergedSurfaces`); `bind` keeps it
  because an input that will be a contradiction is one that stops the
  application, and there is exactly one such input among those looked at
  (`OneStop`), whose structure is what comes out (`OfferSurfaces`).
  `DelaysDoNotMatter` is `AsIfSynchronous`, which does not hold of every network: the
  engine treats a promise differently where a coercion lets it pass, where a record it
  settles to is not opened, where `Nothing` is merged into it (`alternatives`) and where a
  function behind it is called although a later input is unknown (`information`).
  `PlainAssumption` and `DelayedAssumption(L)` exclude these: `L` holds the cells a promise may
  reach, their writers always answer something and read the same cells, and what is
  read after such a cell is known from the start. The invariant `NothingIsDelayed`
  (`DelayedNetworks`): a promise becomes something; what a cell will be lies between the
  seed and the merge of all that its writers will say; and a propagator that is not
  queued has been heard. It is kept because what a propagator says of promises settles
  to what it says of their contents (`SyncOutcome`), because it says more when its inputs
  do (`SyncMonotone`), and because offering and merging commute with settling
  (`OfferBecomesSaid`, `MergedBecomes`). When the queue is empty both bounds meet.
  `AllSaid` is a fold over a set; that it is the least upper bound (`FoldIsJoin`) is
  proved by induction on the number of writers (`InfoStructureTheorems!Induction`, on a set
  of naturals).
* `ChatTheorems`, for any pages, files, scenarios and losses: the type invariant and the
  five properties of the run `chat`. Every handler, frame and answer is read once, in a lemma
  that says what it does to calls, streams and pages; each property then has its own
  invariant, which says of a page what it will be when it has heard the frames that are
  under way:
  - `SessionIsTheConversation` (`SessionInv`): what the running turn will have the session
    remember is of this conversation too, and holds every turn that was answered.
  - `Projection` (`SaidInv`): the page, caught up, shows the transcript. A reset clears the
    transcript and a page's own answer to it clears the page, in either order with the
    frames; the frames that a late answer wipes are what `unheard` records.
  - `StatusMirrorsBusy` (`StatusInv`): the last status under way is "working" while the
    server is busy; otherwise, if the page works, no status is under way and its
    message was not taken yet.
  - `MirrorIsCurrent` (`MirrorInv`): no list, shown or under way, is ahead of the workspace
    (`MirrorBehind`), and a file whose version a page does not have is one of which a nudge
    or a listing that will read it is still under way, or the agent or an upload has yet to
    nudge (`MirrorTold`).
  - `ViewerShowsItsFile` (`ViewerInv`): unless a file was opened over another, every answer
    under way is of the file the viewer names.

* `OperationsTheorems`, for any clients, sources, prelude, documents and texts. What the
  code does in loops, the model does in folds; a fold of n elements is a chain `h` of n + 1
  states (`...Run`, with a lemma `...Is` that the fold is the chain's end), and what a pass
  keeps is an induction along it (`AlongTheChain`).
  - `ParsedIsSource`: the invariant the others rest on (`SourceOK`). What an operation
    answers of is what the strict parser makes of the lines as they stand, and these are
    the client's.
  - `ReadsInFull`: the blocks the splitter cuts, joined again, are the source without its
    comments; a block no construct matches, or matches but for a rest, is refused at a
    position inside the source. Nothing in between is skipped.
  - `FailuresAreOfTwoKinds`: by cases of the eleven operations.
  - `TextsAreExtracted`: a call under way holds the bytes it read, however often the document
    is replaced meanwhile; of whatever is in the workspace one can ask what it is
    (`FilesOK`); and a text that only one open call has been writing since that call emptied
    it holds exactly the pieces the call has written so far (`CallsOK`). The two
    are inductive together. A call that another joins loses its claim, and so does
    the one that joins; when a call that is still alone has written all, its answer is true.
  - `CheckedNetworksAreSound`: both passes of the checker only add types, and what they hold
    of a cell is one type, or an error was reported. So by induction on the rounds of
    `Carries` a cell carries only what the checker holds of it: what a function delivers
    is held after the first pass; what a switch delivers is held after the switch was
    visited, and by then its value was typed, because switches are in data order.
  - `AcceptedProgramsLoad`: the compiler throws exactly over the declarations' own functions,
    the prelude's being fit to compile (`EmissionFails`). The constants of an artifact are a sequence joined of the
    helpers', the spared native functions', the free prelude's and the declarations', and
    it is injective exactly if these are each bound once and apart from each other.
    Registering keeps the last entry of a key, and a key has only one owner: two
    declarations with one registry key have one name and one kind, but for the network
    that a function hides. Only what is read out of the artifact needs that no network is
    hidden.
  - `ProgramsAreBags`: merging fails exactly if two declarations of one key differ, which is
    a statement about their set. Two neighbours exchanged leave the set, the number of
    times a constant is bound and, of declarations that merge, the latest of each name as
    they were; so the functions that compile, the schemas that unfold, what builds and the
    owners of the keys are the same. That any order comes of such exchanges is common
    knowledge and not proved.
  - `TablesAreRead`: the tables' half of `RecordsKeepTheirPlace`, as `TablesKeepTheirRows`. A
    valid table has one header for each field, so the column a field is looked up under
    is that of its own header (`ColumnIs`); dropping the blank cell behind the last
    delimiter moves no cell (`SplitRowIs`).

Only model-checked, and why:

* `Terminates`, `Settles`, `EveryTaskIsAnswered` and `TurnsEnd`: liveness under fairness is
  beyond the prover.
* `CompiledAsWritten`, and `RecordsKeepTheirPlace` of extracts: what recursive operators
  compute, on trees. The prover has neither induction over trees nor arithmetic beside
  RECURSIVE operators.
* `AsIfSynchronous` outside its class: it fails on the instance of `alternatives`.
* That an instance belongs to its class (`MonotoneAssumption`, `DelayedAssumption`).

## 5. Disagreements between code and comments

1. `executor.ts:14-16` claims that only leaf I/O is submitted and the queue
   cannot deadlock. LLM calls are submitted with their tool loop, whose `run`
   tool runs programs with LLM calls of their own (`nested_executor`).
2. `merge-set.ts:20-23` and `67-69` claim that an empty branch contributes
   nothing. In a product it contradicts (`products`).
3. `documentation/language.md:16` promises that a network "will eventually
   converge". With LLM functions on a cycle it does not: every merge with a
   promise makes a new one, equal to itself only (`feedback`).
4. `documentation/language.md:16` says that propagators "do nothing if any of the
   inputs has no information". Behind a promise that settles to `Nothing` they are
   called with `Nothing` (`information`).
5. `README.md:93` calls `Nothing` the identity of `merge`, and
   `documentation/language.md:21` says that the network treats the results of all
   functions the same. `Nothing` merged into a pending result replaces it, and the
   result is lost (`alternatives`); a unit test records this as intended.

Met while modelling, and stated in the definitions as the code has it:

6. `combine.ts:8-9` calls merging equal declarations harmless. Two equal functions
   merge, but two declarations with different keys may emit one constant, and the
   artifact then fails to load; and a network is merged under its bare name
   (`combine.ts:19-23`) but registered as `network/X`. A function may be no JavaScript
   although it passes every check: an arm of a match that binds one name twice
   (`compile.ts:68`), two parameters that are one name when mangled
   (`defn/emit.ts:16-21`), a placeholder that begins with a dot, or with a digit and is no number,
   although `compile.ts:91` has roots be "hence valid JS identifiers". Then the
   artifact as a whole does not load (`load.ts:51`). And an `if` with fewer than three
   arguments makes the compiler throw (`compile.ts:51-53`), which `compile-js` and `run`
   report as a value. `LoadsWhenAccepted` says which programs are emitted and which load.
7. `parse-strict.ts:9-11, 33-40` reports positions of the source but counts on a text
   from which comments were cut. A quote that spans lines ends at the end of the line for
   the splitter and not for the grammars.
8. `run-grammar.ts:22-25` returns failures "as values, never thrown", but building the
   scanner of a vector grammar that has rules of the names the scanner adds throws;
   `run` without cells throws too (`run-network.ts:46`). `FailuresAreValues` names both.
9. `extract-runtime.ts:122-123` takes an element for a record, as "it always should
   be"; over rows of a table it may be a contradiction, which becomes a plain object.
   Spans of an earlier scan of the same field stay when a table replaces its values.
   A leaf without a prefix passes `validateExtract` and is another key at run time.
10. The checker types switches in the order of their terms (`type-checker.ts:274`), does not
    call `combine`, and lets a root grammar that returns a vector pass.
11. `compile.ts:21-23` admits that mangling is not injective. Also: a `let` that uses its
    own name, a local named like a function that is called, and a binding called `__v`
    mean something else than they say; a guard on a wildcard arm is dropped
    (`compile.ts:62-63`). `MeansWhatItSays` assumes none of these.
12. A function named by a reserved word makes every cell expression of a run fail, since
    all values of the program are parameters of it.
13. `llmfn-client.ts:134-147`: k rounds of tools cost k + 1 calls, but the last round allowed
    is followed by none: its tools run for nothing.
14. The page (`main.js:54`) is put to work before the server took the turn; when the call
    is rejected no event ever brings it back. The answer to a reset may wipe the turn
    that followed it (`main.js:67`), against `server.mjs:5-7`. A turn that fails
    forgets the session id (`agent.mjs:80-81`).
15. `pdf-to-text.ts:23-25` returns expected failures as values, but not without a trace:
    `writeFile` empties the file before it writes, so a write that fails leaves a part of the
    text behind `ok: false`, in place of what was there. `a.pdf` and `a.PDF` share `a.txt`, and two
    calls may extract one document: writes that overlap may leave a mixture, both with `ok: true`
    (`workspace.ts:76`). `TextsComeFromTheirDocuments` therefore speaks of a call that wrote
    alone, and of the moment it answers. Two cells of one run that name the same file may read
    two versions of it.
16. `executor.ts:82-84` says of the cap that "lowering it only affects tasks submitted from now
    on". It holds back the tasks already parked, too: `pump` compares with the cap in force
    whenever it starts one (`executor.ts:61`). `StartsWithinCap` states what the code does; the
    comment is right that running tasks are never interrupted.

## 6. Not modelled

* **Ranking.** `rankPropagators` is pure, and everything about the runners holds for
  every ranking. Its comparator is not transitive, so what `Array.sort` returns is
  not determined by the language and only the rankings as a set say anything.
* **Pending results:** `abort`, which the engine never calls; sets with pending
  branches; functions that throw in a continuation; `mapping` and `filtering` over
  promises; coerced outputs of LLM functions; LLM functions as predicates of two-cell
  switches. The hazards list says what goes wrong there.
* **Engine:** functions that throw inside a synchronous propagator (the exception leaves
  `run`); the element-wise coercions' argument errors; records nested in records.
* **Language:** the surface syntax beyond `Match`, constant and cell terms of
  networks, the configuration block of LLM functions, leaves of an extract whose
  names have neither prefix, the drawing of diagrams, the wording of errors. A
  placeholder root that is a number of JavaScript with letters in it (`0x1`, `1e5`)
  counts as one that is no key.
* **Workspace:** reading a file is one step, `lstat` and `readFile`, since nothing modelled
  makes a link or removes a file, and a read during an upload sees the document as it
  is at one moment. For the same reason a link that someone else puts in the place
  of a text between `lstat` and `writeFile` is not modelled, nor a file that is removed. A piece
  stands for what the file system writes at a time; how it orders two writes of one
  file is left open.
* **Chat:** a page that is reloaded and a server that restarts (both begin again from
  the initial state, the server without its session), static files, the error
  answers of a proxy, the vendored idiomorph.
* **Left out for good:** PDF decoding, command-line scripts, editor support, the
  container's entry point, static analysis of the repository, examples (text or pure
  input and output).

## 7. What could follow

| Order | Where | Properties | Proof |
|---|---|---|---|
| 1 | `AsyncNetworks`: output coercions of pending results, sets, `mapping`, `filtering` | what each of them loses against the synchronous network | a larger class for `DelaysDoNotMatter` |
| 2 | `Chat`: reload and restart | the page shows a suffix of the conversation | `SaidInv` from a given point on |
| 3 | `Runners`: coalescing with non-monotone propagators | `runner.ts:20` calls it no correctness requirement | one run simulates the other |
| 4 | `TypeChecker`: switches out of data order | which networks the one pass over the switches (`type-checker.ts:274`) lets through | a fixpoint in place of the two passes |
