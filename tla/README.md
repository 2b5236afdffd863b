# Verification of cdd-cpp

TLA+ models of [cdd-cpp](../src/README.md), a compiler between C++ and OpenAPI /
Arazzo documents, with the TLC configurations that check them and TLAPS proofs
of the properties that matter most. Paths are relative to the repository's root
`src/`; line numbers are those of the commit the models were written from.
`PROJECT.json` is the index: components, runs, mutants (plausible bugs that each
property must catch), the lines of code behind each definition, hazards,
findings and theorems.

## 1. The system

The program is one executable, `cdd-cpp <command>`, a library of readers and
generators, and, not less important, the C++ code that the generators print,
which has state and control of its own.

| Component | State | Operations | What makes it correct |
|---|---|---|---|
| `sync` command (`src/cli/sync.cpp` 1115-1174) | a document and a directory on disk, the streams open on them | scan, read, merge, truncate, write document, mocks, SDK | nothing of the document is lost that the source of truth keeps, unless a kill or a full disk cuts it off; a run that fails half-way leaves what the next can use; repeating it settles but for layers of pointers |
| other commands (`src/cli/sync.cpp`, `main.cpp`) | the files they have open | `from_openapi`, `to_openapi`, `from_arazzo`, `from_google_discovery`, `to_docs_json`, ... | a command that says it succeeded has written its files; what is documented fits what is generated |
| MCP / JSON-RPC server (`src/cli/sync.cpp` 244-411, 1077-1112) | none of its own; the file system behind its tools | `initialize`, `tools/list`, `tools/call` over stdin or httplib, `GET /stop` | one answer per request, which says whether the work was done; a stop ends it |
| httplib's `ThreadPool` and accept loop (`src/utils/httplib.h`) | queue, idle count, handles of base and dynamic threads, shutdown flag | enqueue, shutdown, worker loop | every connection is served once, no wakeup is lost, shutdown joins every thread |
| MCP messages (`src/mcp`) | none | a parser and an emitter per struct | what one side writes the other reads |
| project scanner (`src/utils/cpp_parser.cpp`, `src/models/parse.cpp`) | the description being merged | one visit per file, in directory order | every declaration is found; the order does not matter |
| C++ reader (`src/utils/cpp_ast.cpp`) | cursor | lex, parse | text is kept |
| JSON writer (`src/utils/json_writer.hpp`) | text, one flag | `start_object` ... `key_optional` | the text is JSON |
| OpenAPI model (`src/openapi`) | none | a parser and an emitter per struct | a round trip keeps what was read, a second one changes nothing |
| upgraders (`src/openapi/upgraders`), Google discovery (`src/google_discovery`) | none | one pass each | the upgraded document offers the same service |
| Arazzo documents (`src/arazzo`) | search state of `has_workflow_cycle` | parse, emit | documents whose workflows depend on each other in a circle are refused; round trips |
| Arazzo run time (`src/arazzo/expressions.cpp`) | the payload being rewritten | pointers, expressions, templates, criteria, replacements | what is written has the meaning its structure says; a replacement touches its target only |
| generated client (`src/client_sdk/emit.cpp`) | CURL handle, tokens; class `Workflows`: `executed_workflows_` | a method per operation, a tool per method, a method per workflow | methods, tools and documentation agree with the document; a request carries its own method's options; dependencies first and once |
| generated command line client (`src/client_sdk_cli`) | none | handlers, argument dispatch | what its comments say is read back |
| generated server (`src/server/emit.cpp`) | router, entity pools, token set, webhook queue | handlers in a thread pool | what its comments say is read back |
| generated data access (`src/orm/emit.cpp`) | maps of entities | DAO operations | |
| models, mocks (`src/models`, `src/mocks`) | none | schema to struct and back | what is printed is read back |
| docstrings, functions (`src/docstrings`, `src/functions`) | none | tags to fields and back | what is printed is read back |

How they interact: commands call readers and generators directly; `sync` calls
the scanner, then `openapi::parse`, `openapi::emit`, `mocks::emit` and
`client_sdk::emit_client`, and its output is the scanner's input on the next
run. `from_openapi` upgrades a document before it parses it. `arazzo::parse`
guards `emit_arazzo_client`: code is generated only from a document without a
circle of `dependsOn`; it also extracts the expressions of templates that the
run time fills later. All emitters share `JsonWriter`. The JSON-RPC server calls
the commands from a pool of threads, and each of them writes to one file system.

What is hard: the process can stop between any two writes of `sync`, each of
which can end midway without its noticing, and there is no temporary file,
rename or lock; a person edits the same files; the order of a directory
iteration is unspecified; what a sync writes is what the next one scans; two
runs can write the same files at once; threads of the pool leave by a timeout
while work arrives; a stop is served by a thread that the stop waits for; the
generated methods fail, are retried and call each other, and share a handle that
remembers; the search for cycles visits names repeatedly; hundreds of members
are written under a key on one side and looked up on the other; texts are put
together in one place and taken apart in another; one flag in `JsonWriter`
stands for a stack. `PROJECT.json` lists each hazard at its line.

## 2. Modules

| Module | Models |
|---|---|
| `SharedDocument` | abstract: what a `sync` does to the document, for those who share it |
| `SyncProject` | `sync` and the files it reads and writes, failures, kills, the developer; shown to implement it |
| `Commands` | the other commands as runs that open, write and close files |
| `WorkQueue` | abstract: a queue of jobs, done in order and each once |
| `ThreadPool` | httplib's `ThreadPool` and the abstract owner of connections; shown to implement it |
| `RpcService` | listener, pool, handlers and `Commands` together; terminals |
| `WorkflowGraph`, `WorkflowCycle` | `dependsOn`, what a cycle is, `has_workflow_cycle` with a call of `dfs` per stack frame |
| `Workflows` | the class `Workflows` that `emit_arazzo_client` generates |
| `JsonText`, `JsonWriter` | abstract: a writer that remembers every open container; `utils::JsonWriter`, shown to implement it |
| `Codec` | the ways in which parsers and emitters treat a member; their reading of a table |
| `OpenApiCodec`, `ArazzoCodec`, `McpCodec` | the tables: structs, parsers and emitters of each format |
| `Upgrader`, `Discovery` | documents of Swagger 1.2 and 2.0, OpenAPI 3.0 and 3.1, and Google APIs made OpenAPI 3.2 |
| `Services` | abstract: what a document of each version offers to clients |
| `LegacyDocuments` | the documents of older versions to start from |
| `GeneratedApi` | what the Client, its tools and the snippets of the documentation say of one document |
| `Comments`, `Declarations`, `Structs` | the comments, functions and structs that generators print, and their readers |
| `GeneratedCode` | per kind of code, how far emitter and reader agree |
| `RoundTrip` | texts and structs in turn, through all of the above |
| `Expressions`, `Criteria` | `arazzo/expressions.cpp` as operators |
| `Replacements` | a payload that replacements rewrite, one after the other, and what each may change |
| `ArazzoRuntime` | questions asked of such a payload, against reference definitions |
| `GeneratedClient` | the generated Client as a sequence of calls on one CURL handle |
| `MC...`, `*.cfg` | instances for TLC |
| `...Proofs` | theorems: `SyncProjectProofs`, `WorkflowCycleProofs`, `WorkflowsProofs`, `JsonWriterProofs`, `ThreadPoolProofs`, `CommandsProofs`, `RpcServiceProofs`, `ReplacementsProofs` |

### SyncProject

`spec` is the document on disk and `disk` the C++ files; `pc` is where `sync`
is, `scanned`, `read` and `merged` are its variables `cpp_spec`,
`*file_spec_res` and `merged_spec`. `unflushed` is the set of streams whose text
is still in a `filebuf`: `out_fs` and `mock_fs` live until `sync` returns, so a
short text reaches the disk only then, on the error returns as well.

| Action | Code |
|---|---|
| `Start` | `run_sync`, 1186-1213 |
| `Scan`, `ScanFails` | `parse_cpp_project`, 1119; a directory that cannot be iterated is an empty project (`cpp_parser.cpp` 295-308) |
| `ReadSpec` | reading, parsing and merging, 1125-1152 |
| `OpenSpec`, `OpenSpecFails` | `std::ofstream out_fs` truncates, 1154-1159 |
| `WriteSpec`, `SpecCutOff` | 1160: through the buffer, at once, or only in part, which nobody tests |
| `WriteMocks`, `WriteMocksFails` | 1163-1165: `mock_fs` is never tested, neither its opening nor its writing |
| `OpenFile`, `FillFile`, `OpenFileFails` | `write_generated_files`, 214-233: the opening is tested |
| `FileCutOff` | 228: `out_file << content` is not; the loop goes on, and the result is 0 |
| `Return`, `FlushFails` | the destructors of the streams, which tell nobody when their flush fails |
| `Killed` | the process is killed at any point; buffered text is lost |
| `EditCode`, `EditRoute`, `EditGenerated`, `EditSpec` | the developer saves a file, also while `sync` runs |

A document is what `openapi::parse` keeps of its text (what that is, is the matter
of `OpenApiCodec`). A file is what the scanner finds in it: types, operations, and
whether it holds text a person wrote; of a file that was cut off it finds any part
(`PartsOf`), as `parse_cpp` does not see a class or function without its closing
brace. `cut` is a note of the model's: which texts of the run the disk has taken in
part only. A type is a shape, a mark for detail that only JSON can
hold, and the number of `std::unique_ptr` layers that print-and-reread puts
around its references (`Reread`). `BackRefs` are the types with a reference that is
printed so; the helper classes of `client.hpp` always belong to them, as
`std::map` and `std::chrono::milliseconds` (`client_sdk/emit.cpp` 130-149) are no
schemas, and the instances say so. `ScannedType` says that of several
declarations the first in directory order wins. `Merge` is the merge.
Saving the document during the milliseconds in which `out_fs` is open on it is
left out (the outcome would be the editor's business).

`SharedDocument` is what this amounts to for the developer and the next run: a
run looks once at the classes, once at the document, decides, and replaces the
document once and as a whole. `Shared` maps `SyncProject` to it: from the
truncation to the flush (`Underway`) the document counts as `merged` already, and
a run is over when its streams are closed. A document that is lost on a full disk
is part of what it promises (`Lost`), the result of such a run included.

### WorkflowCycle and Workflows

`WorkflowCycle`: `adj` and `state` are the code's maps, `stack` the recursive
calls of `dfs` with the entry each is looking at. `NextRoot` is the outer loop,
`Descend` and `Leave` the inner one. When a cycle is found all calls return
`true` at once, so `answer` is set in the same step.

`Workflows` is the generated code at the grain of calls and returns: `stack` is
the machine stack with the dependency, step and attempt each method is at, `ret`
is a value just returned, `executed` is `executed_workflows_`. `NextDependency`
is the `contains` test, `DependencyReturns` the test of the result and the
`insert`, `Operate` / `CallWorkflow` / `StepReturns` an attempt at a step,
`Settle` its end (break, next attempt, error). For a step that names an operation
the generator prints a placeholder that always succeeds; the constant
`OpsCanFail` says whether the developer has put a call there that can fail.
`failureActions` of type goto and end, and success criteria, are printed as
comments or not at all and so have no counterpart.

### JsonWriter

One action per call; `nest` is not state of the code but where the caller is: the
emitters close what they open and give every key a value, and the model's caller
does so too. `key_value` and `key_optional` are `key` and `value`.

### Commands, ThreadPool and RpcService

`Commands` gives every runner (a thread of the server or a terminal) a `run`: the
list of files the command will write, where it is in it, and its result. `Open`
truncates, `Write` is the destructor of the stream, `OpenFails` and `WriteFails`
are a file that cannot be opened and a full disk; `fs` is what is on disk. Two
notes are the model's and not the code's: `alone` (no other run opened one of
these files meanwhile) and `full`, so that the properties can say what they do not
promise.

`ThreadPool` has an action per critical section: `Enqueue`, `Spawn` and
`NotifyOne` are the three parts of `enqueue` between which the mutex is let go,
`Take`, `Wait`, `LeaveIdle`, `LeaveShutdown` a turn of `worker`, `Shutdown` to
`JoinDynamic` the parts of `shutdown`. A waiting thread may be `woken` spuriously
and a dynamic one may `expire`. `owner` is where the listener thread is.
`WorkQueue` knows nothing of threads: jobs wait in order, are begun once, and the
queue is over when it was closed and all are done. `Queue` maps the pool to it.

`RpcService` puts a session on each thread that serves a connection: `select` and
`poll` are the wait for the next request (`keep_alive`, which first looks whether
there is one at once and only then at the server socket), `command` a command
that runs inside the handler. `Verdict` is `handle_mcp_cli_message` on an
abstract body. `ServeStop` is `GET /stop`, with `assert` compiled out.

### Codecs and round trips

Every `parse_*` and `emit_*` function of the three formats reads or writes the
members of one struct in order, each in one of some thirty ways, so a function is
a table of `<<member, key, way>>` and `Codec` is the interpreter. A JSON object
is a sequence of pairs, so that a key may be there twice. `Parse` can fail,
refuse, or be undefined (a `dom::object` that was never set). `RoundTrip` takes
each struct by itself: the first text has what the parser requires and one more
member of any kind, or everything and one key twice; or the program made the
struct. For documents of older versions it begins with `Upgrade` or
`ReadDiscovery`.

`Services` is written from the formats' specifications, not from the code: the
servers, calls with inputs, bodies, results and scopes, the values a schema
admits, and the logins a document offers. An upgrader is right if what it makes
offers what it was given.

The format `code` has the same cycle with an API for a struct and C++ for a text.
Code is what the readers distinguish in it: functions with parameters and route,
structs with fields, comments as lines of words. `GeneratedCode!CodeAgrees` says
for each kind of code, member by member, what is found again, as it was said or
with one of the losses that are spelled out there and in section 4. A loss is
permitted, never required: code that kept more would agree, too. What the
documentation says on top of that is `LosslessCode`.

### Arazzo run time

`Expressions` and `Criteria` work on texts of symbols. The loops along the tokens
of a pointer are functions of how far they have come: `Reach` is what
`evaluate_json_pointer` has found after so many tokens, `Slots` where
`set_json_pointer_value` is after so many, and `Made` is the payload rebuilt
around the value that was put there. `Replacements` is the payload: `Replace` is
`apply_payload_replacement`, and every other call only answers. `ArazzoRuntime` says
which calls these are. It does not let TLC make up texts: it makes up structures
(a path, a condition of operands and operators, a pattern of items, a template of
pieces), writes each as text the way the format does, and asks whether the code's
answer is the structure's. Questions are also asked of payloads that the code
itself has rewritten.

### GeneratedApi and GeneratedClient

Methods, tools and snippets are computed from one document by the three pieces of
code that print them. `GeneratedClient` has the options of the CURL handle
as state; a method sets some of them and performs a request with all.

## 3. Runs

| Run | Checks | Bounds | States |
|---|---|---|---|
| `sync` | `TypeOK`, `DocumentKept`, `CodeTypesPublished`, `SdkMatchesDocument`, `Settles`, `ReplacesAtOnce` | up to 4 syncs, 2 edits, 1 fault, of which runs + faults + 2 edits at most 6; one developer's file, one class of his and a helper class with back references, up to 2 layers; two iteration orders, free on every run | 5.0 M (125 s) |
| `sync_lossless` | violates `RepeatIsLossless` | 2 syncs, 1 edit, a type that refers to itself | |
| `workflow_cycle` | `TypeOK`, `AnswerIsRight`, `DepthIsBounded`, `Ends` (fair) | every document of 3 workflows and one foreign name, up to 2 entries a list | 62 k |
| `workflows` | `TypeOK`, `DependenciesFirst`, `ExecutedIsCompleted`, `OnceAsDependency`, `CallReturns` (fair) | 3 workflows, 2 steps, 1 retry, 2 calls by the program | 120 k |
| `workflows_reentry` | violates `NoReentry` | documents with a circle of a dependency and a step | |
| `json_writer` | `SeparatorsAreRight`, `WritesJson` | 13 tokens, depth 4 | 118 k |
| `codecs` | `CodeAgrees`, `WrittenIsAccepted`, `TextsSettle`, `KeepsValues`, `DuplicatesAgree`, `SameService`, `GeneratedAgree` | every struct of three formats, six kinds of code, 11 k beginnings; 3 texts | 63 k (35 s) |
| `code_lossless` | violates `LosslessCode` | the same for code, 2 texts | |
| `criteria` | `AddressesAgree`, `TemplatesAgree`, `RegexIsRight`, `SimpleIsRight`, `ReplaceIsLocal` | 2 replacements; one payload for the questions that do not depend on it | 38 k (45 s) |
| `rpc_service` | `ServiceTypeOK`, `IdleIsCounted`, `ServesInOrder`, `NoLostWakeup`, `NothingLeft`, `FilesAreComplete`, `PromptIsAnswered`, `OkMeansDone`, `ConnectionsEnd`, `StopReturns` (fair) | a base and a dynamic thread, 2 connections, 2 requests in all, 1 terminal, 1 fault | 89 k (30 s) |
| `rpc_stop_twice` | violates `StopFindsSocket` | the same without terminals and faults | |
| `client_reuse` | violates `SendsOwnMethod` | 3 calls | |

Why the bounds are enough. A sync depends on earlier ones only through the files,
and two runs make every pair of (what the first left, what the second does); an
edit and a fault can fall between any two steps, and two edits let code and
document both change. The bound on all events leaves two runs with two edits, three
with an edit and a fault, and four with an edit, which is what `Settles` needs:
three calm ones after or around an edit; two layers tell a type that gains one
from one that has some. A cycle of three names has every form a larger
one has for the search (self loop, back edge, cross edge, repeated entry), and
`WorkflowCycleProofs` removes the bound. Three workflows make a chain, a diamond
shared by a program's two calls, and a dependency that fails below another.
`JsonWriterProofs` removes the bounds of `json_writer`.

Three texts are what a fixed point after one round needs: a first that a person
wrote, a second that the emitter wrote of it, a third to compare with. A member
is treated by itself by every parser, so texts with one member of each kind of
value, and with one key twice, are all a parser tells apart.

A pool of one base and one dynamic thread has every way in which a thread leaves
a wait, and every handover of a handle; `ThreadPoolProofs` and
`RpcServiceProofs` remove this bound and those on connections and requests. Some
bounds of `RpcService` are assumptions that keep it small: a connection that
sends nothing at first stays silent, connections are used in a fixed order,
commands are typed at terminals only while nobody is connected (two threads show
what two runs do to each other), the write of a response does not fail, and a
terminal runs one command.

Two replacements are one whose effect the next can meet. Templates and conditions
have up to three pieces, so that each kind is before and after each other kind; a
pattern has two items, or two alternatives, with every quantifier, over texts
shorter and longer than its counts.

Deadlock is checked for `rpc_service` (where the end of the process is the one
stop, `Over`). The other programs stop when they are done or their bounds
are reached.

Fairness. Nothing of `sync` needs any. `workflow_cycle` assumes `WF(Next)` of a
single-threaded loop. `workflows` assumes `WF(Work)`: a method that was called
goes on; the program need not call again, and nothing says that an operation
ever succeeds. `rpc_service` assumes `WF` of `Accept`, `StopListening` and
`Listener` (the listener thread is scheduled), of `PoolStep(t)` and `Serve(t)`
for each thread (which includes that the timeout of a silent connection passes:
`poll` has one), and of `CommandStep(w)` (a command's system calls return). No
client is obliged to send, no thread to wake by itself or to expire, and no
fault to happen.

## 4. What the runs show

* `DocumentKept`: a run that returns, with 0 or 1, has kept the document's
  `info`, and with `--truth spec` its schemas and operations. Its exceptions: a
  document saved between reading and truncating is overwritten with what was
  read before; the document is lost when the disk does not take its text, be it
  at once (`SpecCutOff`) or when the stream is destroyed (`FlushFails`), and the
  run may return 0 all the same; and a run that is killed does not return. A run
  that finds a document cut off takes it for a broken one, warns, and writes
  what the code says.
* `CodeTypesPublished`, `SdkMatchesDocument`: after any history, files that were
  cut off included, a run that returned 0 leaves a document with a schema for
  each type of the developer's that it scanned, and an SDK for exactly that
  document, as far as the disk has taken these files: 0 does not say that it
  has.
* `ReplacesAtOnce`: although the document is truncated, buffered, and closed
  only after the whole SDK was written, it changes as if in one step, from what
  the run found to the merge of what it read and scanned. An error return leaves
  the one or the other, because `out_fs` is flushed on it too; a kill in between
  or a disk that does not take the text leaves what cannot be read.
* `Settles`: from the third on of like runs in a row that nothing came in the
  way of, the document keeps its `info`, operations and names of schemas, and
  all of it with `--truth spec`. The second run still adds to it: helper classes
  of the generated client (`IApiClient`, `ApiClientConfig`, ...) and its
  `/auth/*` operations are scanned as if they were the developer's. With
  `--truth code` the schemas do not settle: a type with a back reference gains a
  layer of `std::unique_ptr` with every run that finds it in `src/models.hpp`
  first, as the helper classes do unless `src/client.hpp` comes before, or a
  schema takes another of its declarations when the files are found in another
  order. `Settles` says that it is nothing else that changes.
* `AnswerIsRight`, `DepthIsBounded`, `Ends`: the search is right and ends. It
  never tests for colour 2, so a ladder of diamonds is walked once per path;
  only the number of steps suffers, and no property speaks of it.
* `DependenciesFirst`, `ExecutedIsCompleted`, `OnceAsDependency`: no step is
  made before all dependencies, in turn with theirs, have completed; a failed
  one does not count as executed; a retry of a step that calls a workflow does
  not run a shared dependency twice. `CallReturns` holds when the methods do not
  use each other in a circle.
* `WritesJson`: the flag of `JsonWriter` is enough. A container around the
  innermost is never empty, for it holds that one.
* `IdleIsCounted`, `ServesInOrder`, `NoLostWakeup`, `NothingLeft`: the pool is
  right under every order of notification, timeout, spurious wakeup and
  shutdown, although `enqueue` notifies without the mutex, and however its
  threads come and go it is a queue: jobs begin in the order they came, each
  once. `ConnectionsEnd`, `StopReturns`: every accepted connection is served to
  its end and a stop ends `listen`, from whichever thread it comes.
  `PromptIsAnswered`: a request that came with its connection is answered even
  when the stop is served first.
* `FilesAreComplete`, `OkMeansDone`: a command that returns 0, and a
  `cdd_generate` that is answered OK after `from_openapi`, has written all its
  files. The statements name what they do not promise: another run on the same
  files, a full disk (no stream is tested after writing), two APIs of one title.
  `to_openapi`, `to_arazzo` and `from_arazzo` are answered OK whatever they
  return, which is why `OkMeansDone` is about `from_openapi`.
* `WrittenIsAccepted`, `TextsSettle`, `KeepsValues`, `DuplicatesAgree`: what a
  parser of any of the three formats made of a text is written so that the same
  parser reads it again, with every member as it was; from then on nothing
  changes. Exceptions: numbers of more than six digits or with a fraction
  (`JsonWriter::value(double)`), and the members of `Unread`, which no parser
  reads. A request id with a quote in it is written without its escapes, so that
  the text is no JSON.
* `SameService`: an upgraded document offers what the old one did, but for the
  losses of `IsKept`. `GeneratedAgree`: methods, tools and snippets fit, but for
  those of `Misfit`.
* `CodeAgrees`: what generated code says of an API is found by the scanner, as
  it was said or with one of the losses that `GeneratedCode` names, and nothing
  else is found. `LosslessCode`, below, is what the documentation promises.
* `AddressesAgree`, `TemplatesAgree`, `RegexIsRight`, `SimpleIsRight`,
  `ReplaceIsLocal`: what is written in an Arazzo document means what its
  structure says, unless two texts are compared that begin with a number and are
  not both whole (`IsCutOff`); a replacement succeeds just when there is
  something to replace or a map to add it to, changes its target only, and
  nothing if it fails.

Disagreements with the documentation or with an assertion of the code (each is a
run that ends in a violation):

* `RepeatIsLossless`: README.md:563 calls `sync` lossless; a field whose type is
  not defined before it is printed as `std::unique_ptr<T>` and read back as a
  reference to a schema named `std::unique_ptr<T>`, one layer more each time.
* `LosslessCode`: README.md:563 says of the annotations that they are enabling
  lossless bidirectional `sync`, ARCHITECTURE.md:18 calls the round trip of metadata
  lossless, and COMPLIANCE.md:15 and 18 tick server variables and header and cookie
  parameters for code. A login that needs no scopes is read back with its own name
  for one, two that are needed together as alternatives, a header parameter as one
  of the query; a response with neither description nor content is lost.
* `NoReentry`: conformance/arazzo-1.1.0/client-sdk.md:36 promises DAG ordering of
  prerequisites; a circle of a `dependsOn` entry and a step that calls a workflow
  is accepted, and the methods call each other without end.
* `StopFindsSocket`: utils/httplib.h:11381 asserts that a server that is stopped
  from a handler has a socket; a second `GET /stop`, served while `listen` waits
  for its threads, finds none.
* `SendsOwnMethod`: conformance/openapi-3.2.0/client-sdk.md:70 says that a `get`
  operation uses GET; on the shared handle the verb of an earlier method stays.

Three more statements of the documentation the model of `sync` shows not to
hold, without a run: cli/api.hpp:174 says "0 on success, non-zero on error", and
a run whose writes fail returns 0 (`SpecCutOff`, `FileCutOff`, `FlushFails`).
The others are definitions of `SyncProject` (`EditsSurvive`, `CodeIsTruth`):
README.md:23 says that function bodies, comments and custom imports survive a
`sync`, and the generated files are overwritten; USAGE.md:52 says that code is
the source of truth by default, and a class that is declared in a developer's
file and in the `src/models.hpp` of an earlier sync has the schema of whichever
the iteration meets first.

### What the code does otherwise than one would expect

The properties above hold with exceptions. These are theirs, and each is written
in the definition it belongs to.

Arazzo run time: a quantifier after a group is taken for a character;
`compare_values` compares the digits in front, so 1.5 equals 1.2, and orders what
has none as zero; a token that is
no number is index 0 of an array (README.md:561 says RFC 6901); an operator
inside quotes cuts a condition; the value of a replacement that is one whole
expression becomes a string; an XPath criterion looks for `<tag` only.

Upgraders: a flag that excludes a bound is copied from a 2.0 document, or becomes
a bound although it is false in a 3.0 one; the schemas of a tuple, a body that all
operations of a path share, and a base path without a host are lost; of a 1.2
document path, verb and nickname are kept; `nullable` is not converted; shared
parameters lose name, place and `required`; the types of 2.0 headers and examples
of responses are lost; strings that begin like an old reference are rewritten; any
object with a `type` or `properties` is treated as a schema, examples included;
`consumes: []` makes a body without media. README.md:560 says that `x-webhooks`
becomes `webhooks`; there is no code for it.

Discovery: of two methods with one path and verb one is kept; an `accept` of
`multipart/related` overwrites the body of that media type.

Client, tools, snippets: snippets do not sanitize ids; `additionalOperations` and
webhooks have snippets and no method; a number with a list of values, or with an
example that is no numeral, gets a literal of the wrong type; of two operations
whose names clash a tool executes the first; a parameter of the path that the
operation has too is declared twice; optional arguments are always sent; cookies
are dropped; a GET with a body is sent as POST; the handle keeps pointers to a
list of headers and a body that are gone.

Comments: a requirement without scopes gets the scheme's own name for one;
schemes needed together become alternatives; a server variable's description
becomes its list of values if it has none; the words of a scheme are read by
position; text beyond the first line, and before a brace in the Router, is lost;
so is a response with neither description nor content. A server variable with
neither default nor values, an empty description of a scheme, or a further line
of it that is a bullet and one word ends the program (`std::out_of_range` in a
`noexcept` function); a bullet and more words is taken for another scheme
(README.md:563 and ARCHITECTURE.md:18 call these round trips lossless).

Declarations: functions and handlers drop the parameters of a path; in the Router
the texts of the path replace the operations'; functions and handlers without a
summary take the first operation's for the API's; handlers lose types and turn
header parameters into query ones, add a backslash to every quote and line
break in each round, and lose the description of a name that is no identifier;
the reader of a server never finds the comment of the API; mocks keep names only.

Structs: a reference to a struct that comes later is wrapped in
`std::unique_ptr`; with a file per struct the two lines that a generator adds
become descriptions; a property keeps its description and nothing else; formats
are lost, and xml that says `false` or nothing; objects without a name and
untyped properties become strings, arrays of arrays references.

No command calls `server::emit` or `functions::emit`, only tests do; the scanner
does call `server::parse`.

## 5. Proofs

TLAPS (SMT, Zenon, LS4) checks these for every value of the constants that
satisfies the modules' named assumptions (`ConstantsAssumption` and
`ScanOrdersAssumption` of `SyncProject`; `WorkflowsAssumption`,
`ForeignAssumption`, `MaxDepsAssumption` and `DocumentsAssumption` of the
workflows; `BoundsAssumption` of `JsonWriter` and of `RpcService`;
`MaxFaultsAssumption`, `RunnersAssumption`, `ThreadsAssumption` and
`JobsAssumption` of the server; `MaxReplacementsAssumption` and
`TargetsAssumption` of `Replacements`), which TLC evaluates in the runs. One
theorem has a hypothesis of its own, named below.

**`SyncProjectProofs`**: `TypeCorrect`, `DocumentIsKept`, `CodeIsPublished`,
`DocumentIsReadable` (no run that returns breaks the document, but for a full
disk). `DocumentKept` speaks of the end of a run only and is not inductive;
`SyncInv` adds what the run knows on the way: until it truncates, the disk still
holds the document it began with; from the merge on, `merged` is `Merge` of what
was scanned and read; from then to the end the document is on disk or in a
stream, or the disk has not taken it (`cut`), or the run failed before
truncating. No theorem takes it for granted that a write succeeds.

`SdkIsInStep` (`SdkMatchesDocument`) needs what each file was generated from:
`SdkInv` says that while the SDK is written, every file of the list before the
current one holds the text generated from `merged`; nothing writes them again
before the run ends, except a developer, whom `raced` records, and those the
disk has taken in part only are in `cut`.

`SyncSettles` (`Settles`) has no hypothesis: types may have back references, as
the helper classes of every generated client do, and the directory may be
iterated in another order by every run. For an undisturbed run `SettleInv` says
that the files it leaves are those of its document (`LeftBehind`), that a second
one like it begins with those (`Begun`), scans them (`ScannedAgain`) and works
with them (`Working`). What is left is about `Merge` and the scan alone, and is
the lemma `RunSettles`: when a run merges a document with the files that an
earlier run generated from it, the next one, in any order, finds each type
declared that it made a schema of (`TypeStaysDeclared`) and no other
(`TypeStaysAbsent`), and in the same order finds the declaration that won
before, which has gained a layer at most (`TypeStays`). It rests on `Plain`:
what the developer writes in C++ carries nothing that C++ cannot express. The
note `calm`, which counts like runs, counts a run from its own beginning, and
none in which a write failed.

`SyncReplacesAtOnce` is the refinement `Spec => ReplacesAtOnce`, step by step
(`SharedStep`). `SyncInv` lacks one thing for it, that between the
truncation and the flush nothing of a document is on disk (`Truncated`), so that
a kill then leaves what cannot be read and never half of the new one.
`RunsGetShorter`: `StepsLeft`, at most twenty, is lowered by every step of a run,
faults included, and by no step of the developer raised, so every run ends that the
system goes on scheduling; no fairness is needed to say so.

**`WorkflowCycleProofs`**: `AnswerRight`, `DepthBounded`, `TypeCorrect`. A cycle
is stated without walks: `Cyclic` says that there is a non-empty set of names
that no walk need ever leave (`Trap`). `SearchInv` says that the names of colour 1
are exactly those on the stack, that each call's entry is the name of the call
above it, and that entries a call is done with, and names of colour 2, are
`Safe`: in no trap. An entry of colour 1 then closes a trap (the names from its
call to the top: `CycleIsRight`), a name all of whose entries are safe is safe
(`SafeFromBelow`), and when the outer loop ends every name is safe
(`NoCycleIsRight`). No induction on walks is needed, nor that the list of names
is small.

`SearchGoesForward` is what `Ends` rests on. A search that visits names again has
no count that falls; what grows is a sequence of places, compared from the left:
how far the outer loop is, then for each call from the bottom up the entry it
looks at (`Place`). Every step carries one place on and leaves those before it as
they are (`PlacesGrow`), each has a bound, and only so many places are ever used as
there are names (`PlacesAreBounded`).

**`WorkflowsProofs`**: `DependenciesComeFirst`, `ExecutedAreCompleted`,
`DependencyRunsOnce`, `ReentryNeedsCircle`, `TypeCorrect`, for every document,
those with a circle too. `DependenciesFirst` is not inductive: when a dependency
returns and is recorded, nothing in it says that the workflow that returned is
the one the caller asked for, nor that it was executed. `WorkflowsInv` adds that
every call on the stack waits for the workflow of the call above it (`Linked`),
that a call has executed the dependencies it has passed one by one
(`PassedExecuted`), and that a dependency that just returned a value is in the
set already (`ReturnedExecuted`), so that recording it again changes nothing.
One lemma per way the stack changes: `PushKeeps`, `ReplaceKeeps`, `FailKeeps`,
`FinishKeeps`.

`DependencyRunsOnce` (`OnceAsDependency`) holds in a document with a circle as well.
`UsesInv` says that a method in progress is one that was asked for by name, or
the first of its workflow to complete (`RunsCounted`). This breaks when a method
completes while another of the same workflow is below it on the stack; but calls
are made along dependencies and steps (`CallsAreUses`), so the calls between the
two make a circle, and no workflow in a circle ever completes (`CirclesWait`,
where a circle is a `Trap` as in `WorkflowCycle`). `ReentryNeedsCircle` says the
rest of what `NoReentry` is about: without such a circle no method is re-entered.

`MethodsGoForward` is what `CallReturns` rests on, in the same form: for each
call from the bottom up the dependency, step and attempt it is at, and for the
topmost whether a value was just returned to it (`Digit`); every step of a
method carries one of these on (`MethodsGoOn`), they are bounded by the
document's lists (`InLists`), and without a circle of uses there are never more
calls than workflows (`Shallow`).

**`JsonWriterProofs`**: `SeparatorsRight` and the refinement
`WriterImplementsText == Spec => WritesJson`. The mapping `Open` makes the
abstract stack from the caller's position and the flag, which only the innermost
container needs. `WriterInv` relates flag, last token and position: without
it the flag could be clear after a key. The step lemmas (`SameBegin`, `SameEnd`,
`SameName`, `SameScalar`) show that each call is the abstract one.

**`ThreadPoolProofs`**: `PoolInvariant`, `PoolIsCorrect` (`IdleIsCounted`,
`OnceEach`, `NoLostWakeup`, `NothingLeft` of the pool alone, for any number of
threads and jobs), and `JobsAreKept`, an action property: no step forgets a job
that was accepted. `PoolInv` adds to them what each stage of the owner knows:
which threads and lists there can be at which stage of a shutdown (`Stages`),
that base threads leave only when nothing is left to do (`BasesStay`), that
every dynamic thread that was started is on exactly one of the lists its handle
moves between (`Listed`), and that a thread has a task just when it runs
(`RunsItsTask`). The hard case is `NoLostWakeup`: between the push and the
notification no thread need look at the queue, and a thread that leaves by its
timeout must not have been the one the notification was for.

`PoolIsQueue` is the refinement `PoolSpec => ServesInOrder`. `OwnerIsNotStuck` is
freedom from deadlock, for any number of threads: whoever the owner is about to
join has left or has a next step, and while it joins with the mutex held
(`cleanup_finished_threads`) all have left. `StillThere` adds that a thread whose
handle is on a list was not joined before, and that nobody sleeps once a shutdown
has notified all. `ShutdownOnlyShrinks` is what `StopReturns` rests on: a
shutdown is not taken back, each step of the owner leaves one of six stages for
good, no job is added and no thread comes back.

**`CommandsProofs`**: the invariant `CommandsInv` for any number of runs and
files, and its consequence `FilesAreComplete` (`CompleteFiles`); `RpcServiceProofs`
uses them. `Written` says that a run which nobody disturbs finds all it has written
so far as it wrote it, and the file it has open empty. For this to survive the
steps of others, `Apart` says that nobody has a file open of a run that is alone:
a stream that was opened earlier is flushed later. And a run must not overwrite
its own files: `TreesDistinct` says that the files that are generated for
several inputs are distinct when the titles are.

**`RpcServiceProofs`**: `ServiceInvariant` (`PoolInv` and `ServiceInv`, for any
number of threads, connections and terminals) and `ServiceUsesPool == Spec =>
PoolSpec`, a refinement: whatever the server, its commands and its clients do,
the pool's variables take steps of `ThreadPool` or none. So the pool's
properties are the service's (`IdleThreadsCounted`, `ConnectionOnce`,
`WakeupKept`, `NothingOutlives`, `ConnectionsInOrder`, `ListenerIsNotStuck`,
`StopOnlyShrinks`), the second refinement included: the server implements
`WorkQueue`. `PromptAnswered` is `PromptIsAnswered`, which is not inductive:
nothing in it says that a thread that is about to hang up has answered.
`ServiceInv` adds that a thread without a connection has a fresh session
(`FreshWhenIdle`) and that one which came to look at the server socket, or is
done, serves a connection whose first request is answered, or that had none
(`AnsweredFirst`). `OwnerKeepsServing` and its like say that the pool leaves a
thread alone that serves (`KeepsServing`).

`FilesComplete` (`FilesAreComplete`), `ServiceTyped` (`ServiceTypeOK`) and
`ResultMeansDone` (`OkMeansDone`) are about server and commands together.
`ServerInv` adds `CommandsInv` and `Requested`: a thread that runs a command has
the request it runs it for as the first it has not answered, and the command was
called with that request's arguments. `ResultMeansDone` is an action property: the
step that sends the answer sees the result code (`FailureIsTold`), and if it is 0
the files are complete in the same state (`AnswerIsDone`).

**`ReplacementsProofs`**: `ReplacedMeansIt` (`ReplaceIsLocal`) and
`ReplacementsAreLocal`, for payloads of any depth, pointers of any length and
any number of replacements. The first has the hypothesis that a value means the
same in every payload, which the values of `criteria` do; the second has none
and says what a replacement does with whatever its value resolves to. JSON
values have no type in the theorems: what the code does depends only on whether
a value is a map, an array or neither. `ReachIs`, `SlotsIs` and `MadeIs` show
that the functions along the tokens exist and unfold; `SlotsSucceed` when
`set_json_pointer_value` finds a place; `MadeAlong` and `SetThenFound` that the
target is found afterwards; `SetElsewhere` that every pointer finds what it
found before unless one of the two places is a prefix of the other
(`PartSomewhere`: then there is a first token at which they part, and
`WithElsewhere` for that one). `UpToLastSlash` and `HashIs` are about the texts
of pointers, where the last token is cut off. Each induction is along the
tokens, in the form `NatInSet` (the lengths for which something holds are all of
`Nat`), which needs no operator for a parameter. The theorems are about
`ReplacementsSpec`; the actions of `ArazzoRuntime` are its `Replace`, `Return`,
and answers that change nothing.

`WrittenPointersLead` is about how pointers are read at all: whatever names one
starts from, slashes and tildes in them, empty ones and none at all, the pointer
that RFC 6901 writes for them is valid for the code, which finds just these
names in it and no others. It is one of the ways of `AddressesAgree`, for every
path. The induction is along each name (`CharacterIsRead`: one character
more is one character more to the reader, whatever was written of it) and along
the names (`PointerGrows`, `LastToken`). `Symbols`, which stands for `STRING` in
these proofs, names four characters: the provers do not know of a literal that
it is a string.

Only model-checked: the properties of `RoundTrip` (`CodeAgrees`,
`WrittenIsAccepted`, `TextsSettle`, `KeepsValues`, `DuplicatesAgree`,
`SameService`, `GeneratedAgree`), and `AddressesAgree`, `TemplatesAgree`,
`RegexIsRight` and `SimpleIsRight` of `ArazzoRuntime`: they compare operators
that are recursive in data of any depth, or are computed over tables of a
hundred structs, which the prover does not take. Of the liveness properties
(`Ends`, `CallReturns`, `ConnectionsEnd`, `StopReturns`) the prover does not
take the part that is about fairness, so they too are checked by TLC; what is
proved for every size is why they hold: that each step goes forward in something
bounded (`SearchGoesForward`, `MethodsGoForward`, `ShutdownOnlyShrinks`) and,
for the pool, that no one is stuck (`OwnerIsNotStuck`). That a bounded sequence
of places cannot grow for ever is left to the reader: it is an induction over
their number. `ConnectionsEnd` has no such theorem.

## 6. Not modelled, and the plan

Left out for good: lexing and formatting of text (`cpp_ast`, the layout of
generated code), httplib's parsing of HTTP, TLS, streaming and its client, the
heuristics by which the scanner recognises routes and handlers in code it did not
generate, sleeping between retries, tests and scripts. What the model takes for
granted there: `cpp_ast` finds the functions and fields that are in the text, and
maps are printed in one order.

Printed as text, without a model of what it does when it runs: of the generated
server the seeder and entity pools, the token set (which the handlers of all
threads change without a lock), CORS, validators, the routes of its identity
provider and the webhook dispatcher; the dispatch of arguments of the generated
command line client; the data access classes. `--enforce-auth` and
`--strict-validation` are parsed there and no route looks at them.

What a next step could take up:

1. Lemmas about single ways of `Codec`: what a parser reads of a member that the
   emitter wrote of it.
2. `MockServer`: the generated server's tokens and pools under its threads, with
   an unlocked set as a choice over the outcomes of a race.
