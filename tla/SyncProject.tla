----------------------------- MODULE SyncProject -----------------------------
(***************************************************************************)
(* `cdd-cpp sync -i <dir> -o <spec> -t code|spec`: one OpenAPI document    *)
(* kept in step with a directory of C++ files.                             *)
(*                                                                         *)
(* A run scans every C++ file of the directory, reads the document, merges *)
(* the two, and then writes, without any lock, temporary file or rename:   *)
(* the document, the mocks, and the files of a client SDK, into the very   *)
(* directory it scans.  Between two of its steps the process can be        *)
(* killed, an open can fail, or the developer can save a file; and a write *)
(* can fail, on a full disk say: no write of sync is ever tested, so the   *)
(* run goes on, and may return 0, with a part of the text on the disk.     *)
(*                                                                         *)
(* Data is abstracted to what the merge tells apart.  A document is what   *)
(* openapi::parse keeps of it (what it does not keep is the matter of      *)
(* OpenApiCodec: KeepsValues of RoundTrip).  A C++ file is the             *)
(* set of types and operations a scan finds in it, with a mark for text    *)
(* that a person wrote into it.  A type's content is its shape, whether it *)
(* carries detail only JSON can express (enum, bounds, a non-object type), *)
(* and how many std::unique_ptr<...> layers its back references have.      *)
(***************************************************************************)
EXTENDS Naturals, Sequences

CONSTANTS
    TypeNames,     \* names of schemas and of C++ classes
    Shapes,        \* what the fields of a type can look like
    Ops,           \* operations: a path and a method
    StandardOps,   \* the operations with one of the standard methods
    Infos,         \* values of the document's "info"
    DefaultInfo,   \* "Generated API from C++"
    CodeFiles,     \* the developer's own C++ files in the directory
    HandFiles,     \* the generated files the developer writes into
    ScanOrders,    \* the orders in which the directory may be iterated
    Helpers,       \* Helpers[f]: helper classes in the text of generated file f
    HelperShape,   \* their shape
    AuthOps,       \* operations a scan finds in any generated client.cpp
    BackRefs,      \* types with a field whose type is not defined before them
    Absent,        \* no such type, no such document
    Garbage,       \* a document openapi::parse refuses; "" is one
    MaxWraps,      \* bound: layers of std::unique_ptr
    MaxSyncs,      \* bound: runs
    MaxEdits,      \* bound: edits by the developer
    MaxFaults,     \* bound: kills, failed scans, opens and writes
    MaxEvents      \* bound: runs, faults and edits together, an edit counting twice

\* In the order of the std::map that emit_client returns.
WriteOrder == << ".github/workflows/ci.yml", "CMakeLists.txt",
                 "src/CMakeLists.txt", "src/client.cpp", "src/client.hpp",
                 "src/models.cpp", "src/models.hpp" >>
Mocks     == "mocks_generated.hpp"
SdkFiles  == {WriteOrder[i] : i \in DOMAIN WriteOrder}
Generated == SdkFiles \union {Mocks}
Files     == CodeFiles \union Generated

Content == [shape : Shapes, rich : BOOLEAN, wraps : 0..MaxWraps]
Types   == [TypeNames -> Content \union {Absent}]
File    == [types : Types, ops : SUBSET Ops, hand : BOOLEAN]
Doc     == [info : Infos, types : Types, ops : SUBSET Ops]
Stored  == Doc \union {Absent, Garbage}
Truths  == {"code", "spec"}     \* any other --truth acts like "code"

ASSUME ConstantsAssumption ==
    /\ StandardOps \subseteq Ops
    /\ AuthOps \subseteq StandardOps
    /\ DefaultInfo \in Infos
    /\ HelperShape \in Shapes
    /\ CodeFiles \intersect Generated = {} /\ HandFiles \subseteq Generated
    /\ Helpers \in [Generated -> SUBSET TypeNames]
    /\ Absent \notin Content /\ Absent \notin Doc
    /\ Garbage \notin Doc /\ Absent # Garbage
    /\ MaxWraps \in Nat /\ MaxSyncs \in Nat /\ MaxEdits \in Nat /\ MaxFaults \in Nat
    /\ MaxEvents \in Nat

ASSUME ScanOrdersAssumption ==
    /\ ScanOrders # {}
    /\ \A o \in ScanOrders :
         /\ o \in Seq(Files)
         /\ \A f \in Files : \E i \in DOMAIN o : o[i] = f

VARIABLES
    spec,      \* the document on disk
    disk,      \* the C++ files (and build files) of the directory
    order,     \* the order in which the directory was iterated last
    pc, truth, rc, next,      \* the run: where it is, -t, exit code, file index
    scanned, read, merged,    \* cpp_spec, what was read of the document, merged_spec
    unflushed,                \* streams whose bytes are still in a filebuf
    before,                   \* history: the document when the run began
    code,                     \* history: types of the developer's files the run scanned
    cut,                      \* history: what the run wrote only a part of
    turned,                   \* history: the run found the files in another order than the last
    raced,                    \* history: something was saved while the run worked
    calm,                     \* history: like runs in a row that nothing came in the way of
    syncs, edits, faults      \* counters of the bounds

process == <<pc, truth, rc, next, scanned, read, merged, unflushed>>
history == <<before, code, cut, turned, raced, calm>>
counters == <<syncs, edits, faults>>
vars == <<spec, disk, order, process, history, counters>>

NoTypes   == [n \in TypeNames |-> Absent]
EmptyFile == [types |-> NoTypes, ops |-> {}, hand |-> FALSE]
EmptyDoc  == [info |-> DefaultInfo, types |-> NoTypes, ops |-> {}]

Running == pc \notin {"idle", "done"}

-----------------------------------------------------------------------------
(* What is read from C++ *)

\* parse_schemas inserts: of several files that declare a class, the first
\* one visited wins.
Declaring(o, n) == {i \in DOMAIN o : disk[o[i]].types[n] # Absent}
First(S) == CHOOSE i \in S : \A j \in S : i <= j

ScannedType(o, n) ==
    IF Declaring(o, n) = {} THEN Absent
    ELSE disk[o[First(Declaring(o, n))]].types[n]

ScanOf(o) ==
    [info  |-> DefaultInfo,
     types |-> [n \in TypeNames |-> ScannedType(o, n)],
     ops   |-> UNION {disk[f].ops : f \in Files}]

-----------------------------------------------------------------------------
(* What is written as C++, as the next scan reads it *)

\* models::emit prints a struct and parse_schemas reads it back: detail a struct
\* cannot carry is gone; a field whose type is not yet fully defined was printed
\* as std::unique_ptr<T>, which is then taken for the name of an (undefined)
\* type, so it gains a layer each time.
Reread(n, c) ==
    [c EXCEPT !.rich  = FALSE,
              !.wraps = IF (n \in BackRefs \/ @ > 0) /\ @ < MaxWraps THEN @ + 1 ELSE @]

\* A helper class as its own file has it.  Those of client.hpp have fields of types
\* that no schema defines (std::map, std::chrono::milliseconds): once they are
\* schemas, models.hpp declares them too, with such fields in a std::unique_ptr, so
\* they belong to BackRefs.
HelperContent == [shape |-> HelperShape, rich |-> FALSE, wraps |-> 0]

TextTypes(f, d) ==
    IF f = "src/models.hpp"
    THEN [n \in TypeNames |-> IF d.types[n] = Absent THEN Absent ELSE Reread(n, d.types[n])]
    ELSE [n \in TypeNames |-> IF n \in Helpers[f] THEN HelperContent ELSE Absent]

\* The client has a method per standard operation, and its own for auth.
TextOps(f, d) ==
    IF f = "src/client.cpp" THEN (d.ops \intersect StandardOps) \union AuthOps ELSE {}

GeneratedText(f, d) == [types |-> TextTypes(f, d), ops |-> TextOps(f, d), hand |-> FALSE]

\* What a scan finds in a text that was cut off: a class or function without its
\* closing brace is not seen.  (A line of a docstring may be cut so that the scan
\* throws, which ends the process: Killed.)
PartsOf(text) ==
    {[types |-> [n \in TypeNames |-> IF n \in T THEN text.types[n] ELSE Absent],
      ops   |-> O,
      hand  |-> FALSE] : T \in SUBSET TypeNames, O \in SUBSET text.ops}

-----------------------------------------------------------------------------
(* The merge *)

WithMissing(d, s) ==
    [d EXCEPT !.types = [n \in TypeNames |-> IF @[n] = Absent THEN s.types[n] ELSE @[n]]]

\* Mutated forms of Merge: the code's schemas replace the document's; --truth
\* spec forgets to add the code's schemas.
MergeCodeWins(t, s, r) ==
    CASE r \in {Absent, Garbage}                 -> s
      [] r \notin {Absent, Garbage} /\ t = "spec" ->
            [r EXCEPT !.types = WithMissing(s, r).types]
      [] r \notin {Absent, Garbage} /\ t # "spec" -> [s EXCEPT !.info = r.info]

MergeSpecAlone(t, s, r) ==
    CASE r \in {Absent, Garbage}                 -> s
      [] r \notin {Absent, Garbage} /\ t = "spec" -> r
      [] r \notin {Absent, Garbage} /\ t # "spec" -> [s EXCEPT !.info = r.info]

Merge(t, s, r) ==
    CASE r \in {Absent, Garbage}                 -> s
      [] r \notin {Absent, Garbage} /\ t = "spec" -> WithMissing(r, s)
      [] r \notin {Absent, Garbage} /\ t # "spec" -> [s EXCEPT !.info = r.info]

-----------------------------------------------------------------------------
(* The run *)

Init ==
    /\ spec \in {Absent, EmptyDoc}
    /\ disk = [f \in Files |-> EmptyFile]
    /\ order \in ScanOrders
    /\ pc = "idle" /\ truth = "code" /\ rc = 0 /\ next = 0
    /\ scanned = EmptyDoc /\ read = Absent /\ merged = EmptyDoc /\ unflushed = {}
    /\ before = Absent /\ code = {} /\ cut = {} /\ turned = FALSE /\ raced = FALSE /\ calm = 0
    /\ syncs = 0 /\ edits = 0 /\ faults = 0

\* The types the developer's own files declare.
CodeTypes == {n \in TypeNames : \E f \in CodeFiles : disk[f].types[n] # Absent}

\* What weighs so much fits the bound on all events.
Room(weight) == syncs + faults + 2 * edits + weight <= MaxEvents

Start(t) ==
    /\ ~Running
    /\ syncs < MaxSyncs /\ Room(1)
    /\ syncs' = syncs + 1
    /\ pc' = "scan" /\ truth' = t /\ rc' = 0 /\ next' = 0
    /\ before' = spec /\ cut' = {} /\ raced' = FALSE
    /\ calm' = IF t = truth THEN calm + 1 ELSE 1
    /\ UNCHANGED <<spec, disk, order, scanned, read, merged, unflushed, code, turned,
                   edits, faults>>

\* Something fails: a part of every action that says so.
Fails ==
    /\ faults < MaxFaults /\ Room(1)
    /\ faults' = faults + 1 /\ calm' = 0
    /\ UNCHANGED <<before, turned, raced, syncs, edits>>

\* parse_cpp_project: one pass over the directory.
Scan(o) ==
    /\ pc = "scan"
    /\ order' = o /\ turned' = (o # order)
    /\ scanned' = ScanOf(o) /\ code' = CodeTypes
    /\ pc' = "read"
    /\ UNCHANGED <<spec, disk, truth, rc, next, read, merged, unflushed,
                   before, cut, raced, calm, counters>>

\* The directory cannot be iterated: its description is empty, not an error.
ScanFails ==
    /\ pc = "scan" /\ Fails
    /\ scanned' = EmptyDoc /\ code' = {}
    /\ pc' = "read"
    /\ UNCHANGED <<spec, disk, order, truth, rc, next, read, merged, unflushed, cut>>

ReadSpec ==
    /\ pc = "read"
    /\ read' = spec
    /\ merged' = Merge(truth, scanned, spec)
    /\ pc' = "open_spec"
    /\ UNCHANGED <<spec, disk, order, truth, rc, next, scanned, unflushed, history, counters>>

\* std::ofstream out_fs(config.output) truncates the document.
OpenSpec ==
    /\ pc = "open_spec"
    /\ spec' = Garbage
    /\ pc' = "write_spec"
    /\ UNCHANGED <<disk, order, truth, rc, next, scanned, read, merged, unflushed,
                   history, counters>>

OpenSpecFails ==
    /\ pc = "open_spec" /\ Fails
    /\ rc' = 1 /\ pc' = "return"
    /\ UNCHANGED <<spec, disk, order, truth, next, scanned, read, merged, unflushed,
                   code, cut>>

\* out_fs << emit(merged_spec): a long text goes to the file at once, a short one
\* stays in the stream's buffer, and the stream lives until sync returns.
WriteSpec ==
    /\ pc = "write_spec"
    /\ \/ spec' = merged /\ UNCHANGED unflushed
       \/ unflushed' = unflushed \union {"spec"} /\ UNCHANGED spec
    /\ pc' = "mocks"
    /\ UNCHANGED <<disk, order, truth, rc, next, scanned, read, merged, history, counters>>

\* The long text is cut off.  What is there does not parse; nobody tests out_fs.
SpecCutOff ==
    /\ pc = "write_spec" /\ Fails
    /\ cut' = cut \union {"spec"}
    /\ pc' = "mocks"
    /\ UNCHANGED <<spec, disk, order, truth, rc, next, scanned, read, merged, unflushed, code>>

\* Mutated form of WriteMocks: the loop over the files starts at zero.
WriteMocksFromZero ==
    /\ pc = "mocks"
    /\ disk' = [disk EXCEPT ![Mocks] = GeneratedText(Mocks, merged)]
    /\ pc' = "open_file" /\ next' = 0
    /\ UNCHANGED <<spec, order, truth, rc, scanned, read, merged, unflushed, history, counters>>

WriteMocks ==
    /\ pc = "mocks"
    /\ \/ disk' = [disk EXCEPT ![Mocks] = GeneratedText(Mocks, merged)] /\ UNCHANGED unflushed
       \/ /\ disk' = [disk EXCEPT ![Mocks] = EmptyFile]
          /\ unflushed' = unflushed \union {Mocks}
    /\ pc' = "open_file" /\ next' = 1
    /\ UNCHANGED <<spec, order, truth, rc, scanned, read, merged, history, counters>>

\* mock_fs is never tested: it may not open, or take a part of the text only.
WriteMocksFails ==
    /\ pc = "mocks" /\ Fails
    /\ \/ UNCHANGED disk
       \/ \E part \in PartsOf(GeneratedText(Mocks, merged)) :
              disk' = [disk EXCEPT ![Mocks] = part]
    /\ cut' = cut \union {Mocks}
    /\ pc' = "open_file" /\ next' = 1
    /\ UNCHANGED <<spec, order, truth, rc, scanned, read, merged, unflushed, code>>

\* write_generated_files: each file is opened, filled and closed in turn.
OpenFile ==
    /\ pc = "open_file"
    /\ disk' = [disk EXCEPT ![WriteOrder[next]] = EmptyFile]
    /\ pc' = "fill_file"
    /\ UNCHANGED <<spec, order, truth, rc, next, scanned, read, merged, unflushed,
                   history, counters>>

OpenFileFails ==
    /\ pc = "open_file" /\ Fails
    /\ rc' = 1 /\ pc' = "return"
    /\ UNCHANGED <<spec, disk, order, truth, next, scanned, read, merged, unflushed,
                   code, cut>>

\* Mutated form of FillFile: the last file is left out.
FillFileStopsEarly ==
    /\ pc = "fill_file"
    /\ disk' = [disk EXCEPT ![WriteOrder[next]] = GeneratedText(WriteOrder[next], merged)]
    /\ IF next < Len(WriteOrder) - 1
       THEN pc' = "open_file" /\ next' = next + 1
       ELSE pc' = "return" /\ UNCHANGED next
    /\ UNCHANGED <<spec, order, truth, rc, scanned, read, merged, unflushed, history, counters>>

NextFile ==
    IF next < Len(WriteOrder)
    THEN pc' = "open_file" /\ next' = next + 1
    ELSE pc' = "return" /\ UNCHANGED next

FillFile ==
    /\ pc = "fill_file"
    /\ disk' = [disk EXCEPT ![WriteOrder[next]] = GeneratedText(WriteOrder[next], merged)]
    /\ NextFile
    /\ UNCHANGED <<spec, order, truth, rc, scanned, read, merged, unflushed, history, counters>>

\* out_file << content is not tested: the file is cut off, the loop goes on.
FileCutOff ==
    /\ pc = "fill_file" /\ Fails
    /\ \E part \in PartsOf(GeneratedText(WriteOrder[next], merged)) :
           disk' = [disk EXCEPT ![WriteOrder[next]] = part]
    /\ cut' = cut \union {WriteOrder[next]}
    /\ NextFile
    /\ UNCHANGED <<spec, order, truth, rc, scanned, read, merged, unflushed, code>>

\* Mutated form of Return: the document's stream is dropped on an error return.
ReturnDropsOnError ==
    /\ pc = "return"
    /\ spec' = IF "spec" \in unflushed /\ rc = 0 THEN merged ELSE spec
    /\ unflushed' = {}
    /\ pc' = "done"
    /\ UNCHANGED <<disk, order, truth, rc, next, scanned, read, merged, history, counters>>

\* On every return the streams are destroyed, which flushes them.
Return ==
    /\ pc = "return"
    /\ spec' = IF "spec" \in unflushed THEN merged ELSE spec
    /\ disk' = IF Mocks \in unflushed
               THEN [disk EXCEPT ![Mocks] = GeneratedText(Mocks, merged)] ELSE disk
    /\ unflushed' = {}
    /\ pc' = "done"
    /\ UNCHANGED <<order, truth, rc, next, scanned, read, merged, history, counters>>

\* A destructor tells nobody that the flush of its stream failed.
FlushFails ==
    /\ pc = "return" /\ Fails
    /\ \E lost \in SUBSET unflushed \ {{}}, part \in PartsOf(GeneratedText(Mocks, merged)) :
         /\ spec' = IF "spec" \in unflushed \ lost THEN merged ELSE spec
         /\ disk' = CASE Mocks \in lost -> [disk EXCEPT ![Mocks] = part]
                      [] Mocks \in unflushed \ lost ->
                            [disk EXCEPT ![Mocks] = GeneratedText(Mocks, merged)]
                      [] OTHER -> disk
         /\ cut' = cut \union lost
    /\ unflushed' = {}
    /\ pc' = "done"
    /\ UNCHANGED <<order, truth, rc, next, scanned, read, merged, code>>

Killed ==
    /\ Running /\ Fails
    /\ pc' = "idle" /\ unflushed' = {}
    /\ UNCHANGED <<spec, disk, order, truth, rc, next, scanned, read, merged, code, cut>>

-----------------------------------------------------------------------------
(* The developer *)

Edit ==
    /\ edits < MaxEdits /\ Room(2)
    /\ edits' = edits + 1
    /\ calm' = 0
    /\ raced' = (raced \/ Running)
    /\ pc' = IF Running THEN pc ELSE "idle"
    /\ UNCHANGED <<order, truth, rc, next, scanned, read, merged, unflushed,
                   before, code, cut, turned, syncs, faults>>

\* Declares, reshapes (shape given) or removes a type in a C++ file.
EditCode(f, n, c) ==
    /\ Edit
    /\ disk' = [disk EXCEPT ![f].types[n] = c]
    /\ UNCHANGED spec

EditRoute(f, o) ==
    /\ Edit
    /\ disk' = [disk EXCEPT ![f].ops = @ \union {o}]
    /\ UNCHANGED spec

\* Writes into a generated file: a function body, a comment, an #include.
EditGenerated(f) ==
    /\ Edit
    /\ disk' = [disk EXCEPT ![f].hand = TRUE]
    /\ UNCHANGED spec

\* Saves the document.  Saving it while out_fs is open on it is left out: the
\* outcome would depend on how the editor saves.
SaveSpec(d) ==
    /\ pc \in {"idle", "done", "scan", "read", "open_spec"}
    /\ d # spec
    /\ Edit
    /\ spec' = d
    /\ UNCHANGED disk

Written == [shape : Shapes, rich : {FALSE}, wraps : {0}]

DocumentContent == [shape : Shapes, rich : {TRUE}, wraps : {0}]

\* One edit of the document: a new info, a type set or removed, a new operation,
\* or a syntax error.
EditSpec ==
    /\ spec \in Doc
    /\ \/ SaveSpec(Garbage)
       \/ \E i \in Infos : SaveSpec([spec EXCEPT !.info = i])
       \/ \E n \in TypeNames, c \in DocumentContent \union {Absent} :
              SaveSpec([spec EXCEPT !.types[n] = c])
       \/ \E o \in Ops : SaveSpec([spec EXCEPT !.ops = @ \union {o}])

Developer ==
    \/ \E f \in CodeFiles, n \in TypeNames, c \in Written \union {Absent} : EditCode(f, n, c)
    \/ \E f \in CodeFiles, o \in Ops : EditRoute(f, o)
    \/ \E f \in HandFiles : EditGenerated(f)
    \/ EditSpec

Step ==
    \/ \E o \in ScanOrders : Scan(o)
    \/ ReadSpec \/ OpenSpec \/ WriteSpec \/ WriteMocks \/ OpenFile \/ FillFile \/ Return

Fault ==
    \/ ScanFails \/ OpenSpecFails \/ SpecCutOff \/ WriteMocksFails
    \/ OpenFileFails \/ FileCutOff \/ FlushFails \/ Killed

Next ==
    \/ \E t \in Truths : Start(t)
    \/ Step \/ Fault \/ Developer

Spec == Init /\ [][Next]_vars

-----------------------------------------------------------------------------
(* Properties *)

\* Every variable has its type.
TypeOK ==
    /\ spec \in Stored /\ before \in Stored /\ read \in Stored
    /\ disk \in [Files -> File]
    /\ order \in ScanOrders
    /\ pc \in {"idle", "scan", "read", "open_spec", "write_spec", "mocks",
               "open_file", "fill_file", "return", "done"}
    /\ truth \in Truths /\ rc \in {0, 1} /\ next \in 0..Len(WriteOrder)
    /\ pc \in {"open_file", "fill_file"} => next > 0
    /\ scanned \in Doc /\ merged \in Doc
    /\ unflushed \subseteq {"spec", Mocks}
    /\ code \subseteq TypeNames /\ cut \subseteq Generated \union {"spec"}
    /\ turned \in BOOLEAN /\ raced \in BOOLEAN /\ calm \in 0..syncs
    /\ syncs \in 0..MaxSyncs /\ edits \in 0..MaxEdits /\ faults \in 0..MaxFaults

Declared(types) == {n \in TypeNames : types[n] # Absent}

\* A run that returns, successful or not, has kept the document's info; with
\* --truth spec it has kept every schema and every operation of it, too.  It does
\* so unless the document was saved while the run was at work (the run overwrites
\* it with what it had read) or its text did not fit the disk (nothing tests that,
\* and what was in the document is gone).
DocumentKept ==
    pc = "done" /\ before \in Doc /\ ~raced /\ "spec" \notin cut =>
        /\ spec \in Doc
        /\ spec.info = before.info
        /\ truth = "spec" =>
             /\ spec.ops = before.ops
             /\ \A n \in Declared(before.types) : spec.types[n] = before.types[n]

\* After a run that returned 0 and whose document is all on the disk, every type of
\* the developer's files that the run scanned has a schema in the document,
\* whatever the source of truth, whatever was saved meanwhile, and whether or not
\* earlier runs failed, were killed, or left files that were cut off.
CodeTypesPublished ==
    pc = "done" /\ rc = 0 /\ "spec" \notin cut =>
        spec \in Doc /\ code \subseteq Declared(spec.types)

\* After a run that returned 0 and wrote the three files in full, the generated
\* models declare exactly the document's schemas, and the generated client has its
\* standard operations.
SdkMatchesDocument ==
    /\ pc = "done" /\ rc = 0 /\ ~raced
    /\ cut \intersect {"spec", "src/models.hpp", "src/client.cpp"} = {}
    => /\ Declared(disk["src/models.hpp"].types) = Declared(spec.types)
       /\ spec.ops \intersect StandardOps \subseteq disk["src/client.cpp"].ops

\* No run that returns leaves a document broken that it did not find broken, unless
\* the disk did not take its text: the truncated file is filled at the latest when
\* the streams are destroyed, on the error return as well.
NeverLeavesBroken ==
    pc = "done" /\ before # Garbage /\ ~raced /\ "spec" \notin cut => spec # Garbage

\* Two documents with the same info, operations and names of schemas; and the same
\* one when it is the source of truth.
SameNames(t, d, m) ==
    /\ m.info = d.info /\ m.ops = d.ops /\ Declared(m.types) = Declared(d.types)
    /\ t = "spec" => m = d

\* The schemas are the same but for layers of std::unique_ptr that were added.
OnlyWrapped(d, m) ==
    \A n \in Declared(d.types) :
        /\ m.types[n].shape = d.types[n].shape /\ m.types[n].rich = d.types[n].rich
        /\ m.types[n].wraps >= d.types[n].wraps

\* Repeating a sync settles as far as it does: the first run publishes the code, the
\* second the helper classes and auth operations of the files the first one
\* generated, and from the third on, as long as no run fails or is killed and nobody
\* saves a file, the document keeps its info, operations and names of schemas, and
\* all of it with --truth spec.  With --truth code a schema changes its form only
\* when the files are found in another order; otherwise all that changes are
\* layers of std::unique_ptr, of which a type may gain one with every run, the
\* helper classes of client.hpp among them.
Settles ==
    pc = "done" /\ calm >= 3 =>
        /\ SameNames(truth, before, spec)
        /\ ~turned => OnlyWrapped(before, spec)

\* The strengthening of DocumentKept, CodeTypesPublished and NeverLeavesBroken
\* that a step preserves: what the run knows at each point of sync.
Decided == pc \in {"open_spec", "write_spec", "mocks", "open_file", "fill_file",
                   "return", "done"}

SyncInv ==
    /\ TypeOK
    /\ pc \notin {"mocks", "open_file", "fill_file", "return"} => unflushed = {}
    /\ Running /\ pc # "return" => rc = 0
    /\ pc \in {"scan", "read", "open_spec"} /\ ~raced => spec = before
    /\ Decided \/ pc = "read" => code \subseteq Declared(scanned.types)
    /\ Decided => merged = Merge(truth, scanned, read)
    /\ Decided /\ ~raced => read = before
    /\ pc \in {"mocks", "open_file", "fill_file"} =>
           "spec" \in unflushed \union cut \/ spec = merged
    /\ pc = "return" => \/ "spec" \in unflushed \union cut \/ spec = merged
                        \/ rc = 1 /\ (raced \/ spec = before)
    /\ pc = "done"   => "spec" \in cut \/ spec = merged \/ (rc = 1 /\ (raced \/ spec = before))

\* For those who share the document: once a run has truncated it, it is what the
\* run is writing, until the text is there or the process is killed.
Underway == pc = "write_spec" \/ "spec" \in unflushed
Replaced == pc \in {"write_spec", "mocks", "open_file", "fill_file"} \/ "spec" \in unflushed
Phase ==
    CASE Replaced -> "replaced"
      [] pc = "scan" -> "begun"
      [] pc = "read" -> "looked"
      [] pc = "open_spec" -> "decided"
      [] OTHER -> "idle"
Verdict ==
    CASE pc \in {"return", "done"} /\ ~ Replaced -> IF rc = 0 THEN "succeeded" ELSE "failed"
      [] OTHER -> "none"
Shared == INSTANCE SharedDocument WITH
              Documents <- Doc,
              document  <- IF Underway THEN merged ELSE spec,
              classes   <- CodeTypes,
              phase     <- Phase,
              seen      <- code,
              draft     <- merged,
              whole     <- "spec" \notin cut,
              verdict   <- Verdict

\* ReplacesAtOnce: although a run truncates the document, keeps its text in a
\* buffer and goes on to other files, the document changes as if it was replaced
\* at once, by what keeps the one that was read and has a schema for each class
\* that was scanned (SharedDocument): by a run that succeeds, by one that fails
\* later, never by one that failed before.  Only a kill, or a disk that does not
\* take the text, can leave it broken; after the latter the run may say it
\* succeeded.
ReplacesAtOnce == Shared!Spec

-----------------------------------------------------------------------------
(* What the documentation says of sync, and the code does not do *)

\* "keeping your function bodies, comments, and custom imports intact"
\* (README.md:23): nothing a person wrote into a file is lost.  The code does not
\* keep this: write_generated_files truncates what is there.
EditsSurvive ==
    [][\A f \in Files : disk[f].hand => disk'[f].hand]_vars

\* "code as source of truth" (USAGE.md:52): after a sync with --truth code, the
\* schema of a type is what the developer's file declares.
CodeIsTruth ==
    pc = "done" /\ rc = 0 /\ truth = "code" /\ ~raced =>
        \A f \in CodeFiles : \A n \in Declared(disk[f].types) :
            spec.types[n] = disk[f].types[n]

\* "enabling lossless bidirectional sync" (README.md:563): repeating the sync
\* of code nobody touches leaves its types alone.
RepeatIsLossless ==
    calm >= 2 /\ ~turned => CodeIsTruth
==============================================================================
