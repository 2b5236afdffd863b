------------------------------- MODULE Commands -------------------------------
(***************************************************************************)
(* The commands of cdd-cpp that read a document or a directory and write   *)
(* files: from_openapi, from_google_discovery, from_arazzo, to_openapi,    *)
(* to_arazzo and to_docs_json (sync has a module of its own).  They are    *)
(* run by processes and threads that know nothing of each other, on one    *)
(* file system: each opens its files one by one, which truncates them, and *)
(* its text gets there when the stream is closed.                          *)
(*                                                                         *)
(* What is generated is abstracted to which input it was generated from; a *)
(* tree of generated files has two.                                        *)
(***************************************************************************)
EXTENDS Integers, Sequences, FiniteSets

CONSTANTS Runners,      \* the threads and processes that run commands
          MaxFaults     \* how many files may fail to open or to be written
ASSUME MaxFaultsAssumption == MaxFaults \in Nat

Generators == {"from_openapi", "from_google_discovery", "from_arazzo"}
Extractors == {"to_openapi", "to_arazzo", "to_docs_json"}
\* What -i names; a directory given to from_openapi by --input-dir is never
\* missing nor broken.
Inputs     == {"",          \* none given
               "missing",   \* no such file, or a directory that is none
               "broken",    \* not a document that the command can parse
             \* Its upgraded text does not parse, and to_docs_json reads the result
             \* that is not there: that ends the process, or has it go on.
             "unread", "misread",
               "none",      \* a list of no APIs (Google discovery)
               "one", "two",
               "twins"}     \* two APIs of one title
Args == [command : Generators \cup Extractors, sub : {"to_sdk", "to_openapi", "unknown"},
         input : Inputs, output : STRING]

\* The titles of the APIs that the input of a command describes, in order.  Only
\* from_google_discovery takes a list of APIs.
Titles(args) ==
    LET list == IF args.command = "from_google_discovery" THEN args.input ELSE "one"
    IN CASE list = "none"  -> <<>>
         [] list = "two"   -> <<"a", "b">>
         [] list = "twins" -> <<"a", "a">>
         [] OTHER          -> <<"a">>

Target(file, text) == [file |-> file, text |-> text]
\* write_generated_files, of one API: the files in the order of a std::map.
TreeFiles == <<"CMakeLists.txt", "client.cpp">>
Tree(dir, text) == [i \in DOMAIN TreeFiles |-> Target(Append(dir, TreeFiles[i]), text)]
Single(output, text) == IF output = "" THEN <<>> ELSE <<Target(<<output>>, text)>>

\* The trees of all APIs, each in a directory named by its title if there are
\* several.
GeneratedTrees(args) ==
    LET titles == Titles(args)
        Text(i) == <<args.command, args.input, i>>
        Dir(i) == IF Len(titles) > 1 THEN <<args.output, titles[i]>> ELSE <<args.output>>
    IN [i \in 1..(Len(titles) * Len(TreeFiles)) |->
            LET api == ((i - 1) \div Len(TreeFiles)) + 1
            IN Tree(Dir(api), Text(api))[((i - 1) % Len(TreeFiles)) + 1]]

\* A command that returns 1, or is ended, before it has opened a file.
Refused(args) ==
    \/ args.input \in {"", "missing"}
    \/ args.input \in {"broken", "unread"} /\ args.command \notin {"to_openapi", "to_arazzo"}
    \/ args.input = "misread" /\ args.command \in Generators
    \/ args.command \in {"from_openapi", "from_arazzo"} /\ args.sub # "to_sdk"
    \/ args.command = "from_google_discovery" /\ args.sub = "unknown" /\ args.input # "none"
    \/ args.command = "from_google_discovery" /\ args.sub = "to_openapi" /\ args.input = "none"

\* The files a command writes, and what it writes into them.
Targets(args) ==
    CASE Refused(args) -> <<>>
      [] ~ Refused(args) /\ (args.command \in Extractors \/ args.sub = "to_openapi") ->
             Single(args.output, <<args.command, args.input, 1>>)
      [] OTHER -> GeneratedTrees(args)

VARIABLES fs,       \* what is in the files, of those that were opened
          run,      \* what each runner is running or ran last
          faults

commandVars == <<fs, run, faults>>

\* What is in a file that was truncated, that two runs wrote into, and whose text
\* did not fit on the disk.
EmptyText == <<>>
MixedText == <<"mixed">>
CutText   == <<"cut">>

NoRun == [step |-> "none"]
CommandsInit ==
    /\ fs = <<>>
    /\ run = [w \in Runners |-> NoRun]
    /\ faults = 0

Running(w) == run[w].step \in {"open", "write"}
NextFile(r) == r.targets[r.at]
FilesOf(r) == {r.targets[i].file : i \in DOMAIN r.targets}

\* Up to the first file, or all of the command.  alone: no other run that has a
\* file in common with this one is under way, or has opened such a file since.
Begin(w, args) ==
    /\ ~ Running(w)
    /\ LET targets == Targets(args)
           files == {targets[i].file : i \in DOMAIN targets}
           alone == \A v \in Runners : Running(v) => FilesOf(run[v]) \cap files = {}
       IN run' = [run EXCEPT ![w] =
              [step |-> IF targets = <<>> THEN "ended" ELSE "open", args |-> args, targets |-> targets,
               at |-> 1, rc |-> IF Refused(args) THEN 1 ELSE 0, alone |-> alone, full |-> FALSE]]
    /\ UNCHANGED <<fs, faults>>

Disturbed(w, file) ==
    [v \in Runners |->
        IF v # w /\ run[v] # NoRun /\ file \in FilesOf(run[v]) THEN [run[v] EXCEPT !.alone = FALSE]
        ELSE run[v]]
With(file, text) == [f \in DOMAIN fs \cup {file} |-> IF f = file THEN text ELSE fs[f]]

\* The directories are made and the file is opened and truncated.
Open(w) ==
    /\ run[w].step = "open"
    /\ LET file == NextFile(run[w]).file
       IN /\ fs' = With(file, EmptyText)
          /\ run' = [Disturbed(w, file) EXCEPT ![w].step = "write"]
    /\ UNCHANGED faults

OpenFails(w) ==
    /\ run[w].step = "open"
    /\ faults < MaxFaults
    /\ faults' = faults + 1
    /\ run' = [run EXCEPT ![w].step = "ended", ![w].rc = 1]
    /\ UNCHANGED fs

\* Mutant: the last file is left out.
AdvanceTooFar(w, isFull) ==
    run' = [run EXCEPT ![w].step = IF run[w].at + 1 >= Len(run[w].targets) THEN "ended" ELSE "open",
                       ![w].at = @ + 1, ![w].full = @ \/ isFull]
\* Mutant: it goes on after the last file.
AdvancePast(w, isFull) ==
    run' = [run EXCEPT ![w].step = IF run[w].at > Len(run[w].targets) THEN "ended" ELSE "open",
                       ![w].at = @ + 1, ![w].full = @ \/ isFull]
Advance(w, isFull) ==
    run' = [run EXCEPT ![w].step = IF run[w].at = Len(run[w].targets) THEN "ended" ELSE "open",
                       ![w].at = @ + 1, ![w].full = @ \/ isFull]

\* The text goes to the beginning of the file: where another run has put a
\* longer one meanwhile, its end remains.
Write(w) ==
    /\ run[w].step = "write"
    /\ LET t == NextFile(run[w])
       IN \/ fs' = With(t.file, t.text)
          \/ fs[t.file] \notin {EmptyText, t.text} /\ fs' = With(t.file, MixedText)
    /\ Advance(w, FALSE)
    /\ UNCHANGED faults

\* The disk is full; nobody looks whether writing succeeded.
WriteFails(w) ==
    /\ run[w].step = "write"
    /\ faults < MaxFaults
    /\ faults' = faults + 1
    /\ fs' = With(NextFile(run[w]).file, CutText)
    /\ Advance(w, TRUE)

Proceed(w) == Open(w) \/ OpenFails(w) \/ Write(w) \/ WriteFails(w)

-----------------------------------------------------------------------------
Ended(w, rc) == run[w].step = "ended" /\ run[w].rc = rc
Complete(r) ==
    \A i \in DOMAIN r.targets :
        r.targets[i].file \in DOMAIN fs /\ fs[r.targets[i].file] = r.targets[i].text

CommandsTypeOK ==
    /\ faults \in 0..MaxFaults
    /\ \A w \in Runners :
           /\ run[w].step \in {"none", "open", "write", "ended"}
           /\ Running(w) => run[w].at \in DOMAIN run[w].targets /\ run[w].rc = 0
           /\ run[w].step = "write" => NextFile(run[w]).file \in DOMAIN fs

\* FilesAreComplete: a command that returned 0 has written all its files, each
\* with its own text and nothing else, if no other run with one of them was
\* under way meanwhile, the disk was not full, and no two APIs have one title.
FilesAreComplete ==
    \A w \in Runners :
        Ended(w, 0) /\ run[w].alone /\ ~ run[w].full /\ run[w].args.input # "twins" => Complete(run[w])
===============================================================================
