---------------------------- MODULE CommandsProofs ----------------------------
(***************************************************************************)
(* What every step of a command keeps, for any number of commands that run *)
(* at once: the files that a run has written hold its text as long as no   *)
(* other run has one of them.                                              *)
(***************************************************************************)
EXTENDS Commands, SequenceTheorems, TLAPS

-----------------------------------------------------------------------------
(* The files of a command *)

Distinct(targets) ==
    \A i, j \in DOMAIN targets : targets[i].file = targets[j].file => i = j

LEMMA TitlesFacts ==
    ASSUME NEW args
    PROVE  \/ Titles(args) = <<>> /\ args.command = "from_google_discovery"
           \/ Titles(args) = <<"a">>
           \/ Titles(args) = <<"a", "b">>
           \/ Titles(args) = <<"a", "a">> /\ args.command = "from_google_discovery" /\ args.input = "twins"
  BY DEF Titles

LEMMA TitlesLength ==
    ASSUME NEW args
    PROVE  /\ Len(Titles(args)) \in {0, 1, 2} /\ Len(TreeFiles) = 2
           /\ Len(Titles(args)) = 0 => args.command = "from_google_discovery"
  BY TitlesFacts DEF TreeFiles

\* The directory of the i-th of the trees.
DirOf(args, api) ==
    IF Len(Titles(args)) > 1 THEN <<args.output, Titles(args)[api]>> ELSE <<args.output>>

LEMMA TreesAt ==
    ASSUME NEW args
    PROVE  /\ DOMAIN GeneratedTrees(args) = 1..(2 * Len(Titles(args)))
           /\ Len(GeneratedTrees(args)) = 2 * Len(Titles(args))
           /\ \A api \in 1..Len(Titles(args)), k \in {1, 2} :
                 GeneratedTrees(args)[2 * (api - 1) + k].file = Append(DirOf(args, api), TreeFiles[k])
  <1> DEFINE titles == Titles(args)
             Text(i) == <<args.command, args.input, i>>
             Dir(i) == IF Len(titles) > 1 THEN <<args.output, titles[i]>> ELSE <<args.output>>
             At(i) == Tree(Dir(((i - 1) \div 2) + 1), Text(((i - 1) \div 2) + 1))[((i - 1) % 2) + 1]
  <1>1. Len(titles) \in {0, 1, 2} /\ Len(TreeFiles) = 2 /\ DOMAIN TreeFiles = {1, 2}
    BY TitlesLength DEF TreeFiles
  <1>2. GeneratedTrees(args) = [i \in 1..(Len(titles) * 2) |-> At(i)]
    BY <1>1 DEF GeneratedTrees
  <1>3. Len(titles) * 2 \in Nat /\ Len(titles) * 2 = 2 * Len(titles)
    BY <1>1
  <1>4. ASSUME NEW api \in 1..Len(titles), NEW k \in {1, 2}
        PROVE  /\ 2 * (api - 1) + k \in 1..(Len(titles) * 2)
               /\ ((2 * (api - 1) + k - 1) \div 2) + 1 = api
               /\ ((2 * (api - 1) + k - 1) % 2) + 1 = k
    BY <1>1
  <1>5. ASSUME NEW api \in 1..Len(titles), NEW k \in {1, 2}
        PROVE  Tree(Dir(api), Text(api))[k].file = Append(DirOf(args, api), TreeFiles[k])
    BY <1>1 DEF Tree, Target, DirOf
  <1> HIDE DEF titles, Text, Dir
  <1>6. ASSUME NEW api \in 1..Len(titles), NEW k \in {1, 2}
        PROVE  GeneratedTrees(args)[2 * (api - 1) + k] = Tree(Dir(api), Text(api))[k]
    <2> DEFINE x == 2 * (api - 1) + k
               p == ((x - 1) \div 2) + 1
               q == ((x - 1) % 2) + 1
    <2>1. x \in 1..(Len(titles) * 2) /\ p = api /\ q = k
      BY <1>4
    <2>2. At(x) = Tree(Dir(p), Text(p))[q]
      OBVIOUS
    <2> HIDE DEF x, p, q
    <2>3. GeneratedTrees(args)[x] = At(x)
      BY <1>2, <2>1, Zenon
    <2> HIDE DEF At
    <2>4. GeneratedTrees(args)[x] = Tree(Dir(api), Text(api))[k]
      BY <2>1, <2>2, <2>3, Zenon
    <2> QED
      BY <2>4 DEF x
  <1>7. DOMAIN GeneratedTrees(args) = 1..(2 * Len(titles)) /\ Len(GeneratedTrees(args)) = 2 * Len(titles)
    BY <1>2, <1>3
  <1> QED
    BY <1>5, <1>6, <1>7 DEF titles

LEMMA TreesDistinct ==
    ASSUME NEW args, args.command # "from_google_discovery" \/ args.input # "twins"
    PROVE  Distinct(GeneratedTrees(args))
  <1> DEFINE n == Len(Titles(args))
             S == {args.output, "a", "b", "CMakeLists.txt", "client.cpp"}
  <1>1. n \in {0, 1, 2} /\ (n = 2 => Titles(args) = <<"a", "b">>) /\ (n = 1 => Titles(args) = <<"a">>)
    BY TitlesFacts
  <1>2. ASSUME NEW i \in 1..(2 * n)
        PROVE  \E api \in 1..n, k \in {1, 2} : i = 2 * (api - 1) + k
    <2> HIDE DEF n
    <2>1. CASE i \in {1, 2}
      <3>1. 1 \in 1..n /\ i = 2 * (1 - 1) + i
        BY <1>1, <2>1
      <3> QED
        BY <2>1, <3>1
    <2>2. CASE i \in {3, 4}
      <3>1. 2 \in 1..n /\ i = 2 * (2 - 1) + (i - 2) /\ i - 2 \in {1, 2}
        BY <1>1, <2>2
      <3> QED
        BY <3>1
    <2> QED
      BY <1>1, <2>1, <2>2
  <1>3. ASSUME NEW api \in 1..n
        PROVE  DirOf(args, api) \in Seq(S)
    <2>1. CASE n = 2
      <3>1. Titles(args)[api] \in S /\ args.output \in S
        BY <1>1, <2>1
      <3>2. DirOf(args, api) = <<args.output, Titles(args)[api]>>
        BY <2>1 DEF DirOf
      <3> HIDE DEF S
      <3> QED
        BY <3>1, <3>2
    <2>2. CASE n # 2
      <3>1. DirOf(args, api) = <<args.output>> /\ args.output \in S
        BY <1>1, <2>2 DEF DirOf
      <3> HIDE DEF S
      <3> QED
        BY <3>1
    <2> QED
      BY <2>1, <2>2
  <1>4. \A k \in {1, 2} : TreeFiles[k] \in S
    BY DEF TreeFiles
  <1>5. ASSUME NEW p \in 1..n, NEW q \in 1..n, DirOf(args, p) = DirOf(args, q)
        PROVE  p = q
    BY <1>1, <1>5 DEF DirOf
  <1>6. ASSUME NEW j \in {1, 2}, NEW k \in {1, 2}, TreeFiles[j] = TreeFiles[k]
        PROVE  j = k
    BY <1>6 DEF TreeFiles
  <1>7. ASSUME NEW p \in 1..n, NEW q \in 1..n, NEW j \in {1, 2}, NEW k \in {1, 2},
               Append(DirOf(args, p), TreeFiles[j]) = Append(DirOf(args, q), TreeFiles[k])
        PROVE  p = q /\ j = k
    <2>1. DirOf(args, p) = DirOf(args, q) /\ TreeFiles[j] = TreeFiles[k]
      <3> HIDE DEF n, S
      <3> QED
        BY <1>3, <1>4, <1>7, AppendInjective
    <2> QED
      BY <2>1, <1>5, <1>6
  <1> SUFFICES ASSUME NEW x \in 1..(2 * n), NEW y \in 1..(2 * n),
                      GeneratedTrees(args)[x].file = GeneratedTrees(args)[y].file
               PROVE  x = y
    BY TreesAt DEF Distinct
  <1>8. PICK p \in 1..n, j \in {1, 2} : x = 2 * (p - 1) + j
    BY <1>2
  <1>9. PICK q \in 1..n, k \in {1, 2} : y = 2 * (q - 1) + k
    BY <1>2
  <1>10. Append(DirOf(args, p), TreeFiles[j]) = Append(DirOf(args, q), TreeFiles[k])
    <2>1. GeneratedTrees(args)[x].file = Append(DirOf(args, p), TreeFiles[j])
      BY <1>8, TreesAt
    <2>2. GeneratedTrees(args)[y].file = Append(DirOf(args, q), TreeFiles[k])
      BY <1>9, TreesAt
    <2> HIDE DEF n, S
    <2> QED
      BY <2>1, <2>2
  <1> QED
    BY <1>7, <1>8, <1>9, <1>10

\* A command has a sequence of files; they are not empty when from_openapi was not
\* refused, and different but for two APIs of one title.
LEMMA TargetsFacts ==
    ASSUME NEW args
    PROVE  /\ Len(Targets(args)) \in Nat /\ DOMAIN Targets(args) = 1..Len(Targets(args))
           /\ Targets(args) = <<>> <=> Len(Targets(args)) = 0
           /\ args.command # "from_google_discovery" \/ args.input # "twins" => Distinct(Targets(args))
           /\ args.command = "from_openapi" /\ ~ Refused(args) => Targets(args) # <<>>
  <1>1. Targets(args) = <<>> \/ Targets(args) = GeneratedTrees(args)
        \/ \E t : Targets(args) = <<t>>
    BY DEF Targets, Single
  <1>2. CASE Targets(args) = <<>>
    <2>1. ~ (args.command = "from_openapi" /\ ~ Refused(args))
      <3> SUFFICES ASSUME args.command = "from_openapi", ~ Refused(args) PROVE FALSE
        OBVIOUS
      <3>1. args.sub = "to_sdk" /\ args.command \notin Extractors
        BY DEF Refused, Extractors
      <3>2. Targets(args) = GeneratedTrees(args)
        BY <3>1 DEF Targets
      <3>3. Len(GeneratedTrees(args)) = 2 * Len(Titles(args)) /\ Len(Titles(args)) \in {1, 2}
        BY TreesAt, TitlesLength
      <3> QED
        BY <1>2, <3>2, <3>3
    <2> QED
      BY <1>2, <2>1 DEF Distinct
  <1>3. CASE Targets(args) = GeneratedTrees(args)
    <2>1. /\ DOMAIN GeneratedTrees(args) = 1..(2 * Len(Titles(args)))
          /\ Len(GeneratedTrees(args)) = 2 * Len(Titles(args))
          /\ Len(Titles(args)) \in {0, 1, 2}
          /\ Len(Titles(args)) = 0 => args.command = "from_google_discovery"
      BY TreesAt, TitlesLength
    <2>2. Len(GeneratedTrees(args)) = 0 => GeneratedTrees(args) = <<>>
      BY <2>1 DEF GeneratedTrees
    <2> QED
      BY <1>3, <2>1, <2>2, TreesDistinct
  <1>4. ASSUME NEW t, Targets(args) = <<t>> PROVE
           /\ Len(Targets(args)) \in Nat /\ DOMAIN Targets(args) = 1..Len(Targets(args))
           /\ Targets(args) # <<>> /\ Len(Targets(args)) # 0 /\ Distinct(Targets(args))
    BY <1>4 DEF Distinct
  <1> QED
    BY <1>1, <1>2, <1>3, <1>4

-----------------------------------------------------------------------------
(* The invariant *)

Shaped(r) ==
    r = [step |-> r.step, args |-> r.args, targets |-> r.targets, at |-> r.at,
         rc |-> r.rc, alone |-> r.alone, full |-> r.full]

\* A run goes through the files of its command, and returns 0 when it is through.
RunOK(r) ==
    /\ Shaped(r)
    /\ r.step \in {"open", "write", "ended"}
    /\ r.targets = Targets(r.args)
    /\ r.at \in 1..(Len(r.targets) + 1)
    /\ r.rc \in {0, 1} /\ r.alone \in BOOLEAN /\ r.full \in BOOLEAN
    /\ r.step # "ended" => r.at <= Len(r.targets) /\ r.rc = 0
    /\ r.step = "ended" /\ r.rc = 0 => r.at = Len(r.targets) + 1
    /\ r.rc = 0 => ~ Refused(r.args)

RunsOK ==
    /\ run = [w \in Runners |-> run[w]]
    /\ \A w \in Runners : run[w] = NoRun \/ RunOK(run[w])

\* A run that nothing has come in the way of.
Undisturbed(r) == r.alone /\ ~ r.full /\ Distinct(r.targets)

\* What such a run has written is there, and the file it has open is empty.
HoldsIn(files, target) == target.file \in DOMAIN files /\ files[target.file] = target.text
OpenIn(files, r) == r.step = "write" => NextFile(r).file \in DOMAIN files
WrittenIn(files, r) ==
    /\ \A i \in 1..(r.at - 1) : HoldsIn(files, r.targets[i])
    /\ r.step = "write" => files[NextFile(r).file] = EmptyText

Opened  == \A w \in Runners : OpenIn(fs, run[w])
Written == \A w \in Runners : run[w] # NoRun /\ Undisturbed(run[w]) => WrittenIn(fs, run[w])

\* Nobody has a file open of a run that is alone.
Apart ==
    \A v, w \in Runners :
        /\ v # w /\ run[v].step = "write" /\ run[w] # NoRun /\ run[w].alone
        => NextFile(run[v]).file \notin FilesOf(run[w])

CommandsInv ==
    /\ faults \in 0..MaxFaults
    /\ RunsOK /\ Opened /\ Written /\ Apart

-----------------------------------------------------------------------------
(* What the steps do to a run *)

LEMMA NoRunFacts ==
    /\ NoRun.step = "none"
    /\ \A r : RunOK(r) => r # NoRun
  BY DEF NoRun, RunOK

LEMMA RunFacts ==
    ASSUME NEW r, RunOK(r)
    PROVE  /\ Len(r.targets) \in Nat /\ DOMAIN r.targets = 1..Len(r.targets)
           /\ r.at \in Nat /\ \A i \in 1..(r.at - 1) : i \in DOMAIN r.targets /\ i # r.at
           /\ r.step # "ended" => r.at \in DOMAIN r.targets
  <1>1. r.targets = Targets(r.args) /\ r.at \in 1..(Len(r.targets) + 1)
        /\ (r.step # "ended" => r.at <= Len(r.targets))
    BY DEF RunOK
  <1>2. Len(r.targets) \in Nat /\ DOMAIN r.targets = 1..Len(r.targets)
    BY <1>1, TargetsFacts
  <1> QED
    BY <1>1, <1>2

\* The fields that an assignment does not name stay.
Agree(q, r, but) ==
    /\ Shaped(q)
    /\ \/ "step" \in but \/ q.step = r.step
    /\ q.args = r.args /\ q.targets = r.targets
    /\ \/ "at" \in but \/ q.at = r.at
    /\ \/ "rc" \in but \/ q.rc = r.rc
    /\ \/ "alone" \in but \/ q.alone = r.alone
    /\ \/ "full" \in but \/ q.full = r.full

LEMMA OneFieldStays ==
    ASSUME NEW r, Shaped(r), NEW x
    PROVE  /\ Agree([r EXCEPT !.step = x], r, {"step"}) /\ [r EXCEPT !.step = x].step = x
           /\ Agree([r EXCEPT !.at = x], r, {"at"}) /\ [r EXCEPT !.at = x].at = x
           /\ Agree([r EXCEPT !.rc = x], r, {"rc"}) /\ [r EXCEPT !.rc = x].rc = x
           /\ Agree([r EXCEPT !.alone = x], r, {"alone"}) /\ [r EXCEPT !.alone = x].alone = x
           /\ Agree([r EXCEPT !.full = x], r, {"full"}) /\ [r EXCEPT !.full = x].full = x
  <1>1. Agree([r EXCEPT !.step = x], r, {"step"}) /\ [r EXCEPT !.step = x].step = x
    BY SMT DEF Agree, Shaped
  <1>2. Agree([r EXCEPT !.at = x], r, {"at"}) /\ [r EXCEPT !.at = x].at = x
    BY SMT DEF Agree, Shaped
  <1>3. Agree([r EXCEPT !.rc = x], r, {"rc"}) /\ [r EXCEPT !.rc = x].rc = x
    BY SMT DEF Agree, Shaped
  <1>4. Agree([r EXCEPT !.alone = x], r, {"alone"}) /\ [r EXCEPT !.alone = x].alone = x
    BY SMT DEF Agree, Shaped
  <1>5. Agree([r EXCEPT !.full = x], r, {"full"}) /\ [r EXCEPT !.full = x].full = x
    BY SMT DEF Agree, Shaped
  <1> QED
    BY <1>1, <1>2, <1>3, <1>4, <1>5

Stopped(r, s, c) == [r EXCEPT !.step = s, !.rc = c]
Stepped(r, s, a, f) == [r EXCEPT !.step = s, !.at = a, !.full = f]

LEMMA StoppedStays ==
    ASSUME NEW r, Shaped(r), NEW s, NEW c, NEW q, q = Stopped(r, s, c)
    PROVE  Agree(q, r, {"step", "rc"}) /\ q.step = s /\ q.rc = c
  <1> DEFINE p == [r EXCEPT !.step = s]
             n == [p EXCEPT !.rc = c]
  <1>1. q = n
    BY Zenon DEF Stopped
  <1>2. Agree(p, r, {"step"}) /\ p.step = s
    BY OneFieldStays, Zenon
  <1> HIDE DEF p
  <1>3. Shaped(p)
    BY <1>2 DEF Agree
  <1>4. Agree(n, p, {"rc"}) /\ n.rc = c
    BY <1>3, OneFieldStays, Zenon
  <1> HIDE DEF n
  <1> QED
    BY <1>1, <1>2, <1>4 DEF Agree

LEMMA SteppedStays ==
    ASSUME NEW r, Shaped(r), NEW s, NEW a, NEW f, NEW q, q = Stepped(r, s, a, f)
    PROVE  Agree(q, r, {"step", "at", "full"}) /\ q.step = s /\ q.at = a /\ q.full = f
  <1> DEFINE p == [r EXCEPT !.step = s]
             o == [p EXCEPT !.at = a]
             n == [o EXCEPT !.full = f]
  <1>1. q = n
    BY Zenon DEF Stepped
  <1>2. Agree(p, r, {"step"}) /\ p.step = s
    BY OneFieldStays, Zenon
  <1> HIDE DEF p
  <1>3. Shaped(p)
    BY <1>2 DEF Agree
  <1>4. Agree(o, p, {"at"}) /\ o.at = a
    BY <1>3, OneFieldStays, Zenon
  <1> HIDE DEF o
  <1>5. Shaped(o)
    BY <1>4 DEF Agree
  <1>6. Agree(n, o, {"full"}) /\ n.full = f
    BY <1>5, OneFieldStays, Zenon
  <1> HIDE DEF n
  <1> QED
    BY <1>1, <1>2, <1>4, <1>6 DEF Agree

\* A text that is put elsewhere leaves what a run has written.
LEMMA TextStays ==
    ASSUME NEW files, NEW g, NEW x, NEW now,
           now = [f \in DOMAIN files \cup {g} |-> IF f = g THEN x ELSE files[f]],
           NEW r, RunOK(r), OpenIn(files, r)
    PROVE  /\ OpenIn(now, r)
           /\ WrittenIn(files, r) /\ g \notin FilesOf(r) => WrittenIn(now, r)
  <1>1. \A f \in DOMAIN files : f \in DOMAIN now /\ (f # g => now[f] = files[f])
    OBVIOUS
  <1>2. OpenIn(now, r)
    BY <1>1 DEF OpenIn
  <1>3. ASSUME WrittenIn(files, r), g \notin FilesOf(r) PROVE WrittenIn(now, r)
    <2>1. \A i \in DOMAIN r.targets : r.targets[i].file # g
      BY <1>3 DEF FilesOf
    <2>2. \A i \in 1..(r.at - 1) : HoldsIn(now, r.targets[i])
      BY <1>1, <1>3, <2>1, RunFacts DEF WrittenIn, HoldsIn
    <2>3. ASSUME r.step = "write" PROVE now[NextFile(r).file] = EmptyText
      <3>1. r.at \in DOMAIN r.targets
        BY <2>3, RunFacts
      <3> QED
        BY <1>1, <1>3, <2>1, <2>3, <3>1 DEF WrittenIn, OpenIn, NextFile
    <2> QED
      BY <2>2, <2>3 DEF WrittenIn
  <1> QED
    BY <1>2, <1>3

\* A run that another one may have disturbed is the same but for that.
SameRun(r, q) == Agree(q, r, {"alone"}) /\ q.alone \in BOOLEAN /\ (q.alone => r.alone)

LEMMA SameRunFacts ==
    ASSUME NEW r, RunOK(r), NEW q, SameRun(r, q)
    PROVE  /\ RunOK(q) /\ FilesOf(q) = FilesOf(r) /\ NextFile(q) = NextFile(r)
           /\ Undisturbed(q) => Undisturbed(r)
           /\ \A files : /\ OpenIn(files, r) => OpenIn(files, q)
                         /\ WrittenIn(files, r) => WrittenIn(files, q)
  BY DEF SameRun, Agree, RunOK, FilesOf, NextFile, Undisturbed, OpenIn, WrittenIn

-----------------------------------------------------------------------------
(* Every step keeps the invariant *)

LEMMA CommandsInvInit == CommandsInit => CommandsInv
  <1> SUFFICES ASSUME CommandsInit PROVE CommandsInv
    OBVIOUS
  <1>1. \A w \in Runners : run[w] = NoRun /\ run[w].step = "none"
    BY NoRunFacts DEF CommandsInit
  <1>2. faults \in 0..MaxFaults
    BY MaxFaultsAssumption DEF CommandsInit
  <1>3. run = [w \in Runners |-> run[w]]
    BY DEF CommandsInit
  <1> QED
    BY <1>1, <1>2, <1>3 DEF CommandsInv, RunsOK, Opened, OpenIn, Written, Apart

\* When the files stay, and one runner has another run than before.
LEMMA BeginKeeps ==
    ASSUME CommandsInv, NEW w \in Runners, NEW args, Begin(w, args)
    PROVE  /\ CommandsInv' /\ run'[w].args = args /\ run'[w] # NoRun
           /\ \A v \in Runners : v # w => run'[v] = run[v]
  <1> DEFINE targets == Targets(args)
             files == {targets[i].file : i \in DOMAIN targets}
             alone == \A v \in Runners : Running(v) => FilesOf(run[v]) \cap files = {}
             r == [step |-> IF targets = <<>> THEN "ended" ELSE "open", args |-> args,
                   targets |-> targets, at |-> 1, rc |-> IF Refused(args) THEN 1 ELSE 0,
                   alone |-> alone, full |-> FALSE]
  <1>1. run' = [run EXCEPT ![w] = r] /\ UNCHANGED <<fs, faults>>
    BY DEF Begin
  <1>2. run'[w] = r /\ \A v \in Runners : v # w => run'[v] = run[v]
    BY <1>1 DEF CommandsInv, RunsOK
  <1>3. /\ r.step = (IF targets = <<>> THEN "ended" ELSE "open") /\ r.args = args
        /\ r.targets = targets /\ r.at = 1 /\ r.rc = (IF Refused(args) THEN 1 ELSE 0)
        /\ r.full = FALSE /\ Shaped(r) /\ alone \in BOOLEAN
    BY DEF Shaped
  <1>4. r.alone = alone
    OBVIOUS
  <1> HIDE DEF r
  <1>5. RunOK(r)
    <2>1. Len(targets) \in Nat /\ (targets = <<>> <=> Len(targets) = 0)
      BY TargetsFacts
    <2>2. r.targets = Targets(r.args) /\ r.alone \in BOOLEAN
      BY <1>3, <1>4
    <2> HIDE DEF targets, alone
    <2>3. r.at \in 1..(Len(r.targets) + 1)
      BY <1>3, <2>1
    <2>4. r.step # "ended" => r.at <= Len(r.targets) /\ r.rc = 0
      <3>1. Refused(args) => targets = <<>>
        BY DEF targets, Targets
      <3> QED
        BY <1>3, <2>1, <3>1
    <2>5. r.step = "ended" /\ r.rc = 0 => r.at = Len(r.targets) + 1
      BY <1>3, <2>1
    <2>6. r.step \in {"open", "write", "ended"} /\ r.rc \in {0, 1} /\ r.full \in BOOLEAN
      BY <1>3
    <2>7. r.rc = 0 => ~ Refused(r.args)
      BY <1>3
    <2> QED
      BY ONLY <1>3, <2>2, <2>3, <2>4, <2>5, <2>6, <2>7 DEF RunOK
  <1>6. RunsOK'
    BY <1>1, <1>2, <1>5 DEF CommandsInv, RunsOK
  <1>7. OpenIn(fs, r) /\ WrittenIn(fs, r) /\ r.step # "write"
    BY <1>3 DEF OpenIn, WrittenIn
  <1>8. Opened' /\ Written'
    BY <1>1, <1>2, <1>7 DEF CommandsInv, Opened, Written
  <1>9. Apart'
    <2> SUFFICES ASSUME NEW u \in Runners, NEW v \in Runners, u # v, run'[u].step = "write",
                        run'[v] # NoRun, run'[v].alone
                 PROVE  NextFile(run'[u]).file \notin FilesOf(run'[v])
      BY DEF Apart
    <2>1. u # w
      BY <1>2, <1>7
    <2>2. CASE v # w
      BY <1>2, <2>1, <2>2 DEF CommandsInv, Apart
    <2>3. CASE v = w
      <3>1. run[u].step = "write" /\ run'[u] = run[u]
        BY <1>2, <2>1
      <3>2. RunOK(run[u])
        BY <3>1, NoRunFacts DEF CommandsInv, RunsOK
      <3>3. NextFile(run[u]).file \in FilesOf(run[u])
        BY <3>1, <3>2, RunFacts DEF FilesOf, NextFile
      <3>4. FilesOf(run[u]) \cap files = {}
        BY <1>2, <1>4, <2>3, <3>1 DEF Running
      <3>5. FilesOf(r) = files
        BY <1>3 DEF FilesOf
      <3> QED
        BY <1>2, <2>3, <3>1, <3>3, <3>4, <3>5
    <2> QED
      BY <2>2, <2>3
  <1> QED
    BY <1>1, <1>2, <1>3, <1>5, <1>6, <1>8, <1>9, NoRunFacts DEF CommandsInv

\* A thread of the server forgets the run it answered with.
LEMMA ForgetKeeps ==
    ASSUME CommandsInv, NEW w \in Runners, run' = [run EXCEPT ![w] = NoRun], UNCHANGED <<fs, faults>>
    PROVE  CommandsInv'
  <1>1. run'[w] = NoRun /\ \A v \in Runners : v # w => run'[v] = run[v]
    BY DEF CommandsInv, RunsOK
  <1>2. run' = [v \in Runners |-> run'[v]]
    BY DEF CommandsInv, RunsOK
  <1>3. NoRun.step # "write"
    BY NoRunFacts
  <1>4. RunsOK'
    BY <1>1, <1>2 DEF CommandsInv, RunsOK
  <1>5. Opened' /\ Written'
    BY <1>1, <1>3 DEF CommandsInv, Opened, OpenIn, Written
  <1>6. Apart'
    BY <1>1, <1>3 DEF CommandsInv, Apart
  <1> QED
    BY <1>4, <1>5, <1>6 DEF CommandsInv

\* Something else fails.
LEMMA FaultKeeps ==
    ASSUME CommandsInv, UNCHANGED <<fs, run>>, faults < MaxFaults, faults' = faults + 1
    PROVE  CommandsInv'
  <1>1. faults' \in 0..MaxFaults
    BY MaxFaultsAssumption DEF CommandsInv
  <1> QED
    BY <1>1 DEF CommandsInv, RunsOK, Opened, Written, Apart

LEMMA CommandsUntouched == CommandsInv /\ UNCHANGED commandVars => CommandsInv'
  BY DEF CommandsInv, commandVars, RunsOK, Opened, Written, Apart

\* The others when w opens or writes its file, g: who has it too is not alone.
LEMMA OthersKeep ==
    ASSUME CommandsInv, NEW v \in Runners, run[v] # NoRun, NEW g, NEW x, fs' = With(g, x),
           NEW q, q = run[v] \/ SameRun(run[v], q), q.alone => g \notin FilesOf(run[v])
    PROVE  /\ RunOK(q) /\ OpenIn(fs', q) /\ (Undisturbed(q) => WrittenIn(fs', q))
           /\ q.step = run[v].step /\ FilesOf(q) = FilesOf(run[v]) /\ NextFile(q) = NextFile(run[v])
           /\ q.alone => run[v].alone
           /\ q.args = run[v].args
  <1>1. RunOK(run[v]) /\ OpenIn(fs, run[v]) /\ (Undisturbed(run[v]) => WrittenIn(fs, run[v]))
    BY DEF CommandsInv, RunsOK, Opened, Written
  <1>2. /\ RunOK(q) /\ FilesOf(q) = FilesOf(run[v]) /\ NextFile(q) = NextFile(run[v])
        /\ q.step = run[v].step /\ q.args = run[v].args /\ (q.alone => run[v].alone)
        /\ (Undisturbed(q) => Undisturbed(run[v]))
        /\ OpenIn(fs, q) /\ (WrittenIn(fs, run[v]) => WrittenIn(fs, q))
    BY <1>1, SameRunFacts DEF SameRun, Agree
  <1>3. fs' = [f \in DOMAIN fs \cup {g} |-> IF f = g THEN x ELSE fs[f]]
    BY DEF With
  <1>4. OpenIn(fs', q) /\ (WrittenIn(fs, q) /\ g \notin FilesOf(q) => WrittenIn(fs', q))
    BY <1>2, <1>3, TextStays
  <1>5. Undisturbed(q) => q.alone
    BY DEF Undisturbed
  <1> QED
    BY <1>1, <1>2, <1>4, <1>5

LEMMA Puts ==
    ASSUME NEW files, NEW g, NEW x, NEW now,
           now = [f \in DOMAIN files \cup {g} |-> IF f = g THEN x ELSE files[f]]
    PROVE  /\ g \in DOMAIN now /\ now[g] = x
           /\ \A f \in DOMAIN files : f \in DOMAIN now /\ (f # g => now[f] = files[f])
  OBVIOUS

\* What each runner was asked to do stays while it goes on.
AskedStays ==
    \A v \in Runners : run[v] # NoRun => run'[v] # NoRun /\ run'[v].args = run[v].args

LEMMA OpenKeeps == ASSUME CommandsInv, NEW w \in Runners, Open(w) PROVE CommandsInv' /\ AskedStays
  <1> DEFINE g == NextFile(run[w]).file
             D == Disturbed(w, g)
  <1>1. /\ run[w].step = "open" /\ fs' = With(g, EmptyText) /\ faults' = faults
        /\ run' = [D EXCEPT ![w].step = "write"]
    BY DEF Open
  <1>2. run[w] # NoRun /\ RunOK(run[w]) /\ run[w].at \in DOMAIN run[w].targets
    BY <1>1, NoRunFacts, RunFacts DEF CommandsInv, RunsOK
  <1>3. /\ D = [v \in Runners |-> D[v]] /\ D[w] = run[w]
        /\ \A v \in Runners : v # w =>
              D[v] = IF run[v] # NoRun /\ g \in FilesOf(run[v]) THEN [run[v] EXCEPT !.alone = FALSE]
                     ELSE run[v]
    BY DEF Disturbed
  <1> HIDE DEF D
  <1>4. /\ run' = [v \in Runners |-> run'[v]]
        /\ run'[w] = [run[w] EXCEPT !.step = "write"]
        /\ \A v \in Runners : v # w => run'[v] = D[v]
    BY <1>1, <1>3
  <1>5. Agree(run'[w], run[w], {"step"}) /\ run'[w].step = "write"
    <2>1. Shaped(run[w])
      BY <1>2 DEF RunOK
    <2> DEFINE r == run[w]
    <2>2. Agree([r EXCEPT !.step = "write"], r, {"step"}) /\ [r EXCEPT !.step = "write"].step = "write"
      BY <2>1, OneFieldStays, Zenon
    <2> QED
      BY <1>4, <2>2, Zenon
  <1>6. /\ RunOK(run'[w]) /\ FilesOf(run'[w]) = FilesOf(run[w]) /\ NextFile(run'[w]) = NextFile(run[w])
        /\ run'[w].alone = run[w].alone /\ (Undisturbed(run'[w]) => Undisturbed(run[w]))
        /\ run'[w].at = run[w].at /\ run'[w].targets = run[w].targets
    <2>1. run[w].at <= Len(run[w].targets) /\ run[w].rc = 0
      BY <1>1, <1>2 DEF RunOK
    <2> QED
      BY <1>2, <1>5, <2>1 DEF Agree, RunOK, FilesOf, NextFile, Undisturbed
  <1>7. g \in FilesOf(run[w])
    BY <1>2 DEF FilesOf, NextFile
  <1>8. g \in DOMAIN fs' /\ fs'[g] = EmptyText
        /\ \A f \in DOMAIN fs : f \in DOMAIN fs' /\ (f # g => fs'[f] = fs[f])
    BY <1>1, Puts DEF With
  <1>9. OpenIn(fs', run'[w])
    BY <1>6, <1>8 DEF OpenIn
  <1>10. Undisturbed(run'[w]) => WrittenIn(fs', run'[w])
    <2> SUFFICES ASSUME Undisturbed(run'[w])
                 PROVE  \A i \in 1..(run[w].at - 1) : HoldsIn(fs', run[w].targets[i])
      BY <1>6, <1>8 DEF WrittenIn
    <2> TAKE i \in 1..(run[w].at - 1)
    <2>1. i \in DOMAIN run[w].targets /\ i # run[w].at
      BY <1>2, RunFacts
    <2>2. Undisturbed(run[w])
      BY <1>6
    <2>3. run[w].targets[i].file # g
      BY <1>2, <2>1, <2>2 DEF Undisturbed, Distinct, NextFile
    <2>4. HoldsIn(fs, run[w].targets[i])
      BY <1>2, <2>2 DEF CommandsInv, Written, WrittenIn
    <2> QED
      BY <1>8, <2>3, <2>4 DEF HoldsIn
  <1>11. ASSUME NEW v \in Runners, v # w, run[v] # NoRun
         PROVE  /\ RunOK(run'[v]) /\ OpenIn(fs', run'[v])
                /\ Undisturbed(run'[v]) => WrittenIn(fs', run'[v])
                /\ run'[v].step = run[v].step /\ run'[v].args = run[v].args
                /\ FilesOf(run'[v]) = FilesOf(run[v])
                /\ NextFile(run'[v]) = NextFile(run[v])
                /\ run'[v].alone => run[v].alone /\ g \notin FilesOf(run[v])
    <2>1. RunOK(run[v])
      BY <1>11 DEF CommandsInv, RunsOK
    <2>2. CASE g \in FilesOf(run[v])
      <3>1. run'[v] = [run[v] EXCEPT !.alone = FALSE]
        BY <1>3, <1>4, <1>11, <2>2
      <3>2. Agree(run'[v], run[v], {"alone"}) /\ run'[v].alone = FALSE
        <4>1. Shaped(run[v])
          BY <2>1 DEF RunOK
        <4> DEFINE r == run[v]
        <4>2. Agree([r EXCEPT !.alone = FALSE], r, {"alone"}) /\ [r EXCEPT !.alone = FALSE].alone = FALSE
          BY <4>1, OneFieldStays, Zenon
        <4> QED
          BY <3>1, <4>2, Zenon
      <3>3. SameRun(run[v], run'[v])
        BY <3>2 DEF SameRun
      <3> HIDE DEF g
      <3> QED
        BY <1>1, <1>11, <3>2, <3>3, OthersKeep
    <2>3. CASE g \notin FilesOf(run[v])
      <3>1. run'[v] = run[v]
        BY <1>3, <1>4, <1>11, <2>3
      <3> HIDE DEF g
      <3> QED
        BY <1>1, <1>11, <2>3, <3>1, OthersKeep
    <2> QED
      BY <2>2, <2>3
  <1>12. ASSUME NEW v \in Runners, v # w, run[v] = NoRun PROVE run'[v] = NoRun
    BY <1>3, <1>4, <1>12
  <1> HIDE DEF g
  <1>13. RunsOK'
    BY <1>4, <1>6, <1>11, <1>12 DEF RunsOK
  <1>14. Opened'
    BY <1>9, <1>11, <1>12, NoRunFacts DEF Opened, OpenIn
  <1>15. Written'
    BY <1>10, <1>11, <1>12 DEF Written
  <1>16. Apart'
    <2> SUFFICES ASSUME NEW u \in Runners, NEW v \in Runners, u # v, run'[u].step = "write",
                        run'[v] # NoRun, run'[v].alone
                 PROVE  NextFile(run'[u]).file \notin FilesOf(run'[v])
      BY DEF Apart
    <2>1. run[v] # NoRun /\ run[v].alone /\ FilesOf(run'[v]) = FilesOf(run[v])
      BY <1>2, <1>6, <1>11, <1>12
    <2>2. CASE u = w
      BY <1>6, <1>11, <2>1, <2>2 DEF g
    <2>3. CASE u # w
      <3>1. run[u] # NoRun /\ run[u].step = "write" /\ NextFile(run'[u]) = NextFile(run[u])
        BY <1>11, <1>12, <2>3, NoRunFacts
      <3> QED
        BY <2>1, <3>1 DEF CommandsInv, Apart
    <2> QED
      BY <2>2, <2>3
  <1>17. AskedStays
    <2>1. run'[w].args = run[w].args /\ run'[w] # NoRun
      BY <1>5, <1>6, NoRunFacts DEF Agree
    <2>2. \A v \in Runners : v # w /\ run[v] # NoRun => run'[v].args = run[v].args /\ run'[v] # NoRun
      BY <1>11, NoRunFacts
    <2> QED
      BY <2>1, <2>2 DEF AskedStays
  <1> QED
    BY <1>1, <1>13, <1>14, <1>15, <1>16, <1>17 DEF CommandsInv

LEMMA OpenFailsKeeps ==
    ASSUME CommandsInv, NEW w \in Runners, OpenFails(w)
    PROVE  CommandsInv' /\ AskedStays
  <1>1. /\ run[w].step = "open" /\ fs' = fs /\ faults < MaxFaults /\ faults' = faults + 1
        /\ run' = [run EXCEPT ![w].step = "ended", ![w].rc = 1]
    BY DEF OpenFails
  <1>2. run[w] # NoRun /\ RunOK(run[w]) /\ Shaped(run[w])
    BY <1>1, NoRunFacts DEF CommandsInv, RunsOK, RunOK
  <1>3. /\ run' = [v \in Runners |-> run'[v]]
        /\ run'[w] = [run[w] EXCEPT !.step = "ended", !.rc = 1]
        /\ \A v \in Runners : v # w => run'[v] = run[v]
    BY <1>1 DEF CommandsInv, RunsOK
  <1>4. Agree(run'[w], run[w], {"step", "rc"}) /\ run'[w].step = "ended" /\ run'[w].rc = 1
    <2>1. run'[w] = Stopped(run[w], "ended", 1)
      BY <1>3, Zenon DEF Stopped
    <2> QED
      BY <1>2, <2>1, StoppedStays
  <1>5. /\ RunOK(run'[w]) /\ FilesOf(run'[w]) = FilesOf(run[w])
        /\ run'[w].alone = run[w].alone /\ (Undisturbed(run'[w]) => Undisturbed(run[w]))
        /\ run'[w].at = run[w].at /\ run'[w].targets = run[w].targets
    BY <1>2, <1>4 DEF Agree, RunOK, FilesOf, Undisturbed
  <1>6. faults' \in 0..MaxFaults
    BY <1>1, MaxFaultsAssumption DEF CommandsInv
  <1>7. RunsOK'
    BY <1>3, <1>5 DEF CommandsInv, RunsOK
  <1>8. Opened'
    BY <1>1, <1>3, <1>4 DEF CommandsInv, Opened, OpenIn
  <1>9. Written'
    BY <1>1, <1>2, <1>3, <1>4, <1>5 DEF CommandsInv, Written, WrittenIn
  <1>10. Apart'
    BY <1>2, <1>3, <1>4, <1>5 DEF CommandsInv, Apart
  <1>11. AskedStays
    BY <1>3, <1>4, <1>5, NoRunFacts DEF AskedStays, Agree
  <1> QED
    BY <1>6, <1>7, <1>8, <1>9, <1>10, <1>11 DEF CommandsInv

\* A stream is closed, with the text x in the file; the text of the run if it was
\* not disturbed.
LEMMA AdvanceKeeps ==
    ASSUME CommandsInv, NEW w \in Runners, run[w].step = "write", NEW isFull \in BOOLEAN, NEW x,
           fs' = With(NextFile(run[w]).file, x), Advance(w, isFull), faults' \in 0..MaxFaults,
           Undisturbed(run[w]) /\ ~ isFull => x = NextFile(run[w]).text
    PROVE  CommandsInv' /\ AskedStays
  <1> DEFINE g == NextFile(run[w]).file
             step == IF run[w].at = Len(run[w].targets) THEN "ended" ELSE "open"
  <1>1. run' = [run EXCEPT ![w].step = step, ![w].at = @ + 1, ![w].full = @ \/ isFull]
    BY DEF Advance
  <1>2. run[w] # NoRun /\ RunOK(run[w]) /\ Shaped(run[w]) /\ run[w].at \in DOMAIN run[w].targets
    BY NoRunFacts, RunFacts DEF CommandsInv, RunsOK, RunOK
  <1>3. /\ run' = [v \in Runners |-> run'[v]]
        /\ run'[w] = [run[w] EXCEPT !.step = step, !.at = run[w].at + 1, !.full = run[w].full \/ isFull]
        /\ \A v \in Runners : v # w => run'[v] = run[v]
    <2> HIDE DEF step
    <2> QED
      BY <1>1 DEF CommandsInv, RunsOK
  <1>4. /\ Agree(run'[w], run[w], {"step", "at", "full"}) /\ run'[w].step = step
        /\ run'[w].at = run[w].at + 1 /\ run'[w].full = (run[w].full \/ isFull)
    <2> HIDE DEF step
    <2>1. run'[w] = Stepped(run[w], step, run[w].at + 1, run[w].full \/ isFull)
      BY <1>3, Zenon DEF Stepped
    <2> QED
      BY <1>2, <2>1, SteppedStays
  <1>5. /\ run'[w].step \in {"open", "ended"}
        /\ run'[w].targets = run[w].targets /\ FilesOf(run'[w]) = FilesOf(run[w])
        /\ run'[w].alone = run[w].alone
        /\ Undisturbed(run'[w]) => Undisturbed(run[w]) /\ ~ isFull
    BY <1>2, <1>4 DEF Agree, RunOK, FilesOf, Undisturbed
  <1>6. RunOK(run'[w])
    <2>1. /\ run[w].at \in Nat /\ Len(run[w].targets) \in Nat
          /\ run[w].at <= Len(run[w].targets) /\ run[w].rc = 0 /\ ~ Refused(run[w].args)
      BY <1>2, RunFacts DEF RunOK
    <2>2. run[w].at + 1 \in 1..(Len(run[w].targets) + 1)
      BY <2>1
    <2>3. run'[w].step = "ended" => run'[w].at = Len(run'[w].targets) + 1
      BY <1>4, <1>5
    <2>4. run'[w].step # "ended" => run'[w].at <= Len(run'[w].targets)
      BY <1>4, <1>5, <2>1
    <2> HIDE DEF step
    <2> QED
      BY <1>2, <1>4, <1>5, <2>1, <2>2, <2>3, <2>4 DEF Agree, RunOK
  <1>7. g \in DOMAIN fs' /\ fs'[g] = x
        /\ \A f \in DOMAIN fs : f \in DOMAIN fs' /\ (f # g => fs'[f] = fs[f])
    BY Puts DEF With
  <1>8. Undisturbed(run'[w]) => WrittenIn(fs', run'[w])
    <2> SUFFICES ASSUME Undisturbed(run'[w]), NEW i \in 1..run[w].at
                 PROVE  HoldsIn(fs', run[w].targets[i])
      <3>1. run'[w].at - 1 = run[w].at
        BY <1>2, <1>4, RunFacts
      <3> QED
        BY <1>5, <3>1 DEF WrittenIn
    <2>1. Undisturbed(run[w]) /\ ~ isFull
      BY <1>5
    <2>2. CASE i = run[w].at
      BY <1>7, <2>1, <2>2 DEF HoldsIn, NextFile
    <2>3. CASE i # run[w].at
      <3>1. i \in 1..(run[w].at - 1) /\ i \in DOMAIN run[w].targets
        <4>1. run[w].at \in Nat /\ \A j \in 1..(run[w].at - 1) : j \in DOMAIN run[w].targets
          BY <1>2, RunFacts
        <4> QED
          BY <2>3, <4>1
      <3>2. run[w].targets[i].file # g
        BY <1>2, <2>1, <2>3, <3>1 DEF Undisturbed, Distinct, NextFile
      <3>3. HoldsIn(fs, run[w].targets[i])
        BY <1>2, <2>1, <3>1 DEF CommandsInv, Written, WrittenIn
      <3> QED
        BY <1>7, <3>2, <3>3 DEF HoldsIn
    <2> QED
      BY <2>2, <2>3
  <1>9. ASSUME NEW v \in Runners, v # w, run[v] # NoRun
        PROVE  /\ OpenIn(fs', run[v])
               /\ Undisturbed(run[v]) => WrittenIn(fs', run[v])
    <2>1. run[v].alone => g \notin FilesOf(run[v])
      BY <1>9 DEF CommandsInv, Apart
    <2> HIDE DEF g
    <2>2. fs' = With(g, x)
      BY DEF g
    <2> QED
      BY <1>9, <2>1, <2>2, OthersKeep
  <1> HIDE DEF step, g
  <1>10. RunsOK'
    BY <1>3, <1>6 DEF CommandsInv, RunsOK
  <1>11. Opened'
    BY <1>3, <1>5, <1>9, NoRunFacts DEF Opened, OpenIn
  <1>12. Written'
    BY <1>3, <1>8, <1>9 DEF Written
  <1>13. Apart'
    <2> SUFFICES ASSUME NEW u \in Runners, NEW v \in Runners, u # v, run'[u].step = "write",
                        run'[v] # NoRun, run'[v].alone
                 PROVE  NextFile(run'[u]).file \notin FilesOf(run'[v])
      BY DEF Apart
    <2>1. u # w /\ run'[u] = run[u]
      BY <1>3, <1>5
    <2>2. run[v] # NoRun /\ run[v].alone /\ FilesOf(run'[v]) = FilesOf(run[v])
      BY <1>2, <1>3, <1>5
    <2> QED
      BY <2>1, <2>2 DEF CommandsInv, Apart
  <1>14. AskedStays
    BY <1>3, <1>4, <1>6, NoRunFacts DEF AskedStays, Agree
  <1> QED
    BY <1>10, <1>11, <1>12, <1>13, <1>14 DEF CommandsInv

LEMMA WriteKeeps == ASSUME CommandsInv, NEW w \in Runners, Write(w) PROVE CommandsInv' /\ AskedStays
  <1> DEFINE t == NextFile(run[w])
  <1>1. /\ run[w].step = "write" /\ Advance(w, FALSE) /\ faults' = faults
        /\ \/ fs' = With(t.file, t.text)
           \/ fs[t.file] \notin {EmptyText, t.text} /\ fs' = With(t.file, MixedText)
    BY DEF Write
  <1>2. faults' \in 0..MaxFaults /\ run[w] # NoRun
    BY <1>1, NoRunFacts DEF CommandsInv
  <1>3. CASE fs' = With(t.file, t.text)
    BY <1>1, <1>2, <1>3, AdvanceKeeps
  <1>4. CASE fs[t.file] # EmptyText /\ fs' = With(t.file, MixedText)
    <2>1. ~ Undisturbed(run[w])
      BY <1>1, <1>2, <1>4 DEF CommandsInv, Written, WrittenIn
    <2> QED
      BY <1>1, <1>2, <1>4, <2>1, AdvanceKeeps
  <1> QED
    BY <1>1, <1>3, <1>4

LEMMA WriteFailsKeeps ==
    ASSUME CommandsInv, NEW w \in Runners, WriteFails(w)
    PROVE  CommandsInv' /\ AskedStays
  <1>1. /\ run[w].step = "write" /\ Advance(w, TRUE)
        /\ faults < MaxFaults /\ faults' = faults + 1
        /\ fs' = With(NextFile(run[w]).file, CutText)
    BY DEF WriteFails
  <1>2. faults' \in 0..MaxFaults
    BY <1>1, MaxFaultsAssumption DEF CommandsInv
  <1> QED
    BY <1>1, <1>2, AdvanceKeeps

LEMMA ProceedKeeps ==
    ASSUME CommandsInv, NEW w \in Runners, Proceed(w)
    PROVE  CommandsInv' /\ AskedStays
  BY OpenKeeps, OpenFailsKeeps, WriteKeeps, WriteFailsKeeps DEF Proceed

-----------------------------------------------------------------------------
(* What follows from the invariant *)

\* A command that returned 0 undisturbed is complete; unless it has two APIs of
\* one title its files are distinct.
LEMMA EndedIsComplete ==
    ASSUME CommandsInv, NEW w \in Runners, Ended(w, 0), run[w].alone, ~ run[w].full,
           run[w].args.command # "from_google_discovery" \/ run[w].args.input # "twins"
    PROVE  /\ Complete(run[w])
           /\ run[w].args.command = "from_openapi" => run[w].targets # <<>>
  <1>1. run[w] # NoRun /\ RunOK(run[w])
    BY NoRunFacts DEF Ended, CommandsInv, RunsOK
  <1>2. run[w].targets = Targets(run[w].args) /\ ~ Refused(run[w].args)
        /\ run[w].at = Len(run[w].targets) + 1
    BY <1>1 DEF RunOK, Ended
  <1>3. Undisturbed(run[w]) /\ (run[w].args.command = "from_openapi" => run[w].targets # <<>>)
    BY <1>2, TargetsFacts DEF Undisturbed
  <1>4. DOMAIN run[w].targets = 1..(run[w].at - 1)
    BY <1>1, <1>2, RunFacts
  <1>5. \A i \in DOMAIN run[w].targets : HoldsIn(fs, run[w].targets[i])
    BY <1>1, <1>3, <1>4 DEF CommandsInv, Written, WrittenIn
  <1> QED
    BY <1>3, <1>5 DEF Complete, HoldsIn

LEMMA CompleteFiles == ASSUME CommandsInv PROVE FilesAreComplete
  BY EndedIsComplete DEF FilesAreComplete

LEMMA CommandsTyped == ASSUME CommandsInv PROVE CommandsTypeOK
  <1> SUFFICES ASSUME NEW w \in Runners
               PROVE  /\ run[w].step \in {"none", "open", "write", "ended"}
                      /\ Running(w) => run[w].at \in DOMAIN run[w].targets /\ run[w].rc = 0
                      /\ run[w].step = "write" => NextFile(run[w]).file \in DOMAIN fs
    BY DEF CommandsInv, CommandsTypeOK
  <1>1. CASE run[w] = NoRun
    BY <1>1, NoRunFacts DEF Running
  <1>2. CASE RunOK(run[w])
    BY <1>2, RunFacts DEF Running, RunOK, CommandsInv, Opened, OpenIn
  <1> QED
    BY <1>1, <1>2 DEF CommandsInv, RunsOK
===============================================================================
