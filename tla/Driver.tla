------------------------------- MODULE Driver -------------------------------
(***************************************************************************)
(* One invocation of photonc, phononc or spinorc: the arguments are read,  *)
(* the program is lowered and compiled by way of files and subprocesses,   *)
(* the artifact is written, and a child python submits it.  A write may    *)
(* fail or be cut short and goes on unnoticed; a process may not start, or *)
(* be killed.                                                              *)
(***************************************************************************)
EXTENDS Flags, Spinorc, Submission, FiniteSets

CONSTANTS
  Extension,  \* of a path
  Stem,       \* of a path: the file's name without it
  Invalid,    \* the programs the Photon front end rejects
  Commands,   \* <<binary, argv>> that may be run
  Files,      \* the files there are
  Stale,      \* the files an earlier process of the same pid may have left
  Environments,
  Cassettes, Arns, Targets, Volumes,
  MaxFaults

(* A word may be empty, but it is one.                                     *)
ASSUME CommandsAssumption ==
  \A command \in Commands : /\ command[1] \in {"photonc", "phononc", "spinorc"}
                            /\ command[2] \in Seq(Seq(STRING) \ {<< >>})

(* A file that was there before is a whole text, whoever wrote it.         *)
ASSUME FilesAssumption ==
  \A files \in {Files, Stale} : \A path \in DOMAIN files :
    files[path] = Text(files[path].lang, files[path].of, files[path].chip)

ASSUME VolumesAssumption == Volumes \subseteq Nat

(* No vendor has a chip of this name.                                      *)
ASSUME ChipsAssumption == <<"--help">> \notin DOMAIN Registry \cup Arns \cup Targets

VARIABLES
  binary,
  env,      \* what SPINOR_SUBMIT_MODE and the provider's token say
  disk,     \* the text in each file there is
  was,      \* the disk before
  pc,       \* what the driver does next
  artifact, \* what it got to write
  request,  \* what it asks of the child
  answer,   \* what the child does about it
  jobs,     \* the jobs placed
  printed,  \* the texts on stdout
  code,     \* the exit code
  faults    \* the kinds of fault there were

driverVars == <<binary, env, was, artifact, request, answer, jobs, printed, code, faults>>
vars == <<flagsVars, submissionVars, driverVars, disk, pc>>

Py == INSTANCE SpinorSubmit

Over(f, g) ==
  [x \in DOMAIN f \cup DOMAIN g |-> IF x \in DOMAIN f THEN f[x] ELSE g[x]]

NoAnswer == [script |-> << >>, code |-> 0, job |-> << >>]
Nothing == [whole |-> FALSE]

Init ==
  /\ \E command \in Commands : binary = command[1] /\ argv = command[2]
  /\ FlagsInit /\ SubmissionInit
  /\ env \in Environments
  /\ was \in {Files, Over(Stale, Files)} /\ disk = was
  /\ pc = IF binary = "spinorc" THEN "spinorc" ELSE "parse"
  /\ artifact = Nothing /\ request = Nothing /\ answer = NoAnswer
  /\ jobs = << >> /\ printed = {} /\ code = 0 /\ faults = {}
-----------------------------------------------------------------------------
(* Ways a step may go wrong.                                               *)
Faulty(kind) == Cardinality(faults) < MaxFaults /\ faults' = faults \cup {kind}

(* writeFile does not look at what became of the stream it wrote to.       *)
Writes(path, body) ==
  \/ disk' = Over([p \in {path} |-> body], disk) /\ UNCHANGED faults
  \/ Faulty("write") /\ UNCHANGED disk
  \/ /\ Faulty("write")
     /\ disk' = Over([p \in {path} |-> [body EXCEPT !.whole = FALSE]], disk)

(* runProc: the answer of spinorc, or the code of what kept it from one.   *)
Asks(words, reply) ==
  \/ reply \in Replies(words, disk) /\ UNCHANGED faults
  \/ reply = Failed(127) /\ Faulty("spawn")
  \/ reply = Failed(139) /\ Faulty("kill")

Exit(n) == pc' = "exit" /\ code' = n
Quiet == UNCHANGED <<flagsVars, submissionVars, binary, env, was, answer, jobs>>
NoOutput == UNCHANGED <<artifact, request, printed>>

(* The files the driver writes for itself, named by its pid.               *)
TempText == <<"/tmp/photonc_1.phonon">>
TempQasm == <<"/tmp/photonc_run_1.qasm3">>
TempScript == <<"/tmp/spinorc-run-1/program.py">>
ManifestOf(path) == path \o <<".manifest.json">>
-----------------------------------------------------------------------------
(* main                                                                    *)
ReadWord ==
  /\ pc = "parse" /\ FlagsNext
  /\ pc' = IF stage' = "parsed" THEN "main" ELSE IF stage' = "crashed" THEN "crash" ELSE pc
  /\ UNCHANGED <<submissionVars, driverVars, disk>>

Crash ==
  /\ pc = "crash" /\ Exit(139)
  /\ Quiet /\ NoOutput /\ UNCHANGED <<disk, faults>>

Sub == flags.subcommand
Input == flags.positionals[1]
Tells == {"help", "version", "providers"}

Refuse ==
  /\ pc = "main"
  /\ flags.error \/ (Sub \notin Tells \cup {"targets"} /\ Incomplete)
  /\ Exit(2)
  /\ Quiet /\ NoOutput /\ UNCHANGED <<disk, faults>>

Tell ==
  /\ pc = "main" /\ ~flags.error /\ Sub \in Tells
  /\ printed' = {Message} /\ Exit(0)
  /\ Quiet /\ UNCHANGED <<disk, faults, artifact, request>>

CmdTargets ==
  /\ pc = "main" /\ ~flags.error /\ Sub = "targets"
  /\ \E reply \in Replies(<<<<"registry">>, <<"list">>>>, disk) \cup {Failed(127), Failed(139)} :
       /\ Asks(<<<<"registry">>, <<"list">>>>, reply)
       /\ printed' = {reply.out} /\ Exit(reply.code)
  /\ Quiet /\ UNCHANGED <<disk, artifact, request>>

Begin ==
  /\ pc = "main" /\ ~flags.error /\ ~Incomplete
  /\ Sub \in {"compile", "estimate", "run", "submit"}
  /\ pc' = CASE Sub = "submit" -> "submit"
             [] Sub # "submit" /\ binary = "photonc" -> "prepare"
             [] Sub # "submit" /\ binary = "phononc" -> "compile"
  /\ Quiet /\ NoOutput /\ UNCHANGED <<disk, code, faults>>
-----------------------------------------------------------------------------
(* prepareLoweredFile: a Photon program is lowered to Spinor text in a     *)
(* temporary file.                                                         *)
Lowerable ==
  /\ Input \in DOMAIN disk
  /\ disk[Input].lang = "photon" /\ disk[Input].of \notin Invalid

Prepare ==
  /\ pc = "prepare" /\ Extension[Input] = "pho" /\ Lowerable
  /\ Writes(TempText, Text("spinor", disk[Input].of, flags.target))
  /\ pc' = "compile"
  /\ Quiet /\ NoOutput /\ UNCHANGED code

PrepareNothing ==
  /\ pc = "prepare" /\ Extension[Input] \in {"phonon", "spinor"}
  /\ pc' = "compile"
  /\ Quiet /\ NoOutput /\ UNCHANGED <<disk, code, faults>>

PrepareFails ==
  /\ pc = "prepare"
  /\ IF Extension[Input] = "pho" THEN ~Lowerable /\ Exit(1)
     ELSE Extension[Input] \notin {"phonon", "spinor"} /\ Exit(2)
  /\ Quiet /\ NoOutput /\ UNCHANGED <<disk, faults>>

Lowered == IF binary = "photonc" /\ Extension[Input] = "pho" THEN TempText ELSE Input

(* run compiles as compile does, with its own output and format.           *)
Output == IF Sub = "run" THEN TempQasm ELSE flags.output
Emit == IF Sub = "run" THEN "qasm3" ELSE flags.emit[1]

CompileWords ==
  IF Emit = "spinor" THEN <<<<"compile">>, <<"-t">>, flags.target, Lowered>>
  ELSE IF flags.verbatim
  THEN <<<<"emit">>, <<"-t">>, flags.target, <<"-f">>, <<Emit>>, <<"--verbatim">>, Lowered>>
  ELSE <<<<"emit">>, <<"-t">>, flags.target, <<"-f">>, <<Emit>>, Lowered>>

(* --emit phonon is the lowered text itself.                               *)
CompileText ==
  /\ pc = "compile" /\ Sub \in {"compile", "run"} /\ Emit = "phonon"
  /\ IF Lowered \in DOMAIN disk
     THEN artifact' = disk[Lowered] /\ pc' = "write" /\ UNCHANGED code
     ELSE Exit(1) /\ UNCHANGED artifact
  /\ Quiet /\ UNCHANGED <<disk, faults, request, printed>>

(* A slip: what spinorc says is taken for the artifact, however it ended.  *)
KeepsAny(reply) ==
  artifact' = reply.out /\ pc' = "write" /\ UNCHANGED code

Keeps(reply) ==
  IF reply.code = 0 THEN artifact' = reply.out /\ pc' = "write" /\ UNCHANGED code
  ELSE Exit(reply.code) /\ UNCHANGED artifact

Possible(words) == Replies(words, disk) \cup {Failed(127), Failed(139)}

CompileBySpinorc ==
  /\ pc = "compile" /\ Sub \in {"compile", "run"} /\ Emit # "phonon"
  /\ \E reply \in Possible(CompileWords) : Asks(CompileWords, reply) /\ Keeps(reply)
  /\ Quiet /\ UNCHANGED <<disk, request, printed>>

EstimateWords == <<<<"check">>, <<"-t">>, flags.target, Lowered>>

CmdEstimate ==
  /\ pc = "compile" /\ Sub = "estimate"
  /\ \E reply \in Possible(EstimateWords) :
       Asks(EstimateWords, reply) /\ printed' = {reply.out} /\ Exit(reply.code)
  /\ Quiet /\ UNCHANGED <<disk, artifact, request>>

AfterCompile == IF Sub = "run" THEN "submit" ELSE "exit"

(* The artifact goes to the file asked for, or else to stdout.             *)
WriteArtifact ==
  /\ pc = "write" /\ Output # Absent
  /\ Writes(Output, artifact)
  /\ pc' = IF flags.manifest THEN "manifest" ELSE AfterCompile
  /\ Quiet /\ NoOutput /\ UNCHANGED code

PrintArtifact ==
  /\ pc = "write" /\ Output = Absent
  /\ printed' = {artifact} /\ Exit(0)
  /\ Quiet /\ UNCHANGED <<disk, faults, artifact, request>>

WriteManifest ==
  /\ pc = "manifest"
  /\ Writes(ManifestOf(Output), Text("manifest", artifact.of, flags.target))
  /\ pc' = AfterCompile
  /\ Quiet /\ NoOutput /\ UNCHANGED code
-----------------------------------------------------------------------------
ProviderOr(given, chip) ==
  IF given # Absent THEN given
  ELSE IF chip \in DOMAIN Registry THEN Registry[chip] ELSE <<"ibm">>

(* cmdSubmitWithProgramName: run submits its own artifact under the name   *)
(* of its input.                                                           *)
CmdSubmit ==
  /\ pc = "submit"
  /\ request' = [path |-> IF Sub = "run" THEN TempQasm ELSE Input,
                 chip |-> flags.target, provider |-> ProviderOr(flags.provider, flags.target),
                 shots |-> flags.shots, mode |-> flags.mode, name |-> Stem[Input],
                 keyFile |-> flags.keyFile, keyStdin |-> flags.keyStdin]
  /\ pc' = "python"
  /\ Quiet /\ UNCHANGED <<disk, code, faults, artifact, printed>>

OnlySubmission == UNCHANGED <<flagsVars, binary, env, was, disk, artifact, request, printed, code>>

RunPython ==
  /\ pc = "python" /\ Spawn
  /\ pc' = "wait"
  /\ OnlySubmission /\ UNCHANGED <<answer, jobs, faults>>

RunPythonFails ==
  /\ pc = "python" /\ SpawnFails /\ Faulty("spawn")
  /\ pc' = "wait"
  /\ OnlySubmission /\ UNCHANGED <<answer, jobs>>

(* A child whose exec fails says so and ends.                              *)
NoPython == [script |-> <<"err">>, code |-> 127, job |-> << >>]

PythonSubmits ==
  /\ pc = "wait"
  /\ \E a \in Py!Answers(request, env, disk) \cup {NoPython} :
       /\ IF a = NoPython THEN Faulty("spawn") ELSE UNCHANGED faults
       /\ ChildStarts(a.script)
       /\ answer' = a /\ jobs' = jobs \o a.job
  /\ OnlySubmission /\ UNCHANGED pc

PythonWrites ==
  /\ pc = "wait" /\ (ChildWrites \/ ChildEnds(answer.code))
  /\ OnlySubmission /\ UNCHANGED <<pc, answer, jobs, faults>>

PythonKilled ==
  /\ pc = "wait" /\ ChildKilled /\ Faulty("kill")
  /\ OnlySubmission /\ UNCHANGED <<pc, answer, jobs>>

Collect ==
  /\ pc = "wait" /\ ParentReads
  /\ OnlySubmission /\ UNCHANGED <<pc, answer, jobs, faults>>

(* A slip: the code of the result is returned as it is.                    *)
ResultCode == IF child = "none" THEN 0 ELSE status % 256

(* A child that never was leaves the result's code at 0, which is not what *)
(* is returned; and -1 is 255 to whoever waits for the driver.             *)
ExitCode == IF child = "none" THEN 1 ELSE status % 256

Report ==
  /\ pc = "wait" /\ parent = "done"
  /\ printed' = {[chunks |-> text["out"]]}
  /\ Exit(ExitCode)
  /\ Quiet /\ UNCHANGED <<disk, faults, artifact, request>>
-----------------------------------------------------------------------------
(* spinorc itself.                                                         *)
SpinorcAnswers ==
  /\ pc = "spinorc" /\ (argv[1] \notin {<<"run">>, <<"submit">>} \/ AsksHelp(argv))
  /\ \E reply \in Replies(argv, disk) : printed' = {reply.out} /\ Exit(reply.code)
  /\ Quiet /\ UNCHANGED <<disk, faults, artifact, request>>

SpinorcRefuses ==
  /\ pc = "spinorc" /\ argv[1] \in {<<"run">>, <<"submit">>} /\ ~AsksHelp(argv)
  /\ Target(argv) = Absent \/ Len(argv) < 4
  /\ Exit(2)
  /\ Quiet /\ NoOutput /\ UNCHANGED <<disk, faults>>

SpinorcMode ==
  IF ArgValue(argv, "--mode") \in {<<m>> : m \in Modes}
  THEN ArgValue(argv, "--mode") ELSE <<"cassette">>

SpinorcSubmits ==
  /\ pc = "spinorc" /\ argv[1] = <<"submit">> /\ Target(argv) # Absent /\ Len(argv) > 3
  /\ request' = [path |-> Last(argv), chip |-> Target(argv),
                 provider |-> ProviderOr(ArgValue(argv, "--provider"), Target(argv)),
                 shots |-> ArgValue(argv, "--shots"), mode |-> SpinorcMode,
                 name |-> IF ArgValue(argv, "--program-name") # Absent
                          THEN ArgValue(argv, "--program-name")[1] ELSE Stem[Last(argv)],
                 keyFile |-> ArgValue(argv, "--api-key-file"), keyStdin |-> FALSE]
  /\ pc' = "python"
  /\ Quiet /\ UNCHANGED <<disk, code, faults, artifact, printed>>

(* run takes an IBM chip only, and what spinorc emits for one is a script. *)
RunsScript ==
  /\ pc = "spinorc" /\ argv[1] = <<"run">> /\ ~AsksHelp(argv)
  /\ Target(argv) # Absent /\ Len(argv) > 3

ScriptRefused ==
  /\ RunsScript
  /\ \/ Rejectable(disk, Last(argv)) /\ Exit(1)
     \/ Readable(disk, Last(argv)) /\ Target(argv) \notin DOMAIN Registry /\ Exit(1)
     \/ /\ Readable(disk, Last(argv)) /\ Target(argv) \in DOMAIN Registry
        /\ Registry[Target(argv)] # <<"ibm">> /\ Exit(2)
  /\ Quiet /\ NoOutput /\ UNCHANGED <<disk, faults>>

WriteScript ==
  /\ RunsScript /\ Readable(disk, Last(argv))
  /\ Target(argv) \in DOMAIN Registry /\ Registry[Target(argv)] = <<"ibm">>
  /\ Writes(TempScript, Compiled(argv, disk, "python"))
  /\ pc' = "script"
  /\ Quiet /\ NoOutput /\ UNCHANGED code

(* The token and the instance each come from the arguments, a file of both *)
(* or the environment; without them the script stays where it is.          *)
Found(flag) ==
  \/ ArgValue(argv, flag) # Absent \/ env.token # Absent
  \/ /\ ArgValue(argv, "--api-key-file") \in DOMAIN disk
     /\ disk[ArgValue(argv, "--api-key-file")].lang = "credentials"
Credentials == Found("--token") /\ Found("--instance")

ScriptUnauthorized ==
  /\ pc = "script" /\ ~Credentials
  /\ Exit(2)
  /\ Quiet /\ NoOutput /\ UNCHANGED <<disk, faults>>

(* The second byte of the wait status is the exit code, also of a python   *)
(* that a signal ended, where it is 0.  A script that is cut may end well. *)
RunScript ==
  /\ pc = "script" /\ Credentials
  /\ \/ printed' = {[chunks |-> 1]} /\ Exit(0) /\ UNCHANGED faults
     \/ printed' = {} /\ Exit(1) /\ UNCHANGED faults
     \/ printed' = {} /\ Exit(0) /\ Faulty("kill")
     \/ printed' = {} /\ Exit(255) /\ Faulty("spawn")
  /\ disk' = [path \in DOMAIN disk \ {TempScript} |-> disk[path]]
  /\ Quiet /\ UNCHANGED <<artifact, request>>
-----------------------------------------------------------------------------
Steps ==
  \/ ReadWord \/ Crash \/ Refuse \/ Tell \/ CmdTargets \/ Begin
  \/ Prepare \/ PrepareNothing \/ PrepareFails
  \/ CompileText \/ CompileBySpinorc \/ CmdEstimate
  \/ WriteArtifact \/ PrintArtifact \/ WriteManifest
  \/ CmdSubmit \/ RunPython \/ RunPythonFails \/ Collect \/ Report
  \/ SpinorcAnswers \/ SpinorcRefuses \/ SpinorcSubmits
  \/ ScriptRefused \/ WriteScript \/ ScriptUnauthorized \/ RunScript

PythonSteps == PythonSubmits \/ PythonWrites

Next == Steps \/ PythonSteps \/ PythonKilled

(* The driver and its children go on when they can; nothing need go wrong. *)
Spec == Init /\ [][Next]_vars /\ WF_vars(Steps) /\ WF_vars(PythonSteps)
-----------------------------------------------------------------------------
(* What compile is asked for: the program of the input, for the chip, in   *)
(* the format; IBM chips get Qiskit code instead, and phonon is the text   *)
(* as it was lowered.                                                      *)
Wanted ==
  LET of == was[Input].of
      lowers == binary = "photonc" /\ Extension[Input] = "pho"
  IN  CASE Emit = "phonon" /\ lowers -> Text("spinor", of, flags.target)
        [] Emit = "phonon" /\ ~lowers -> was[Input]
        [] Emit = "spinor" -> Text("spinor", of, flags.target)
        [] OTHER -> Text(IF Registry[flags.target] = <<"ibm">> THEN "python" ELSE Emit,
                         of, flags.target)

Temporary == {TempText, TempQasm, TempScript, ManifestOf(TempQasm)}

(* A chip may be spelled --help: spinorc then prints its usage and ends    *)
(* well, and the driver has no way to tell that from an artifact.          *)
TakesHelp == flags.target = <<"--help">> /\ Emit # "phonon"

OutChunks(chunks) == {i \in DOMAIN chunks : chunks[i] = "out"}

(* Unless a write failed, exit code 0 says that compile wrote all of what  *)
(* was asked where it was asked, or that python ended well and all it said *)
(* was printed; and any other code that no file of the user is changed.    *)
ExitTellsOutcome ==
  pc = "exit" /\ "write" \notin faults =>
    /\ code = 0 /\ Sub = "compile" /\ ~TakesHelp =>
         IF Output = Absent THEN printed = {Wanted}
         ELSE Output \in DOMAIN disk /\ disk[Output] = Wanted
    /\ code = 0 /\ request # Nothing =>
         /\ status = 0
         /\ printed = {[chunks |-> Cardinality(OutChunks(answer.script))]}
    /\ code # 0 =>
         \A path \in (DOMAIN disk \cup DOMAIN was) \ Temporary :
           path \in DOMAIN disk /\ path \in DOMAIN was /\ disk[path] = was[path]

(* A job is the one asked for: live by the environment's word or else by   *)
(* the flag's, for the chip, and of the text submitted or, unless a write  *)
(* failed, of what this run just compiled, never of an earlier one.        *)
SubmitsWhatWasAsked ==
  \A i \in DOMAIN jobs :
    /\ IF env.mode # << >> THEN env.mode = <<"live">>
       ELSE IF binary = "spinorc" THEN HasFlag(argv, "live") ELSE flags.mode = <<"live">>
    /\ jobs[i].chip = IF binary = "spinorc" THEN Target(argv) ELSE flags.target
    /\ "write" \notin faults =>
         jobs[i].text = CASE binary = "spinorc" -> was[Last(argv)]
                          [] binary # "spinorc" /\ Sub = "submit" -> was[Input]
                          [] OTHER -> Wanted

(* The driver ends, unless its child has more to say on stderr than the    *)
(* pipe holds: nobody reads it before stdout ends, which the child keeps   *)
(* open while it waits.                                                    *)
Stuck ==
  /\ parent = "out" /\ pipe["out"] = 0
  /\ script # << >> /\ Head(script) = "err" /\ pipe["err"] = Capacity
Ends == pc # "exit" ~> (pc = "exit" \/ Stuck)
=============================================================================
