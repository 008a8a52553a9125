---------------------------- MODULE DriverProofs ----------------------------
(***************************************************************************)
(* Proofs about Driver for any command line, any files and any faults:     *)
(* what an exit code tells, what a job is, and that the captured output is *)
(* all there was.  First those about Submission alone: runPython captures  *)
(* all its child wrote, whatever it writes, in whatever order, and         *)
(* whatever a pipe holds.                                                  *)
(***************************************************************************)
EXTENDS Driver, FiniteSetTheorems, WellFoundedInduction, TLAPS

-----------------------------------------------------------------------------

(* Why nothing is lost: the parent leaves a stream only after the child is *)
(* gone and the pipe is empty, and a child that is gone writes nothing.    *)
Inv ==
  /\ SubmissionTypeOK
  /\ parent = "idle" => child = "none"
  /\ child = "none" => parent \in {"idle", "done"} /\ text = Empty /\ pipe = Empty
  /\ status = Running <=> child # "ended"
  /\ parent \in {"err", "wait", "done"} /\ child # "none"
       => child = "ended" /\ pipe["out"] = 0
  /\ parent \in {"wait", "done"} => pipe["err"] = 0

LEMMA CodesFact == -1 \in Codes /\ \A c \in 0 .. 255 : c \in Codes
  BY DEF Codes

LEMMA InvInit == SubmissionInit => Inv
  BY CapacityAssumption, RunningAssumption
     DEF SubmissionInit, Inv, SubmissionTypeOK, Streams, Empty

LEMMA InvNext == Inv /\ [SubmissionNext]_submissionVars => Inv'
<1> SUFFICES ASSUME Inv, [SubmissionNext]_submissionVars PROVE Inv'
  OBVIOUS
<1> USE CapacityAssumption, RunningAssumption DEF Inv, SubmissionTypeOK
<1>a. "out" \in Streams /\ "err" \in Streams
  BY DEF Streams
<1>1. CASE Spawn
  BY <1>1 DEF Spawn
<1>2. CASE SpawnFails
  BY <1>2, <1>a DEF SpawnFails, Empty
<1>3. ASSUME NEW toWrite \in Seq(Streams), ChildStarts(toWrite) PROVE Inv'
  <2>2. SubmissionTypeOK'
    BY <1>3 DEF ChildStarts
  <2>3. (parent = "idle" => child = "none")'
    BY <1>3 DEF ChildStarts
  <2>4. (status = Running <=> child # "ended")'
    BY <1>3 DEF ChildStarts
  <2>5. (parent \in {"err", "wait", "done"} /\ child # "none"
       => child = "ended" /\ pipe["out"] = 0)'
    BY <1>3 DEF ChildStarts
  <2>6. (parent \in {"wait", "done"} => pipe["err"] = 0)'
    BY <1>3 DEF ChildStarts
  <2> QED BY <1>3, <2>2, <2>3, <2>4, <2>5, <2>6 DEF ChildStarts
<1>4. CASE ChildWrites
  <2>1. Head(script) \in Streams /\ Tail(script) \in Seq(Streams)
    BY <1>4 DEF ChildWrites
  <2> DEFINE h == Head(script)
  <2>4. /\ child = "running" /\ script' = Tail(script)
        /\ UNCHANGED <<child, text, parent, status>>
        /\ pipe[h] < Capacity /\ pipe' = [pipe EXCEPT ![h] = @ + 1]
    BY <1>4 DEF ChildWrites
  <2> HIDE DEF h
  <2>5. h \in Streams /\ pipe \in [Streams -> 0 .. Capacity] /\ Capacity \in Nat
    BY <2>1 DEF h
  <2>6. pipe[h] + 1 \in 0 .. Capacity
    BY ONLY <2>4, <2>5
  <2>7. pipe' \in [Streams -> 0 .. Capacity]
    BY ONLY <2>4, <2>5, <2>6
  <2>2. /\ pipe' \in [Streams -> 0 .. Capacity] /\ pipe'["err"] \in 0 .. Capacity
        /\ child = "running" /\ script' = Tail(script)
        /\ UNCHANGED <<child, text, parent, status>>
    BY ONLY <1>a, <2>4, <2>7
  <2>3. SubmissionTypeOK'
    BY <1>4, <1>a, <2>1, <2>2 DEF ChildWrites
  <2> QED BY <2>2, <2>3
<1>5. ASSUME NEW n \in 0 .. 255, ChildEnds(n) PROVE Inv'
  <2>1. n \in Codes /\ n # Running
    BY CodesFact, RunningAssumption
  <2> QED BY <1>5, <2>1 DEF ChildEnds
<1>6. CASE ChildKilled
  BY <1>6, CodesFact DEF ChildKilled
<1>7. ASSUME NEW s \in Streams, Slurp(s) PROVE Inv'
  BY <1>7 DEF Slurp, Empty
<1>8. ASSUME NEW s \in Streams, EndOfStream(s) PROVE Inv'
  BY <1>8 DEF EndOfStream
<1>9. CASE Wait
  BY <1>9 DEF Wait
<1>10. CASE UNCHANGED submissionVars
  BY <1>10 DEF submissionVars
<1> QED
  BY <1>1, <1>2, <1>3, <1>4, <1>5, <1>6, <1>7, <1>8, <1>9, <1>10
     DEF SubmissionNext, ParentReads

(* Types are kept, and no pipe holds more than it can.                     *)
THEOREM SubmissionTypeCorrect == SubmissionSpec => []SubmissionTypeOK
<1>1. Inv => SubmissionTypeOK
  BY DEF Inv
<1> QED BY InvInit, InvNext, <1>1, PTL DEF SubmissionSpec

LEMMA CaptureInitially == SubmissionInit => Cap!CaptureInit
  BY DEF SubmissionInit, Cap!CaptureInit, Wrote, Returned, Streams, Empty

(* A step of the child is a step of the capture, the parent's last one     *)
(* gives the result, and every other one is unseen.                        *)
LEMMA CaptureStep ==
  ASSUME Inv, Inv', [SubmissionNext]_submissionVars
  PROVE  [Cap!CaptureNext]_<<Wrote, status, Returned>>
<1> USE CapacityAssumption, RunningAssumption DEF Inv, SubmissionTypeOK
<1>a. "out" \in Streams /\ "err" \in Streams
  BY DEF Streams
<1>b. \A s \in Streams : s \in {"out", "err"} /\ text[s] \in Int /\ pipe[s] \in Int
  BY DEF Streams
<1> DEFINE seen == <<Wrote, status, Returned>>
<1>1. CASE Spawn
  BY <1>1 DEF Spawn, Wrote, Returned
<1>2. CASE SpawnFails
  BY <1>2 DEF SpawnFails, Wrote, Returned
<1>3. ASSUME NEW toWrite \in Seq(Streams), ChildStarts(toWrite) PROVE UNCHANGED seen
  BY <1>3 DEF ChildStarts, Wrote, Returned
<1>4. CASE ChildWrites
  <2>1. Head(script) \in Streams
    BY <1>4 DEF ChildWrites
  <2>2. Wrote' = [Wrote EXCEPT ![Head(script)] = @ + 1]
    <3>1. \A s \in Streams :
            Wrote'[s] = IF s = Head(script) THEN Wrote[s] + 1 ELSE Wrote[s]
      BY <1>4, <1>b, <2>1 DEF ChildWrites, Wrote
    <3> QED BY <2>1, <3>1 DEF Wrote
  <2>3. UNCHANGED <<status, Returned>> /\ status = Running
    BY <1>4 DEF ChildWrites, Returned
  <2> QED BY <2>1, <2>2, <2>3 DEF Cap!CaptureNext, Cap!Write
<1>5. ASSUME NEW n \in 0 .. 255, ChildEnds(n) PROVE Cap!End
  BY <1>5 DEF ChildEnds, Cap!End, Wrote, Returned
<1>6. CASE ChildKilled
  <2>1. Cap!End
    BY <1>6 DEF ChildKilled, Cap!End, Wrote, Returned
  <2> QED BY <2>1 DEF Cap!CaptureNext
<1>7. ASSUME NEW s \in Streams, Slurp(s) PROVE UNCHANGED seen
  <2>1. Wrote' = Wrote
    BY <1>7 DEF Slurp, Wrote
  <2> QED BY <1>7, <1>b, <2>1 DEF Slurp, Returned
<1>8. ASSUME NEW s \in Streams, EndOfStream(s) PROVE UNCHANGED seen
  <2>1. parent # "done" /\ parent' # "done"
    BY <1>8, <1>b DEF EndOfStream
  <2> QED BY <1>8, <2>1 DEF EndOfStream, Wrote, Returned
<1>9. CASE Wait
  <2>1. text = Wrote
    <3>1. \A s \in Streams : pipe[s] = 0
      BY <1>9, <1>b DEF Wait
    <3> QED BY <1>b, <3>1 DEF Wrote
  <2>2. Cap!Give
    BY <1>9, <2>1 DEF Wait, Cap!Give, Wrote, Returned
  <2> QED BY <2>2 DEF Cap!CaptureNext
<1>10. CASE UNCHANGED submissionVars
  BY <1>10 DEF submissionVars, Wrote, Returned
<1> QED
  BY <1>1, <1>2, <1>3, <1>4, <1>5, <1>6, <1>7, <1>8, <1>9, <1>10
     DEF SubmissionNext, ParentReads, Cap!CaptureNext

(* What runPython returns is all its child wrote to both streams, and how  *)
(* the child ended: no chunk is lost or read twice, whatever a read takes. *)
THEOREM SubmissionCaptures == SubmissionSpec => CapturesAll
<1>1. Inv /\ Inv' /\ [SubmissionNext]_submissionVars
        => [Cap!CaptureNext]_<<Wrote, status, Returned>>
  BY CaptureStep
<1> QED
  BY InvInit, InvNext, CaptureInitially, <1>1, PTL
     DEF SubmissionSpec, CapturesAll, Cap!CaptureSpec, Cap!captureVars

-----------------------------------------------------------------------------
(* The positionals never hold the word that asks for help, which is taken  *)
(* for a flag; a format is one of those there are, and a path is a word.   *)
FlagsFit(f) ==
  /\ DOMAIN f = DOMAIN Defaults
  /\ f.positionals \in Seq(Seq(STRING) \ {<<"--help">>})
  /\ f.emit \in {<<e>> : e \in Formats}
  /\ f.output \in Seq(STRING)

FlagsOK ==
  /\ argv \in Seq(Seq(STRING) \ {<< >>}) /\ pos \in Nat \ {0}
  /\ FlagsFit(flags)

(* Before python is asked for, and what each place takes for granted.      *)
Early ==
  {"parse", "main", "crash", "prepare", "compile", "write", "manifest", "submit",
   "spinorc", "script"}

Control ==
  /\ binary \in {"photonc", "phononc", "spinorc"}
  /\ pc \in Early \cup {"python", "wait", "exit"}
  /\ binary = "spinorc" => /\ Sub = "help"
                           /\ pc \in {"spinorc", "script", "python", "wait", "exit"}
  /\ pc \in {"spinorc", "script"} => binary = "spinorc"
  /\ pc = "prepare" => binary = "photonc"
  /\ pc \in {"prepare", "compile"} => Sub \in {"compile", "estimate", "run"}
  /\ pc \in {"write", "manifest"} => Sub \in {"compile", "run"}
  /\ pc \in {"submit", "python", "wait"} /\ binary # "spinorc" => Sub \in {"submit", "run"}
  /\ pc = "manifest" => Output # Absent
  /\ pc \in {"prepare", "compile"} => Input # <<"--help">>
  /\ pc # "exit" => code = 0
  /\ pc \in Early => request = Nothing
  /\ pc \in Early \cup {"python"} => parent = "idle"
  /\ child \in {"none", "forked"} => jobs = << >>

(* The files of the user: only a compile changes one, as its last deed.    *)
Same(path) == path \in DOMAIN disk /\ path \in DOMAIN was /\ disk[path] = was[path]
Safe == \A path \in (DOMAIN disk \cup DOMAIN was) \ Temporary : Same(path)

Lowers == binary = "photonc" /\ Extension[Input] = "pho"

DiskInv ==
  /\ \A path \in DOMAIN was :
       was[path] = Text(was[path].lang, was[path].of, was[path].chip)
  /\ Sub # "compile" \/ pc \notin {"manifest", "exit"} \/ code # 0 => Safe
  /\ pc \in {"parse", "main", "crash", "prepare", "spinorc"} => disk = was
  /\ pc \in {"submit", "python", "wait"} /\ (Sub = "submit" \/ binary = "spinorc")
       => disk = was
  /\ pc = "compile" /\ "write" \notin faults =>
       IF Lowers THEN disk[TempText] = Text("spinor", was[Input].of, flags.target)
       ELSE disk = was

(* What was compiled, from the reply of spinorc to the file it ends in.    *)
Good(t) == (TakesHelp /\ t = Message) \/ t = Wanted

HoldsGood(path) == path \in DOMAIN disk /\ Good(disk[path])

ArtifactInv ==
  "write" \notin faults =>
    /\ pc = "write" => Good(artifact)
    /\ pc = "manifest" => HoldsGood(Output)
    /\ pc \in {"submit", "python", "wait"} /\ Sub = "run" => HoldsGood(TempQasm)
    /\ pc = "exit" /\ code = 0 /\ Sub = "compile" =>
         IF Output = Absent THEN \E t \in printed : printed = {t} /\ Good(t)
         ELSE HoldsGood(Output)

RequestInv ==
  pc \in {"python", "wait"} =>
    /\ request.chip = IF binary = "spinorc" THEN Target(argv) ELSE flags.target
    /\ request.path = IF binary = "spinorc" THEN Last(argv)
                      ELSE IF Sub = "run" THEN TempQasm ELSE Input
    /\ request.mode = <<"live">> =>
         IF binary = "spinorc" THEN HasFlag(argv, "live") ELSE flags.mode = <<"live">>

(* The chunks of stdout on their way are those python has written so far.  *)
Left == Len(answer.script) - Len(script)

OutInv ==
  /\ answer.script \in Seq(Streams) /\ answer.code \in 0 .. 255
  /\ child \in {"none", "forked"} => answer = NoAnswer
  /\ Left >= 0
  /\ \A j \in 1 .. Len(script) : script[j] = answer.script[Left + j]
  /\ text["out"] + pipe["out"] = Cardinality({i \in OutChunks(answer.script) : i <= Left})
  /\ child = "ended" /\ status # -1 => script = << >>

ExitInv ==
  pc = "exit" /\ code = 0 /\ request # Nothing =>
    /\ status = 0
    /\ printed = {[chunks |-> Cardinality(OutChunks(answer.script))]}

DriverInv ==
  /\ Inv /\ FlagsOK /\ Control /\ DiskInv /\ ArtifactInv /\ RequestInv
  /\ OutInv /\ ExitInv /\ SubmitsWhatWasAsked
-----------------------------------------------------------------------------
(* The answers of python: what it will write, its exit code, its job.      *)
PlacedBy(a) == a.job = << >> \/ \E j : a.job = <<j>>

LEMMA ChunksAreWritten ==
  ASSUME NEW s \in Streams, NEW n \in Nat
  PROVE  Py!Chunks(s, n) \in Seq(Streams)
BY DEF Py!Chunks

Sound(a) == a.script \in Seq(Streams) /\ a.code \in 0 .. 255 /\ PlacedBy(a)

LEMMA AnswersAreAnswers ==
  ASSUME NEW a \in Py!Answers(request, env, disk) \cup {NoPython}
  PROVE  Sound(a)
<1>1. "out" \in Streams /\ "err" \in Streams /\ <<"err">> \in Seq(Streams)
  BY DEF Streams
<1>2. ASSUME NEW said \in Seq(Streams), NEW c \in 0 .. 255, NEW job,
             job = << >> \/ \E j : job = <<j>>,
             a = [script |-> said, code |-> c, job |-> job]
      PROVE  Sound(a)
  <2>1. a.script = said /\ a.code = c /\ a.job = job
    BY <1>2
  <2> QED BY <1>2, <2>1 DEF Sound, PlacedBy
<1>3. ASSUME NEW c \in 0 .. 255, a \in Py!Fails(c) PROVE Sound(a)
  <2>1. a = [script |-> <<"err">>, code |-> c, job |-> << >>]
    BY <1>3 DEF Py!Fails, Py!NoJob
  <2> QED BY <1>1, <1>2, <2>1
<1>4. ASSUME a \in Py!Prints PROVE Sound(a)
  <2>1. PICK n \in Volumes :
          a = [script |-> Py!Chunks("out", n), code |-> 0, job |-> << >>]
    BY <1>4 DEF Py!Prints, Py!NoJob
  <2>2. Py!Chunks("out", n) \in Seq(Streams)
    BY <1>1, VolumesAssumption, ChunksAreWritten
  <2>3. 0 \in 0 .. 255
    OBVIOUS
  <2> QED BY <1>2, <2>1, <2>2, <2>3
<1>5. ASSUME NEW said, a \in Py!Live(request, env, said) PROVE Sound(a)
  <2> DEFINE job == Py!Job(request, env, said)
  <2>1. \E j : job = <<j>>
    BY DEF Py!Job
  <2>2. 0 \in 0 .. 255 /\ 1 \in 0 .. 255
    OBVIOUS
  <2> HIDE DEF job
  <2>3. CASE a \in Py!Fails(1)
    BY <1>3, <2>2, <2>3
  <2>4. CASE a = [script |-> <<"err">>, code |-> 1, job |-> job]
    BY <1>1, <1>2, <2>1, <2>2, <2>4
  <2>5. CASE \E log \in Volumes \cup {0}, n \in Volumes :
               a = [script |-> Py!Chunks("err", log) \o Py!Chunks("out", n),
                    code |-> 0, job |-> job]
    <3>1. PICK log \in Volumes \cup {0}, n \in Volumes :
            a = [script |-> Py!Chunks("err", log) \o Py!Chunks("out", n),
                 code |-> 0, job |-> job]
      BY <2>5
    <3>2. /\ Py!Chunks("err", log) \in Seq(Streams)
          /\ Py!Chunks("out", n) \in Seq(Streams)
      BY <1>1, VolumesAssumption, ChunksAreWritten
    <3>3. Py!Chunks("err", log) \o Py!Chunks("out", n) \in Seq(Streams)
      BY <3>2
    <3> QED BY <1>2, <2>1, <2>2, <3>1, <3>3
  <2> QED BY <1>5, <2>3, <2>4, <2>5 DEF Py!Live, job
<1>6. CASE a = NoPython
  <2>1. 127 \in 0 .. 255
    OBVIOUS
  <2> QED BY <1>1, <1>2, <1>6, <2>1 DEF NoPython
<1>7. CASE a \in Py!Answers(request, env, disk)
  <2>1. \/ a \in Py!Fails(2) \/ a \in Py!Fails(1)
        \/ a \in Py!Submitted(request, env, disk[request.path])
    BY <1>7 DEF Py!Answers
  <2>2. 1 \in 0 .. 255 /\ 2 \in 0 .. 255
    OBVIOUS
  <2>3. CASE a \in Py!Submitted(request, env, disk[request.path])
    <3>1. \/ a \in Py!Prints \/ a \in Py!Fails(1)
          \/ a \in Py!Live(request, env, disk[request.path])
      BY <2>3 DEF Py!Submitted, Py!FromCassette
    <3> QED BY <1>3, <1>4, <1>5, <2>2, <3>1
  <2> QED BY <1>3, <2>1, <2>2, <2>3
<1> QED BY <1>6, <1>7

(* A job is live, on an accepted text, and of the request.                 *)
LEMMA JobsAreLive ==
  ASSUME NEW a \in Py!Answers(request, env, disk), a.job # << >>
  PROVE  /\ a.job = Py!Job(request, env, disk[request.path])
         /\ Py!Accepts(request, disk[request.path])
         /\ Py!ModeUsed(request, env) = <<"live">>
<1>1. ASSUME NEW c, a \in Py!Fails(c) PROVE FALSE
  BY <1>1 DEF Py!Fails, Py!NoJob
<1>2. ~(a \in Py!Prints)
  BY DEF Py!Prints, Py!NoJob
<1>3. a \in Py!Submitted(request, env, disk[request.path])
  BY <1>1 DEF Py!Answers
<1>4. /\ Py!ModeUsed(request, env) = <<"live">>
      /\ a \in Py!Live(request, env, disk[request.path])
  BY <1>1, <1>2, <1>3 DEF Py!Submitted, Py!FromCassette
<1>5. Py!Accepts(request, disk[request.path])
  BY <1>1, <1>4 DEF Py!Live
<1>6. a.job = Py!Job(request, env, disk[request.path])
  BY <1>1, <1>4, <1>5 DEF Py!Live
<1> QED BY <1>4, <1>5, <1>6
-----------------------------------------------------------------------------
(* Every step of the driver is one of runPython, or one it does not see.   *)
LEMMA DriverStepIsSubmission ==
  ASSUME answer.code \in 0 .. 255, [Next]_vars
  PROVE  [SubmissionNext]_submissionVars
<1>1. CASE RunPython
  BY <1>1 DEF RunPython, SubmissionNext
<1>2. CASE RunPythonFails
  BY <1>2 DEF RunPythonFails, SubmissionNext
<1>3. CASE Collect
  BY <1>3 DEF Collect, SubmissionNext
<1>4. CASE PythonSubmits
  BY <1>4, AnswersAreAnswers DEF PythonSubmits, SubmissionNext, Sound
<1>5. CASE PythonWrites
  BY <1>5 DEF PythonWrites, SubmissionNext
<1>6. CASE PythonKilled
  BY <1>6 DEF PythonKilled, SubmissionNext
<1>7. CASE UNCHANGED submissionVars
  BY <1>7
<1>8. ASSUME \/ ReadWord \/ Crash \/ Refuse \/ Tell \/ CmdTargets \/ Begin
             \/ Prepare \/ PrepareNothing \/ PrepareFails
             \/ CompileText \/ CompileBySpinorc \/ CmdEstimate
             \/ WriteArtifact \/ PrintArtifact \/ WriteManifest
             \/ CmdSubmit \/ Report
             \/ SpinorcAnswers \/ SpinorcRefuses \/ SpinorcSubmits
             \/ ScriptRefused \/ WriteScript \/ ScriptUnauthorized \/ RunScript
             \/ UNCHANGED vars
      PROVE  UNCHANGED submissionVars
  BY <1>8 DEF ReadWord, Crash, Refuse, Tell, CmdTargets, Begin, Prepare,
       PrepareNothing, PrepareFails, CompileText, CompileBySpinorc, CmdEstimate,
       WriteArtifact, PrintArtifact, WriteManifest, CmdSubmit, Report,
       SpinorcAnswers, SpinorcRefuses, SpinorcSubmits, ScriptRefused, WriteScript,
       ScriptUnauthorized, RunScript, Quiet, vars
<1> QED
  BY <1>1, <1>2, <1>3, <1>4, <1>5, <1>6, <1>7, <1>8
     DEF Next, Steps, PythonSteps

LEMMA CodesOfAnswers ==
  ASSUME answer.code \in 0 .. 255, [Next]_vars
  PROVE  answer'.code \in 0 .. 255
<1>1. CASE PythonSubmits
  BY <1>1, AnswersAreAnswers DEF PythonSubmits, Sound
<1>2. ASSUME ~PythonSubmits PROVE UNCHANGED answer
  BY <1>2 DEF Next, Steps, PythonSteps, ReadWord, Crash, Refuse, Tell, CmdTargets, Begin, Prepare,
       PrepareNothing, PrepareFails, CompileText, CompileBySpinorc, CmdEstimate,
       WriteArtifact, PrintArtifact, WriteManifest, CmdSubmit, Report,
       SpinorcAnswers, SpinorcRefuses, SpinorcSubmits, ScriptRefused, WriteScript,
       ScriptUnauthorized, RunScript, Quiet, vars, driverVars, RunPython, RunPythonFails,
       Collect, PythonWrites, PythonKilled
<1> QED BY <1>1, <1>2

LEMMA DriverRunsSubmission == Spec => SubmissionSpec
<1>1. Init => SubmissionInit /\ answer.code \in 0 .. 255
  BY DEF Init, NoAnswer
<1>2. answer.code \in 0 .. 255 /\ [Next]_vars => [SubmissionNext]_submissionVars
  BY DriverStepIsSubmission
<1>3. answer.code \in 0 .. 255 /\ [Next]_vars => (answer.code \in 0 .. 255)'
  BY CodesOfAnswers
<1> QED BY <1>1, <1>2, <1>3, PTL DEF Spec, SubmissionSpec

(* Whatever subcommand asks for python, and whatever happens to it, the    *)
(* driver has of its output all there was before it looks at it.           *)
THEOREM DriverCaptures == Spec => CapturesAll
BY DriverRunsSubmission, SubmissionCaptures, PTL
-----------------------------------------------------------------------------
(* What no step changes, and what only reading the words changes.          *)
LEMMA FixedParts ==
  ASSUME [Next]_vars
  PROVE  /\ UNCHANGED <<binary, env, was>>
         /\ ReadWord \/ UNCHANGED flagsVars
BY DEF Next, Steps, PythonSteps, ReadWord, Crash, Refuse, Tell, CmdTargets, Begin,
     Prepare, PrepareNothing, PrepareFails, CompileText, CompileBySpinorc,
     CmdEstimate, WriteArtifact, PrintArtifact, WriteManifest, CmdSubmit, Report,
     SpinorcAnswers, SpinorcRefuses, SpinorcSubmits, ScriptRefused, WriteScript,
     ScriptUnauthorized, RunScript, RunPython, RunPythonFails, Collect,
     PythonSubmits, PythonWrites, PythonKilled, OnlySubmission, Quiet, vars,
     driverVars

(* A setting is none of the fields whose values matter here.               *)
LEMMA FieldsOfFlags ==
  /\ \A name \in ValueFlags : FieldOf[name] # "positionals"
  /\ \A name \in SettingFlags :
       SettingOf[name][1] \notin {"positionals", "emit", "output"}
<1>1. ASSUME NEW name \in ValueFlags PROVE FieldOf[name] # "positionals"
  BY DEF FieldOf, ValueFlags
<1>2. ASSUME NEW name \in SettingFlags
      PROVE  SettingOf[name][1] \notin {"positionals", "emit", "output"}
  BY DEF SettingOf, SettingFlags
<1> QED BY <1>1, <1>2

LEMMA SetFits ==
  ASSUME FlagsFit(flags), NEW value, NEW field,
         field \notin {"positionals", "emit", "output"}
  PROVE  FlagsFit(Set(field, value))
BY DEF FlagsFit, Set, Defaults

LEMMA ErrFits ==
  ASSUME FlagsFit(flags)
  PROVE  FlagsFit(Err)
BY SetFits DEF Err

(* A value is checked where it matters.                                    *)
LEMMA TookFits ==
  ASSUME FlagsFit(flags), NEW field, field # "positionals",
         NEW value \in Seq(STRING)
  PROVE  FlagsFit(Took(field, value))
<1>1. CASE field = "emit" /\ value \in {<<e>> : e \in Formats}
  <2>1. Took(field, value) = [flags EXCEPT !["emit"] = value]
    BY <1>1 DEF Took, Set
  <2> QED BY <1>1, <2>1 DEF FlagsFit, Defaults
<1>2. CASE field = "output"
  <2>1. Took(field, value) = [flags EXCEPT !["output"] = value]
    BY <1>2 DEF Took, Set
  <2> QED BY <2>1 DEF FlagsFit, Defaults
<1>3. CASE field = "extras"
  <2>1. \/ Took(field, value) = Err \/ Took(field, value) = flags
        \/ Took(field, value) = [flags EXCEPT !.extras = flags.extras \cup {value}]
    BY <1>3 DEF Took
  <2>2. FlagsFit([flags EXCEPT !.extras = flags.extras \cup {value}])
    BY DEF FlagsFit, Defaults
  <2> QED BY <2>1, <2>2, ErrFits
<1>4. CASE field \notin {"emit", "output", "extras"}
  <2>1. Took(field, value) = Err \/ Took(field, value) = Set(field, value)
    BY <1>4 DEF Took
  <2> QED BY <1>4, <2>1, ErrFits, SetFits
<1>5. CASE field = "emit" /\ value \notin {<<e>> : e \in Formats}
  <2>1. Took(field, value) = Err
    BY <1>5 DEF Took, Formats
  <2> QED BY <2>1, ErrFits
<1> QED BY <1>1, <1>2, <1>3, <1>4, <1>5

LEMMA FlagsStay ==
  ASSUME FlagsOK, [Next]_vars
  PROVE  FlagsOK'
<1>0. FlagsFit(flags)
  BY DEF FlagsOK
<1>1. ASSUME NEW n \in Nat, NEW f, NEW s, FlagsFit(f), Read(n, f, s)
      PROVE  FlagsOK'
  BY <1>1 DEF Read, FlagsOK
<1>2. FlagsFit(Err)
  BY <1>0, ErrFits
<1>3. FlagsFit([Err EXCEPT !.subcommand = "unknown"])
  BY <1>2 DEF FlagsFit, Defaults
<1>4. ASSUME NEW name \in SettingFlags, NEW value
      PROVE  FlagsFit(Set(SettingOf[name][1], value))
  BY <1>0, FieldsOfFlags, SetFits
<1>5. ASSUME NEW name \in ValueFlags, NEW value \in Seq(STRING)
      PROVE  FlagsFit(Took(FieldOf[name], value))
  BY <1>0, FieldsOfFlags, TookFits
<1>6. \A value : FlagsFit(Set("subcommand", value))
  BY <1>0, SetFits
<1>7. 0 \in Nat /\ 1 \in Nat /\ 2 \in Nat
  OBVIOUS
<1>8. ASSUME NEW i \in Nat \ {0}, i <= Len(argv)
      PROVE  argv[i] \in Seq(STRING) \ {<< >>}
  BY <1>8 DEF FlagsOK
<1>9. CASE Positional
  <2>1. Word \in Seq(STRING) \ {<< >>} /\ Word # <<"--help">>
    <3>1. Word # <<"--help">>
      BY <1>9 DEF Positional, Name, Dashed
    <3> QED BY <1>8, <1>9, <3>1 DEF Positional, Local, FlagsOK, Word
  <2>2. flags' = [flags EXCEPT !.positionals = Append(flags.positionals, Word)]
    BY <1>9 DEF Positional, Read
  <2>3. FlagsFit(flags')
    BY <1>0, <2>1, <2>2 DEF FlagsFit, Defaults
  <2> QED BY <1>9, <2>3 DEF FlagsOK, Positional, Read
<1>10. CASE GlobalFlag
  <2>1. Name \in SettingFlags
    BY <1>10 DEF GlobalFlag, Name, SettingFlags
  <2> QED BY <1>1, <1>4, <1>7, <1>10, <2>1 DEF GlobalFlag
<1>11. CASE NoSubcommand \/ EndOfWords
  BY <1>0, <1>1, <1>7, <1>11 DEF NoSubcommand, EndOfWords
<1>12. CASE Subcommand
  BY <1>0, <1>1, <1>2, <1>3, <1>6, <1>7, <1>12 DEF Subcommand
<1>13. CASE RefuseSecret \/ TakeNothing \/ UnknownFlag
  BY <1>1, <1>2, <1>7, <1>13 DEF RefuseSecret, TakeNothing, UnknownFlag
<1>14. CASE TakeJoined
  <2>1. Tail(Word) \in Seq(STRING)
    <3>1. Word \in Seq(STRING) \ {<< >>}
      BY <1>8, <1>14 DEF TakeJoined, Local, FlagsOK, Word
    <3>2. \A S : \A s \in Seq(S) : s # << >> => Tail(s) \in Seq(S)
      OBVIOUS
    <3> QED BY <3>1, <3>2
  <2> QED BY <1>1, <1>5, <1>7, <1>14, <2>1 DEF TakeJoined, TakesValue
<1>15. CASE TakeNext
  <2>1. argv[pos + 1] \in Seq(STRING)
    BY <1>8, <1>15 DEF TakeNext, Local, FlagsOK, AtEnd
  <2> QED BY <1>1, <1>5, <1>7, <1>15, <2>1 DEF TakeNext, TakesValue
<1>16. CASE TakeSetting
  BY <1>1, <1>4, <1>7, <1>16 DEF TakeSetting
<1>17. CASE TakeHelp
  BY <1>1, <1>6, <1>7, <1>17 DEF TakeHelp
<1>18. CASE UNCHANGED flagsVars
  BY <1>18 DEF flagsVars, FlagsOK
<1> QED
  BY <1>9, <1>10, <1>11, <1>12, <1>13, <1>14, <1>15, <1>16, <1>17, <1>18, FixedParts
     DEF ReadWord, FlagsNext
-----------------------------------------------------------------------------
(* Where the driver is.                                                    *)
LEMMA ControlStays ==
  ASSUME DriverInv, [Next]_vars
  PROVE  Control'
<1> USE DEF DriverInv, Control, Early, Quiet, NoOutput, Exit
<1>f. UNCHANGED binary /\ (~ReadWord => UNCHANGED flags)
  BY FixedParts DEF flagsVars
<1>p. (Sub' = Sub /\ Input' = Input /\ Output' = Output) \/ ReadWord
  BY <1>f DEF Sub, Input, Output
<1>1. CASE ReadWord
  <2>1. /\ pc' \in {"parse", "main", "crash"} /\ pc = "parse"
        /\ UNCHANGED <<code, request, jobs, parent, child>>
    BY <1>1 DEF ReadWord, submissionVars, driverVars
  <2> QED BY <1>f, <2>1
<1>2. CASE Begin
  <2>1. flags.positionals # << >>
    BY <1>2 DEF Begin, Incomplete, Sub
  <2>2. Input # <<"--help">>
    <3>1. /\ flags.positionals \in Seq(Seq(STRING) \ {<<"--help">>})
          /\ 1 \in DOMAIN flags.positionals
      BY <2>1 DEF FlagsOK, FlagsFit
    <3>2. \A S, s : s \in Seq(S) /\ 1 \in DOMAIN s => s[1] \in S
      OBVIOUS
    <3>3. flags.positionals[1] \in Seq(STRING) \ {<<"--help">>}
      BY <3>1, <3>2
    <3> QED BY <3>3 DEF Input
  <2>3. /\ pc = "main" /\ Sub \in {"compile", "estimate", "run", "submit"}
        /\ UNCHANGED <<code, request, jobs, parent, child>>
        /\ Sub = "submit" => pc' = "submit"
        /\ Sub # "submit" /\ binary = "photonc" => pc' = "prepare"
        /\ Sub # "submit" /\ binary = "phononc" => pc' = "compile"
    BY <1>2 DEF Begin, submissionVars
  <2> QED BY <1>f, <1>p, <1>2, <2>2, <2>3 DEF ReadWord
<1>3. CASE \/ Crash \/ Refuse \/ Tell \/ CmdTargets
  BY <1>3, <1>f, <1>p DEF Crash, Refuse, Tell, CmdTargets, ReadWord, submissionVars
<1>4. CASE \/ Prepare \/ PrepareNothing \/ PrepareFails
  BY <1>4, <1>f, <1>p DEF Prepare, PrepareNothing, PrepareFails, ReadWord, submissionVars
<1>5. CASE \/ CompileText \/ CompileBySpinorc \/ CmdEstimate
  BY <1>5, <1>f, <1>p DEF CompileText, CompileBySpinorc, CmdEstimate, Keeps, ReadWord,
       submissionVars
<1>6. CASE \/ WriteArtifact \/ PrintArtifact \/ WriteManifest
  BY <1>6, <1>f, <1>p DEF WriteArtifact, PrintArtifact, WriteManifest, AfterCompile,
       ReadWord, submissionVars
<1>7. CASE \/ CmdSubmit \/ Report
  BY <1>7, <1>f, <1>p DEF CmdSubmit, Report, ReadWord, submissionVars
<1>8. CASE \/ RunPython \/ RunPythonFails \/ Collect
  BY <1>8, <1>f, <1>p DEF RunPython, RunPythonFails, Collect, OnlySubmission, Spawn,
       SpawnFails, ParentReads, Wait, Slurp, EndOfStream, ReadWord, Inv
<1>9. CASE \/ PythonSubmits \/ PythonWrites \/ PythonKilled
  BY <1>9, <1>f, <1>p DEF PythonSubmits, PythonWrites, PythonKilled, OnlySubmission,
       ChildStarts, ChildWrites, ChildEnds, ChildKilled, ReadWord
<1>10. CASE \/ SpinorcAnswers \/ SpinorcRefuses \/ SpinorcSubmits
  BY <1>10, <1>f, <1>p DEF SpinorcAnswers, SpinorcRefuses, SpinorcSubmits, ReadWord,
       submissionVars
<1>11. CASE \/ ScriptRefused \/ WriteScript \/ ScriptUnauthorized \/ RunScript
  BY <1>11, <1>f, <1>p DEF ScriptRefused, RunsScript, WriteScript, ScriptUnauthorized,
       RunScript, ReadWord, submissionVars
<1>12. CASE UNCHANGED vars
  BY <1>12, <1>f DEF vars, driverVars, flagsVars, submissionVars, Sub, Input, Output
<1> QED
  BY <1>1, <1>2, <1>3, <1>4, <1>5, <1>6, <1>7, <1>8, <1>9, <1>10, <1>11, <1>12
     DEF Next, Steps, PythonSteps
-----------------------------------------------------------------------------
(* A write changes one file.                                               *)
LEMMA WritesOne ==
  ASSUME NEW path, NEW body, Writes(path, body)
  PROVE  /\ \A q : q # path => /\ q \in DOMAIN disk' <=> q \in DOMAIN disk
                               /\ q \in DOMAIN disk => disk'[q] = disk[q]
         /\ "write" \notin faults' =>
              "write" \notin faults /\ path \in DOMAIN disk' /\ disk'[path] = body
<1>1. ASSUME NEW text0, disk' = Over([p \in {path} |-> text0], disk)
      PROVE  /\ \A q : q # path => /\ q \in DOMAIN disk' <=> q \in DOMAIN disk
                                   /\ q \in DOMAIN disk => disk'[q] = disk[q]
             /\ path \in DOMAIN disk' /\ disk'[path] = text0
  BY <1>1 DEF Over
<1>2. CASE disk' = Over([p \in {path} |-> body], disk) /\ UNCHANGED faults
  BY <1>1, <1>2
<1>3. CASE Faulty("write") /\ UNCHANGED disk
  BY <1>3 DEF Faulty
<1>4. CASE /\ Faulty("write")
           /\ disk' = Over([p \in {path} |-> [body EXCEPT !.whole = FALSE]], disk)
  <2>1. "write" \in faults'
    BY <1>4 DEF Faulty
  <2> QED BY <1>1, <1>4, <2>1
<1> QED BY <1>2, <1>3, <1>4 DEF Writes

LEMMA TemporariesAreSafe ==
  ASSUME Safe, UNCHANGED was, NEW path \in Temporary, NEW body, Writes(path, body)
  PROVE  Safe'
<1>1. Temporary' = Temporary
  BY DEF Temporary, TempText, TempQasm, TempScript, ManifestOf
<1> SUFFICES ASSUME NEW q \in (DOMAIN disk' \cup DOMAIN was) \ Temporary
             PROVE  q \in DOMAIN disk' /\ q \in DOMAIN was /\ disk'[q] = was[q]
  BY <1>1 DEF Safe, Same
<1>2. q # path
  OBVIOUS
<1>3. q \in DOMAIN disk' <=> q \in DOMAIN disk
  BY <1>2, WritesOne
<1>4. Same(q)
  BY <1>3 DEF Safe
<1>5. disk'[q] = disk[q]
  BY <1>2, <1>4, WritesOne DEF Same
<1> QED BY <1>3, <1>4, <1>5 DEF Same

LEMMA FaultsStay ==
  ASSUME [Next]_vars, "write" \notin faults'
  PROVE  "write" \notin faults
<1>1. \A kind : Faulty(kind) => "write" \notin faults
  BY DEF Faulty
<1>2. \A path, body : Writes(path, body) => "write" \notin faults
  BY WritesOne
<1>3. \A words, reply : Asks(words, reply) => "write" \notin faults
  BY <1>1 DEF Asks
<1> QED
  BY <1>1, <1>2, <1>3 DEF Next, Steps, PythonSteps, ReadWord, Crash, Refuse, Tell,
     CmdTargets, Begin, Prepare, PrepareNothing, PrepareFails, CompileText,
     CompileBySpinorc, CmdEstimate, WriteArtifact, PrintArtifact, WriteManifest,
     CmdSubmit, Report, SpinorcAnswers, SpinorcRefuses, SpinorcSubmits,
     ScriptRefused, WriteScript, ScriptUnauthorized, RunScript, RunPython,
     RunPythonFails, Collect, PythonSubmits, PythonWrites, PythonKilled, vars,
     driverVars

(* What is wanted is settled with the flags.                               *)
LEMMA WantedIsSettled ==
  ASSUME UNCHANGED <<binary, was, flags>>
  PROVE  /\ Sub' = Sub /\ Input' = Input /\ Output' = Output
         /\ Lowers' = Lowers /\ Wanted' = Wanted /\ TakesHelp' = TakesHelp
<1>1. Sub' = Sub /\ Input' = Input
  BY DEF Sub, Input
<1>2. Output' = Output /\ Emit' = Emit
  BY <1>1 DEF Output, Emit, TempQasm
<1>3. Lowers' = Lowers
  BY <1>1 DEF Lowers
<1>4. TakesHelp' = TakesHelp
  BY <1>2 DEF TakesHelp
<1>5. Wanted' = Wanted
  BY <1>1, <1>2 DEF Wanted, Text
<1> QED BY <1>1, <1>2, <1>3, <1>4, <1>5
-----------------------------------------------------------------------------
(* The files.                                                              *)
LEMMA DiskStays ==
  ASSUME DriverInv, [Next]_vars
  PROVE  DiskInv'
<1> USE DEF DriverInv
<1>w. UNCHANGED was
  BY FixedParts
<1>t. Temporary' = Temporary
  BY DEF Temporary, TempText, TempQasm, TempScript, ManifestOf
<1>e. disk = was => Safe
  BY DEF Safe, Same
<1>f. ReadWord \/ (/\ Sub' = Sub /\ Input' = Input /\ Output' = Output
                   /\ Lowers' = Lowers /\ UNCHANGED flags)
  BY FixedParts, WantedIsSettled DEF flagsVars
<1>s. Safe /\ UNCHANGED disk => Safe'
  BY <1>w, <1>t DEF Safe, Same
<1>g. "write" \notin faults' => "write" \notin faults
  BY FaultsStay
<1> USE DEF DiskInv, Control, Early, Quiet, NoOutput, Exit
<1>1. CASE ReadWord
  <2>1. /\ pc' \in {"parse", "main", "crash"} /\ pc = "parse" /\ UNCHANGED disk
    BY <1>1 DEF ReadWord
  <2> QED BY <1>w, <1>e, <1>s, <2>1
<1>2. CASE Begin
  BY <1>2, <1>w, <1>s, <1>f, <1>g DEF Begin, ReadWord, Lowers
<1>3. CASE \/ Crash \/ Refuse \/ Tell \/ CmdTargets
  BY <1>3, <1>w, <1>s, <1>f DEF Crash, Refuse, Tell, CmdTargets, ReadWord
<1>4. CASE PrepareNothing \/ PrepareFails
  BY <1>4, <1>w, <1>s, <1>f DEF PrepareNothing, PrepareFails, ReadWord, Lowers
<1>5. CASE Prepare
  <2>1. /\ Safe' /\ pc = "prepare" /\ pc' = "compile" /\ UNCHANGED <<flags, was>>
    BY <1>5, <1>w, TemporariesAreSafe DEF Prepare, Temporary, flagsVars
  <2>2. Lowers /\ disk = was
    BY <1>5 DEF Prepare, Lowers
  <2>3. "write" \notin faults' =>
          disk'[TempText] = Text("spinor", disk[Input].of, flags.target)
    BY <1>5, WritesOne DEF Prepare
  <2> QED BY <1>5, <1>f, <1>w, <2>1, <2>2, <2>3 DEF ReadWord, Text, TempText
<1>6. CASE \/ CompileText \/ CompileBySpinorc \/ CmdEstimate
  BY <1>6, <1>w, <1>s, <1>f DEF CompileText, CompileBySpinorc, CmdEstimate, Keeps,
       ReadWord
<1>7. CASE PrintArtifact
  BY <1>7, <1>w, <1>s, <1>f DEF PrintArtifact, ReadWord
<1>8. CASE WriteArtifact
  <2>1. /\ pc = "write" /\ pc' \in {"manifest", "submit", "exit"}
        /\ Sub = "run" => pc' \in {"manifest", "submit"}
        /\ Sub # "run" => pc' \in {"manifest", "exit"}
        /\ code' = 0
    BY <1>8 DEF WriteArtifact, AfterCompile
  <2>2. Sub = "run" => Safe'
    BY <1>8, <1>w, TemporariesAreSafe DEF WriteArtifact, Output, Temporary
  <2> QED BY <1>8, <1>w, <1>f, <2>1, <2>2 DEF WriteArtifact, ReadWord
<1>9. CASE WriteManifest
  <2>1. /\ pc = "manifest" /\ code' = 0
        /\ pc' = IF Sub = "run" THEN "submit" ELSE "exit"
    BY <1>9 DEF WriteManifest, AfterCompile
  <2>2. Sub = "run" => Safe'
    BY <1>9, <1>w, TemporariesAreSafe DEF WriteManifest, Output, Temporary
  <2> QED BY <1>9, <1>w, <1>f, <2>1, <2>2 DEF WriteManifest, ReadWord
<1>10. CASE CmdSubmit \/ Report
  BY <1>10, <1>w, <1>s, <1>f DEF CmdSubmit, Report, ReadWord
<1>11. CASE RunPython \/ RunPythonFails \/ Collect
  BY <1>11, <1>w, <1>s, <1>f DEF RunPython, RunPythonFails, Collect, OnlySubmission,
       ReadWord
<1>12. CASE PythonSubmits \/ PythonWrites \/ PythonKilled
  BY <1>12, <1>w, <1>s, <1>f DEF PythonSubmits, PythonWrites, PythonKilled,
       OnlySubmission, ReadWord
<1>13. CASE SpinorcAnswers \/ SpinorcRefuses \/ SpinorcSubmits
  BY <1>13, <1>w, <1>s, <1>f DEF SpinorcAnswers, SpinorcRefuses, SpinorcSubmits, ReadWord
<1>14. CASE ScriptRefused \/ ScriptUnauthorized
  BY <1>14, <1>w, <1>s, <1>f DEF ScriptRefused, RunsScript, ScriptUnauthorized, ReadWord
<1>15. CASE WriteScript
  <2>1. Safe' /\ pc' = "script" /\ binary = "spinorc"
    BY <1>15, <1>e, <1>w, TemporariesAreSafe DEF WriteScript, RunsScript, Temporary
  <2> QED BY <1>15, <1>w, <1>f, <2>1 DEF WriteScript, RunsScript, ReadWord
<1>16. CASE RunScript
  <2>1. disk' = [path \in DOMAIN disk \ {TempScript} |-> disk[path]]
    BY <1>16 DEF RunScript
  <2>2. Safe /\ binary = "spinorc" /\ pc' = "exit" /\ Sub = "help"
    BY <1>16 DEF RunScript
  <2>3. Safe'
    BY <1>w, <1>t, <2>1, <2>2 DEF Safe, Same, Temporary
  <2> QED BY <1>16, <1>w, <1>f, <2>2, <2>3 DEF RunScript, ReadWord
<1>17. CASE UNCHANGED vars
  <2>1. UNCHANGED <<pc, code, faults, disk, flags, binary>>
    BY <1>17 DEF vars, driverVars, flagsVars
  <2> QED BY <1>w, <1>s, <2>1, WantedIsSettled
<1> QED
  BY <1>1, <1>2, <1>3, <1>4, <1>5, <1>6, <1>7, <1>8, <1>9, <1>10, <1>11, <1>12,
     <1>13, <1>14, <1>15, <1>16, <1>17 DEF Next, Steps, PythonSteps
-----------------------------------------------------------------------------
(* The word after the first occurrence of a flag.                          *)
LEMMA ArgValueIsNext ==
  ASSUME NEW words, Len(words) \in Nat, NEW flag, NEW i \in 1 .. Len(words) - 1,
         words[i] = <<flag>>,
         \A j \in 1 .. i - 1 : words[j] # <<flag>>
  PROVE  ArgValue(words, flag) = words[i + 1]
<1>1. i \in After(words, flag) /\ After(words, flag) \subseteq Nat
  BY DEF After
<1>2. \A j \in After(words, flag) : i <= j
  BY DEF After
<1> DEFINE first(k) == k \in After(words, flag) /\ \A j \in After(words, flag) : k <= j
<1>3. \A k \in After(words, flag) : first(k) => k = i
  BY <1>1, <1>2
<1> DEFINE least == CHOOSE k \in After(words, flag) : \A j \in After(words, flag) : k <= j
<1>4. least = i
  BY <1>1, <1>2, <1>3
<1>5. ArgValue(words, flag) = words[1 + least]
  BY <1>1 DEF ArgValue
<1> HIDE DEF least
<1> QED BY <1>1, <1>4, <1>5

(* The command line of spinorc.                                            *)
LEMMA CompileWordsAre ==
  ASSUME Emit = "spinor"
  PROVE  /\ Len(CompileWords) = 4
         /\ CompileWords[1] = <<"compile">> /\ CompileWords[2] = <<"-t">>
         /\ CompileWords[3] = flags.target /\ CompileWords[4] = Lowered
<1>1. CompileWords = <<<<"compile">>, <<"-t">>, flags.target, Lowered>>
  BY DEF CompileWords
<1> QED BY <1>1

LEMMA EmitWordsAre ==
  ASSUME Emit # "spinor"
  PROVE  /\ CompileWords[1] = <<"emit">> /\ CompileWords[2] = <<"-t">>
         /\ CompileWords[3] = flags.target
         /\ CompileWords[4] = <<"-f">> /\ CompileWords[5] = <<Emit>>
         /\ \/ Len(CompileWords) = 6 /\ CompileWords[6] = Lowered
            \/ /\ Len(CompileWords) = 7
               /\ CompileWords[6] = <<"--verbatim">> /\ CompileWords[7] = Lowered
<1>1. CASE flags.verbatim
  <2>1. CompileWords = <<<<"emit">>, <<"-t">>, flags.target, <<"-f">>, <<Emit>>,
                         <<"--verbatim">>, Lowered>>
    BY <1>1 DEF CompileWords
  <2> QED BY <2>1
<1>2. CASE ~flags.verbatim
  <2>1. CompileWords = <<<<"emit">>, <<"-t">>, flags.target, <<"-f">>, <<Emit>>, Lowered>>
    BY <1>2 DEF CompileWords
  <2> QED BY <2>1
<1> QED BY <1>1, <1>2

LEMMA CompileTargetIs == Target(CompileWords) = flags.target
<1>1. /\ Len(CompileWords) \in Nat /\ Len(CompileWords) >= 4
      /\ CompileWords[2] = <<"-t">> /\ CompileWords[3] = flags.target
  <2>1. CASE Emit = "spinor"
    BY <2>1, CompileWordsAre
  <2>2. CASE Emit # "spinor"
    BY <2>2, EmitWordsAre
  <2> QED BY <2>1, <2>2
<1>2. CompileWords[1] = <<"compile">> \/ CompileWords[1] = <<"emit">>
  <2>1. CASE Emit = "spinor"
    BY <2>1, CompileWordsAre
  <2>2. CASE Emit # "spinor"
    BY <2>2, EmitWordsAre
  <2> QED BY <2>1, <2>2
<1>3. ArgValue(CompileWords, "-t") = CompileWords[2 + 1]
  <2>1. \A j \in 1 .. 2 - 1 : CompileWords[j] # <<"-t">>
    BY <1>2
  <2>2. 2 \in 1 .. Len(CompileWords) - 1
    BY <1>1
  <2> HIDE DEF CompileWords
  <2> QED BY <1>1, <2>1, <2>2, ArgValueIsNext
<1> QED BY <1>1, <1>2, <1>3 DEF Target

LEMMA SameFunction ==
  ASSUME NEW S, NEW f, NEW g, f = [x \in S |-> f[x]], g = [x \in S |-> g[x]],
         \A x \in S : f[x] = g[x]
  PROVE  f = g
<1>1. [x \in S |-> f[x]] = [x \in S |-> g[x]]
  OBVIOUS
<1> QED BY <1>1, Zenon

(* What compiling does to a text.                                          *)
Made(said, lang, chip) == [said EXCEPT !.lang = lang, !.chip = chip]

LEMMA TextOf ==
  ASSUME NEW said, NEW l, NEW o, NEW c, said = Text(l, o, c), NEW lang, NEW chip
  PROVE  Made(said, lang, chip) = Text(lang, o, chip)
<1> DEFINE now == [said EXCEPT !.lang = lang, !.chip = chip]
           then == Text(lang, o, chip)
           parts == {"lang", "of", "chip", "whole"}
<1>1. now = [x \in parts |-> now[x]] /\ then = [x \in parts |-> then[x]]
  BY DEF Text
<1>2. now["lang"] = then["lang"] /\ now["of"] = then["of"] /\ now["chip"] = then["chip"]
  BY DEF Text
<1>3. now["whole"] = then["whole"]
  BY DEF Text
<1> HIDE DEF now, then
<1>4. now = then
  BY <1>1, <1>2, <1>3, SameFunction
<1> QED BY <1>4 DEF now, then, Made

(* The file spinorc is given, when it was there to be compiled.            *)
LEMMA LoweredIsTheProgram ==
  ASSUME DiskInv, pc = "compile", "write" \notin faults, Lowered \in DOMAIN disk,
         NEW lang, NEW chip
  PROVE  Made(disk[Lowered], lang, chip) = Text(lang, was[Input].of, chip)
<1>1. \E l, c : disk[Lowered] = Text(l, was[Input].of, c)
  <2>1. CASE Lowers
    BY <2>1 DEF DiskInv, Lowered, Lowers
  <2>2. CASE ~Lowers
    <3>1. Lowered = Input /\ disk = was
      BY <2>2 DEF DiskInv, Lowered, Lowers
    <3> QED BY <3>1 DEF DiskInv
  <2> QED BY <2>1, <2>2
<1>2. PICK l, c : disk[Lowered] = Text(l, was[Input].of, c)
  BY <1>1
<1> QED BY <1>2, TextOf

(* An answer of spinorc with code 0 is what was wanted, or its usage.      *)
LEMMA ReplyIsGood ==
  ASSUME DriverInv, pc = "compile", Sub \in {"compile", "run"}, Emit # "phonon",
         "write" \notin faults,
         NEW reply \in Replies(CompileWords, disk), reply.code = 0
  PROVE  Good(reply.out)
<1> DEFINE words == CompileWords
<1>0. FlagsFit(flags) /\ Input # <<"--help">> /\ DiskInv
  BY DEF DriverInv, FlagsOK, Control
<1>1. /\ words[1] = <<"compile">> \/ words[1] = <<"emit">>
      /\ words[Len(words)] = Lowered
      /\ Len(words) \in Nat /\ Len(words) >= 4
  <2>1. CASE Emit = "spinor"
    <3>1. Len(words) = 4 /\ words[4] = Lowered /\ words[1] = <<"compile">>
      BY <2>1, CompileWordsAre
    <3> QED BY <3>1
  <2>2. CASE Emit # "spinor"
    BY <2>2, EmitWordsAre
  <2> QED BY <2>1, <2>2
<1>l. Last(words) = Lowered /\ File(words) = Lowered
  BY <1>1 DEF Last, File
<1>2. Emit \in Formats
  <2>1. PICK e \in Formats : flags.emit = <<e>>
    BY <1>0 DEF FlagsFit
  <2>2. flags.emit[1] = e
    BY <2>1
  <2> QED BY <2>1, <2>2 DEF Emit, Formats
<1>3. Lowered # <<"--help">>
  BY <1>0 DEF Lowered, TempText
<1>r. words[1] # <<"registry">> /\ words[1] # <<"parse">> /\ words[1] # <<"verify">>
  BY <1>1
<1>4. HasFlag(words, "--help") => TakesHelp
  <2>1. \A i \in 1 .. Len(words) : words[i] = <<"--help">> => words[i] = flags.target
    <3>1. <<Emit>> # <<"--help">>
      BY <1>2 DEF Formats
    <3>2. CASE Emit = "spinor"
      <4>1. /\ Len(words) = 4
            /\ words[1] # <<"--help">> /\ words[2] # <<"--help">>
            /\ words[3] = flags.target /\ words[4] # <<"--help">>
        BY <1>3, <3>2, CompileWordsAre
      <4> HIDE DEF words
      <4> QED BY <4>1
    <3>3. CASE Emit # "spinor"
      <4>1. /\ words[1] # <<"--help">> /\ words[2] # <<"--help">>
            /\ words[3] = flags.target
            /\ words[4] # <<"--help">> /\ words[5] # <<"--help">>
        BY <3>1, <3>3, EmitWordsAre
      <4>2. \/ Len(words) = 6 /\ words[6] # <<"--help">>
            \/ Len(words) = 7 /\ words[6] # <<"--help">> /\ words[7] # <<"--help">>
        BY <1>3, <3>3, EmitWordsAre
      <4> HIDE DEF words
      <4> QED BY <4>1, <4>2
    <3> QED BY <3>2, <3>3
  <2> QED BY <2>1 DEF HasFlag, TakesHelp
<1>5. CASE AsksHelp(words)
  <2>1. TakesHelp
    BY <1>1, <1>4, <1>5 DEF AsksHelp
  <2>2. reply = Done(Message)
    BY <1>r, <1>5 DEF Replies
  <2> QED BY <2>1, <2>2 DEF Done, Good
<1>6. CASE ~AsksHelp(words)
  <2>1. reply \in {Failed(1), Failed(2)} \/ (reply = Answer(words, disk)
                                             /\ Readable(disk, Lowered))
    BY <1>1, <1>l, <1>r, <1>6 DEF Replies
  <2>2. \A n : Failed(n).code = n
    BY DEF Failed
  <2>3. reply = Answer(words, disk) /\ Lowered \in DOMAIN disk
    BY <2>1, <2>2 DEF Readable
  <2>4. \A lang : Compiled(words, disk, lang) = Text(lang, was[Input].of, flags.target)
    BY <1>0, <1>l, <2>3, CompileTargetIs, LoweredIsTheProgram DEF Compiled, Source, Made
  <2>5. /\ Target(words) \in DOMAIN Registry
        /\ words[1] = <<"compile">> => reply = CompileReply(words, disk)
        /\ words[1] = <<"emit">> => reply = EmitReply(words, disk)
    BY <1>1, <2>2, <2>3 DEF Answer, Chips
  <2>6. CASE Emit = "spinor"
    <3>1. reply = Done(Text("spinor", was[Input].of, flags.target))
      BY <2>2, <2>4, <2>5, <2>6, CompileWordsAre DEF CompileReply
    <3> QED BY <2>6, <3>1 DEF Done, Good, Wanted
  <2>7. CASE Emit # "spinor"
    <3>1. reply = EmitReply(words, disk)
      BY <2>5, <2>7, EmitWordsAre
    <3>2. ArgValue(words, "-f") \in {<<Emit>>, <<"-f">>}
      <4>1. CASE flags.target = <<"-f">>
        <5>1. \A j \in 1 .. 3 - 1 : words[j] # <<"-f">>
          BY <2>7, EmitWordsAre
        <5>2. ArgValue(words, "-f") = words[3 + 1]
          BY <1>1, <2>7, <4>1, <5>1, EmitWordsAre, ArgValueIsNext
        <5> QED BY <2>7, <5>2, EmitWordsAre
      <4>2. CASE flags.target # <<"-f">>
        <5>1. \A j \in 1 .. 4 - 1 : words[j] # <<"-f">>
          BY <2>7, <4>2, EmitWordsAre
        <5>2. Len(words) \in Nat /\ 4 \in 1 .. Len(words) - 1 /\ words[4] = <<"-f">>
          BY <2>7, EmitWordsAre
        <5> HIDE DEF words
        <5>3. ArgValue(words, "-f") = words[4 + 1]
          BY ONLY <5>1, <5>2, ArgValueIsNext
        <5> USE DEF words
        <5> QED BY <2>7, <5>3, EmitWordsAre
      <4> QED BY <4>1, <4>2
    <3>3. reply = Done(Text(IF Registry[flags.target] = <<"ibm">> THEN "python" ELSE Emit,
                            was[Input].of, flags.target))
      <4>1. CASE Registry[flags.target] = <<"ibm">>
        BY <2>4, <3>1, <4>1, CompileTargetIs DEF EmitReply
      <4>2. CASE Registry[flags.target] # <<"ibm">>
        <5>1. /\ ArgValue(words, "-f") \in {<<"qasm3">>, <<"qir">>, <<"quil">>}
              /\ reply = Done(Compiled(words, disk, ArgValue(words, "-f")[1]))
          BY <2>2, <2>3, <3>1, <4>2, CompileTargetIs DEF EmitReply
        <5>2. ArgValue(words, "-f")[1] = Emit
          BY <3>2, <5>1
        <5> QED BY <2>4, <4>2, <5>1, <5>2
      <4> QED BY <4>1, <4>2
    <3> QED BY <2>7, <3>3 DEF Done, Good, Wanted
  <2> QED BY <2>6, <2>7
<1> QED BY <1>5, <1>6
-----------------------------------------------------------------------------
(* The artifact.                                                           *)
LEMMA ManifestIsApart ==
  ASSUME NEW S, NEW path \in Seq(S)
  PROVE  ManifestOf(path) # path
<1>1. Len(path \o <<".manifest.json">>) = Len(path) + 1
  OBVIOUS
<1> QED BY <1>1 DEF ManifestOf

LEMMA OutputIsAPath ==
  ASSUME FlagsFit(flags)
  PROVE  \E S : Output \in Seq(S)
<1>1. \A x : <<x>> \in Seq({x})
  OBVIOUS
<1> QED BY <1>1 DEF FlagsFit, Output, TempQasm

(* The lowered text itself, when that is what compile is asked for.        *)
LEMMA LoweredIsGood ==
  ASSUME DiskInv, pc = "compile", "write" \notin faults, Emit = "phonon"
  PROVE  Good(disk[Lowered])
<1>1. CASE Lowers
  <2>1. disk[Lowered] = Text("spinor", was[Input].of, flags.target)
    BY <1>1 DEF DiskInv, Lowered, Lowers
  <2> QED BY <1>1, <2>1 DEF Good, Wanted, Lowers
<1>2. CASE ~Lowers
  <2>1. disk[Lowered] = was[Input]
    BY <1>2 DEF DiskInv, Lowered, Lowers
  <2> QED BY <1>2, <2>1 DEF Good, Wanted, Lowers
<1> QED BY <1>1, <1>2

LEMMA ArtifactStays ==
  ASSUME DriverInv, [Next]_vars
  PROVE  ArtifactInv'
<1> SUFFICES ASSUME "write" \notin faults'
             PROVE  ArtifactInv'
  BY DEF ArtifactInv
<1>c. Control /\ DiskInv /\ FlagsFit(flags)
  BY DEF DriverInv, FlagsOK
<1>a. ArtifactInv /\ "write" \notin faults
  BY FaultsStay DEF DriverInv
<1>k. ReadWord \/ (/\ Sub' = Sub /\ Output' = Output /\ TakesHelp' = TakesHelp
                   /\ Wanted' = Wanted /\ UNCHANGED flags)
  BY FixedParts, WantedIsSettled DEF flagsVars
<1>o. TempQasm # Absent
  BY DEF TempQasm, Absent
<1> USE DEF Control, Early, Quiet, NoOutput, Exit, ArtifactInv
<1>1. CASE ReadWord
  BY <1>1, <1>c DEF ReadWord
<1>2. CASE Crash \/ Refuse \/ Tell \/ CmdTargets \/ Begin
  BY <1>2, <1>k, <1>c DEF Crash, Refuse, Tell, CmdTargets, Begin, Tells, ReadWord
<1>3. CASE \/ Prepare \/ PrepareNothing \/ PrepareFails \/ CmdEstimate
  BY <1>3, <1>k, <1>c DEF Prepare, PrepareNothing, PrepareFails, CmdEstimate, ReadWord
<1>4. CASE CompileText
  <2>1. \/ pc' = "exit" /\ code' = 1
        \/ pc' = "write" /\ artifact' = disk[Lowered]
    BY <1>4 DEF CompileText
  <2>2. Good(disk[Lowered])
    BY <1>4, <1>c, <1>a, LoweredIsGood DEF CompileText
  <2> QED BY <1>4, <1>k, <2>1, <2>2 DEF CompileText, ReadWord, Good
<1>5. CASE CompileBySpinorc
  <2>1. PICK reply : Asks(CompileWords, reply) /\ Keeps(reply)
    BY <1>5 DEF CompileBySpinorc
  <2>2. \A n : Failed(n).code = n
    BY DEF Failed
  <2>3. CASE reply.code = 0
    <3>1. reply \in Replies(CompileWords, disk)
      BY <2>1, <2>2, <2>3 DEF Asks
    <3>2. Good(reply.out)
      BY <1>5, <1>a, <2>3, <3>1, ReplyIsGood DEF CompileBySpinorc
    <3>3. artifact' = reply.out /\ pc' = "write"
      BY <2>1, <2>3 DEF Keeps
    <3> QED BY <1>5, <1>k, <3>2, <3>3 DEF CompileBySpinorc, ReadWord, Good
  <2>4. CASE reply.code # 0
    <3>1. pc' = "exit" /\ code' = reply.code
      BY <2>1, <2>4 DEF Keeps
    <3> QED BY <2>4, <3>1
  <2> QED BY <2>3, <2>4
<1>6. CASE WriteArtifact
  <2>1. Output \in DOMAIN disk' /\ disk'[Output] = artifact /\ Good(artifact)
    BY <1>6, <1>a, WritesOne DEF WriteArtifact
  <2>2. HoldsGood(Output)'
    BY <1>6, <1>k, <2>1 DEF HoldsGood, Good, WriteArtifact, ReadWord
  <2>3. Sub = "run" => Output = TempQasm /\ TempQasm' = TempQasm
    BY DEF Output, TempQasm
  <2>4. /\ pc' \in {"manifest", "submit", "exit"}
        /\ Sub # "run" => pc' # "submit"
    BY <1>6 DEF WriteArtifact, AfterCompile
  <2> QED BY <1>6, <1>k, <2>2, <2>3, <2>4 DEF WriteArtifact, ReadWord
<1>7. CASE PrintArtifact
  <2>1. printed' = {artifact} /\ Good(artifact) /\ pc' = "exit" /\ Output = Absent
    BY <1>7, <1>a DEF PrintArtifact
  <2> QED BY <1>7, <1>k, <2>1 DEF PrintArtifact, ReadWord, Good
<1>8. CASE WriteManifest
  <2>1. ManifestOf(Output) # Output
    BY <1>c, OutputIsAPath, ManifestIsApart
  <2>2. HoldsGood(Output) /\ Output # Absent
    BY <1>8, <1>a, <1>c DEF WriteManifest
  <2>3. Output \in DOMAIN disk' /\ disk'[Output] = disk[Output]
    BY <1>8, <2>1, <2>2, WritesOne DEF WriteManifest, HoldsGood
  <2>4. HoldsGood(Output)'
    BY <1>8, <1>k, <2>2, <2>3 DEF HoldsGood, Good, WriteManifest, ReadWord
  <2>5. Sub = "run" => Output = TempQasm /\ TempQasm' = TempQasm
    BY DEF Output, TempQasm
  <2>6. pc' \in {"submit", "exit"}
    BY <1>8 DEF WriteManifest, AfterCompile
  <2> QED BY <1>8, <1>k, <2>2, <2>4, <2>5, <2>6 DEF WriteManifest, ReadWord
<1>h. UNCHANGED disk /\ HoldsGood(TempQasm) /\ ~ReadWord => HoldsGood(TempQasm)'
  BY <1>k DEF HoldsGood, Good, TempQasm
<1>9. CASE CmdSubmit \/ Report
  BY <1>9, <1>c, <1>a, <1>k, <1>h DEF CmdSubmit, Report, ReadWord
<1>10. CASE RunPython \/ RunPythonFails \/ Collect
  BY <1>10, <1>c, <1>a, <1>k, <1>h DEF RunPython, RunPythonFails, Collect,
       OnlySubmission, ReadWord
<1>11. CASE PythonSubmits \/ PythonWrites \/ PythonKilled
  BY <1>11, <1>c, <1>a, <1>k, <1>h DEF PythonSubmits, PythonWrites, PythonKilled,
       OnlySubmission, ReadWord
<1>12. CASE \/ SpinorcAnswers \/ SpinorcRefuses \/ SpinorcSubmits
            \/ ScriptRefused \/ WriteScript \/ ScriptUnauthorized \/ RunScript
  <2>1. binary = "spinorc" /\ Sub = "help" /\ pc' \in {"exit", "python", "script"}
    BY <1>12, <1>c DEF SpinorcAnswers, SpinorcRefuses, SpinorcSubmits, ScriptRefused,
         RunsScript, WriteScript, ScriptUnauthorized, RunScript
  <2> QED BY <1>12, <1>c, <1>k, <2>1 DEF ReadWord
<1>13. CASE UNCHANGED vars
  <2>1. UNCHANGED <<pc, code, faults, disk, flags, binary, was, artifact, printed>>
    BY <1>13 DEF vars, driverVars, flagsVars
  <2>2. Sub' = Sub /\ Output' = Output /\ TakesHelp' = TakesHelp /\ Wanted' = Wanted
    BY <2>1, WantedIsSettled
  <2> QED BY <1>a, <2>1, <2>2 DEF HoldsGood, Good, TempQasm
<1> QED
  BY <1>1, <1>2, <1>3, <1>4, <1>5, <1>6, <1>7, <1>8, <1>9, <1>10, <1>11, <1>12,
     <1>13 DEF Next, Steps, PythonSteps
-----------------------------------------------------------------------------
(* What is asked of python.                                                *)
LEMMA FlagIsThere ==
  ASSUME NEW words, Len(words) \in Nat, NEW flag, NEW value,
         ArgValue(words, flag) = <<value>>
  PROVE  HasFlag(words, value)
<1> DEFINE after == After(words, flag)
           first(k) == k \in after /\ \A j \in after : k <= j
<1>1. after \subseteq Nat /\ \A k \in after : k + 1 \in 1 .. Len(words)
  BY DEF After
<1>2. after # {}
  BY DEF ArgValue
<1>3. \E k : first(k)
  <2>1. PICK n \in after : TRUE
    BY <1>2
  <2>2. IsWellFoundedOn(OpToRel(<, Nat), Nat)
    BY NatLessThanWellFounded
  <2>3. PICK k \in after : \A j \in after : ~(<<j, k>> \in OpToRel(<, Nat))
    BY <1>1, <2>1, <2>2, WFMin
  <2>4. \A j \in after : ~(j < k)
    BY <1>1, <2>3 DEF OpToRel
  <2>5. first(k)
    BY <1>1, <2>4
  <2> QED BY <2>5
<1> DEFINE least == CHOOSE k \in after : \A j \in after : k <= j
<1>4. first(least)
  BY <1>3
<1>5. ArgValue(words, flag) = words[1 + least]
  BY <1>2 DEF ArgValue
<1> HIDE DEF least
<1>6. least + 1 \in 1 .. Len(words) /\ words[least + 1] = <<value>>
  BY <1>1, <1>4, <1>5
<1> QED BY <1>6 DEF HasFlag

LEMMA LiveWasAsked ==
  ASSUME FlagsOK, SpinorcMode = <<"live">>
  PROVE  HasFlag(argv, "live")
<1>1. ArgValue(argv, "--mode") = <<"live">>
  <2>1. <<"cassette">> # <<"live">>
    OBVIOUS
  <2> QED BY <2>1 DEF SpinorcMode
<1>2. Len(argv) \in Nat
  BY DEF FlagsOK
<1> QED BY <1>1, <1>2, FlagIsThere

LEMMA RequestStays ==
  ASSUME DriverInv, [Next]_vars
  PROVE  RequestInv'
<1>c. Control /\ FlagsOK /\ RequestInv
  BY DEF DriverInv
<1>k. ReadWord \/ (/\ Sub' = Sub /\ Input' = Input /\ UNCHANGED <<flags, argv, binary>>)
  BY FixedParts, WantedIsSettled DEF flagsVars
<1>s. UNCHANGED argv => Target(argv)' = Target(argv) /\ Last(argv)' = Last(argv)
                        /\ HasFlag(argv, "live")' = HasFlag(argv, "live")
  BY DEF Target, ArgValue, After, Last, HasFlag
<1>t. TempQasm' = TempQasm
  BY DEF TempQasm
<1> USE DEF Control, Early, Quiet, NoOutput, Exit, RequestInv
<1>1. CASE ReadWord
  BY <1>1 DEF ReadWord
<1>2. CASE \/ Crash \/ Refuse \/ Tell \/ CmdTargets \/ Begin
           \/ Prepare \/ PrepareNothing \/ PrepareFails
           \/ CompileText \/ CompileBySpinorc \/ CmdEstimate
           \/ WriteArtifact \/ PrintArtifact \/ WriteManifest
  BY <1>2, <1>c DEF Crash, Refuse, Tell, CmdTargets, Begin, Prepare, PrepareNothing,
       PrepareFails, CompileText, CompileBySpinorc, Keeps, CmdEstimate,
       WriteArtifact, PrintArtifact, WriteManifest, AfterCompile
<1>3. CASE CmdSubmit
  <2>1. binary # "spinorc"
    BY <1>3, <1>c DEF CmdSubmit
  <2>2. /\ request'.path = IF Sub = "run" THEN TempQasm ELSE Input
        /\ request'.chip = flags.target /\ request'.mode = flags.mode
    BY <1>3 DEF CmdSubmit
  <2>3. ~ReadWord
    BY <1>3 DEF CmdSubmit, ReadWord
  <2> QED BY <1>k, <1>t, <2>1, <2>2, <2>3
<1>4. CASE SpinorcSubmits
  <2>1. binary = "spinorc"
    BY <1>4, <1>c DEF SpinorcSubmits
  <2>2. /\ request'.path = Last(argv) /\ request'.chip = Target(argv)
        /\ request'.mode = SpinorcMode
    BY <1>4 DEF SpinorcSubmits
  <2>3. ~ReadWord
    BY <1>4 DEF SpinorcSubmits, ReadWord
  <2>4. SpinorcMode = <<"live">> => HasFlag(argv, "live")
    BY <1>c, LiveWasAsked
  <2> QED BY <1>k, <1>s, <2>1, <2>2, <2>3, <2>4
<1>5. CASE RunPython \/ RunPythonFails \/ Collect
  BY <1>5, <1>c, <1>k, <1>s, <1>t DEF RunPython, RunPythonFails, Collect,
       OnlySubmission, ReadWord
<1>6. CASE PythonSubmits \/ PythonWrites \/ PythonKilled
  BY <1>6, <1>c, <1>k, <1>s, <1>t DEF PythonSubmits, PythonWrites, PythonKilled,
       OnlySubmission, ReadWord
<1>7. CASE \/ Report \/ SpinorcAnswers \/ SpinorcRefuses
           \/ ScriptRefused \/ WriteScript \/ ScriptUnauthorized \/ RunScript
  BY <1>7 DEF Report, SpinorcAnswers, SpinorcRefuses, ScriptRefused, RunsScript,
       WriteScript, ScriptUnauthorized, RunScript
<1>8. CASE UNCHANGED vars
  <2>1. UNCHANGED <<pc, flags, argv, binary, request>>
    BY <1>8 DEF vars, driverVars, flagsVars
  <2> QED BY <1>c, <1>s, <1>t, <2>1 DEF Sub, Input
<1> QED
  BY <1>1, <1>2, <1>3, <1>4, <1>5, <1>6, <1>7, <1>8 DEF Next, Steps, PythonSteps
-----------------------------------------------------------------------------
(* What python writes, chunk by chunk.                                     *)
Outs(chunks, n) == {i \in OutChunks(chunks) : i <= n}

LEMMA OutsGrow ==
  ASSUME NEW chunks \in Seq(Streams), NEW n \in Nat
  PROVE  /\ Cardinality(Outs(chunks, n)) \in Nat
         /\ Cardinality(Outs(chunks, 0)) = 0
         /\ n + 1 \in DOMAIN chunks =>
              Cardinality(Outs(chunks, n + 1)) =
                IF chunks[n + 1] = "out" THEN Cardinality(Outs(chunks, n)) + 1
                ELSE Cardinality(Outs(chunks, n))
<1>1. IsFiniteSet(Outs(chunks, n))
  <2>1. Outs(chunks, n) \subseteq 1 .. Len(chunks)
    BY DEF Outs, OutChunks
  <2>2. IsFiniteSet(1 .. Len(chunks))
    BY FS_Interval
  <2> QED BY <2>1, <2>2, FS_Subset
<1>2. Cardinality(Outs(chunks, n)) \in Nat
  BY <1>1, FS_CardinalityType
<1>3. Outs(chunks, 0) = {}
  BY DEF Outs, OutChunks
<1>4. Cardinality(Outs(chunks, 0)) = 0
  BY <1>3, FS_EmptySet
<1>5. ASSUME n + 1 \in DOMAIN chunks
      PROVE  Cardinality(Outs(chunks, n + 1)) =
               IF chunks[n + 1] = "out" THEN Cardinality(Outs(chunks, n)) + 1
               ELSE Cardinality(Outs(chunks, n))
  <2>1. CASE chunks[n + 1] = "out"
    <3>1. /\ Outs(chunks, n + 1) = Outs(chunks, n) \cup {n + 1}
          /\ n + 1 \notin Outs(chunks, n)
      BY <1>5, <2>1 DEF Outs, OutChunks
    <3> QED BY <1>1, <2>1, <3>1, FS_AddElement
  <2>2. CASE chunks[n + 1] # "out"
    <3>1. Outs(chunks, n + 1) = Outs(chunks, n)
      BY <2>2 DEF Outs, OutChunks
    <3> QED BY <2>2, <3>1
  <2> QED BY <2>1, <2>2
<1> QED BY <1>2, <1>4, <1>5

LEMMA AllOuts ==
  ASSUME NEW chunks \in Seq(Streams)
  PROVE  Outs(chunks, Len(chunks)) = OutChunks(chunks)
BY DEF Outs, OutChunks

(* Where the chunks are is only of interest to the steps of runPython.     *)
LEMMA OthersKeepAnswer ==
  ASSUME [Next]_vars
  PROVE  \/ RunPython \/ RunPythonFails \/ PythonSubmits \/ PythonWrites
         \/ PythonKilled \/ Collect
         \/ UNCHANGED <<submissionVars, answer>>
BY DEF Next, Steps, PythonSteps, ReadWord, Crash, Refuse, Tell, CmdTargets, Begin,
     Prepare, PrepareNothing, PrepareFails, CompileText, CompileBySpinorc,
     CmdEstimate, WriteArtifact, PrintArtifact, WriteManifest, CmdSubmit, Report,
     SpinorcAnswers, SpinorcRefuses, SpinorcSubmits, ScriptRefused, WriteScript,
     ScriptUnauthorized, RunScript, Quiet, vars, driverVars

LEMMA OutStays ==
  ASSUME DriverInv, [Next]_vars
  PROVE  OutInv'
<1>i. Inv /\ OutInv
  BY DEF DriverInv
<1>s. "out" \in Streams /\ "err" \in Streams
  BY DEF Streams
<1> USE DEF Inv, SubmissionTypeOK, OutInv, Left
<1>n. ASSUME answer = NoAnswer
      PROVE  text["out"] = 0 /\ pipe["out"] = 0
  <2>1. OutChunks(answer.script) = {}
    BY <1>n DEF NoAnswer, OutChunks
  <2>2. {i \in OutChunks(answer.script) : i <= Left} = {}
    BY <2>1
  <2>3. text["out"] + pipe["out"] = 0
    BY <1>i, <2>2, FS_EmptySet
  <2> QED BY <1>i, <1>s, <2>3, CapacityAssumption
<1>1. CASE RunPython
  BY <1>1, <1>i DEF RunPython, Spawn, OutChunks
<1>2. CASE RunPythonFails
  BY <1>2, <1>i DEF RunPythonFails, SpawnFails, OutChunks
<1>3. CASE PythonSubmits
  <2>1. PICK a \in Py!Answers(request, env, disk) \cup {NoPython} :
          ChildStarts(a.script) /\ answer' = a
    BY <1>3 DEF PythonSubmits
  <2>2. Sound(a)
    BY AnswersAreAnswers
  <2>3. /\ answer'.script = a.script /\ script' = a.script /\ child' = "running"
        /\ child = "forked" /\ UNCHANGED <<pipe, text>>
    BY <2>1 DEF ChildStarts
  <2>4. Len(answer'.script) - Len(script') = 0
    BY <2>2, <2>3 DEF Sound
  <2>5. text'["out"] + pipe'["out"] = 0
    BY <1>i, <1>n, <2>3
  <2>6. Cardinality({i \in OutChunks(answer'.script) : i <= 0}) = 0
    BY <2>2, <2>3, OutsGrow DEF Outs, Sound
  <2>7. \A j \in 1 .. Len(script') :
          script'[j] = answer'.script[(Len(answer'.script) - Len(script')) + j]
    BY <2>2, <2>3, <2>4 DEF Sound
  <2> QED BY <2>1, <2>2, <2>3, <2>4, <2>5, <2>6, <2>7 DEF Sound, OutChunks
<1>4. CASE ChildWrites /\ UNCHANGED answer
  <2> DEFINE said == answer.script
             before == Len(said) - Len(script)
  <2>1. /\ script \in Seq(Streams) /\ script # << >> /\ said \in Seq(Streams)
        /\ script' = Tail(script) /\ UNCHANGED <<text, child, status, answer>>
        /\ pipe' = [pipe EXCEPT ![Head(script)] = @ + 1]
        /\ before \in Nat /\ child = "running"
    BY <1>4, <1>i DEF ChildWrites
  <2>2. Len(script') = Len(script) - 1 /\ \A j \in 1 .. Len(script') : script'[j] = script[j + 1]
    BY <2>1
  <2>3. Len(said) - Len(script') = before + 1
    BY <2>1, <2>2
  <2>4. /\ before + 1 \in DOMAIN said /\ said[before + 1] = Head(script)
        /\ Head(script) \in Streams
    <3>1. Len(script) \in Nat \ {0} /\ Len(said) \in Nat
          /\ Head(script) = script[1] /\ script[1] \in Streams
      BY <2>1
    <3>2. script[1] = said[before + 1]
      BY <1>i, <3>1
    <3>3. before + 1 \in 1 .. Len(said)
      BY <2>1, <3>1
    <3>4. DOMAIN said = 1 .. Len(said)
      BY <2>1
    <3> HIDE DEF before, said
    <3> QED BY <3>1, <3>2, <3>3, <3>4
  <2>5. \A j \in 1 .. Len(script') : script'[j] = said[(before + 1) + j]
    <3> TAKE j \in 1 .. Len(script')
    <3>1. script'[j] = script[j + 1] /\ j + 1 \in 1 .. Len(script)
      BY <2>1, <2>2
    <3>2. script[j + 1] = said[before + (j + 1)]
      BY <1>i, <3>1
    <3>3. before + (j + 1) = (before + 1) + j
      <4>1. before \in Nat /\ j \in Int
        BY <2>1
      <4> HIDE DEF before
      <4> QED BY <4>1
    <3> QED BY <3>1, <3>2, <3>3
  <2>6. text["out"] + pipe["out"] = Cardinality(Outs(said, before))
    BY <1>i DEF Outs
  <2>7. Cardinality(Outs(said, before + 1)) =
          IF Head(script) = "out" THEN Cardinality(Outs(said, before)) + 1
          ELSE Cardinality(Outs(said, before))
    BY <2>1, <2>4, OutsGrow
  <2>8. /\ pipe'["out"] = IF Head(script) = "out" THEN pipe["out"] + 1 ELSE pipe["out"]
        /\ pipe["out"] \in Nat /\ text["out"] \in Nat
    <3>1. /\ pipe \in [Streams -> Int] /\ pipe["out"] \in Nat /\ text["out"] \in Nat
      BY <1>i, <1>s, CapacityAssumption
    <3> QED BY <1>s, <2>1, <2>4, <3>1
  <2>9. text["out"] + pipe'["out"] = Cardinality(Outs(said, before + 1))
    BY <2>6, <2>7, <2>8
  <2>10. /\ Left' = before + 1 /\ answer' = answer
         /\ {i \in OutChunks(answer.script)' : i <= before + 1} = Outs(said, before + 1)
    BY <2>1, <2>3 DEF OutChunks, Outs
  <2>11. \A j \in 1 .. Len(script') : script'[j] = answer.script[Left' + j]
    BY <2>5, <2>10
  <2>12. Left' >= 0
    BY <2>1, <2>10
  <2>13. text'["out"] + pipe'["out"] = Cardinality({i \in OutChunks(answer.script)' : i <= Left'})
    BY <2>1, <2>9, <2>10
  <2> HIDE DEF before, said, Left
  <2> QED BY <1>i, <2>1, <2>10, <2>11, <2>12, <2>13
<1>5. CASE ChildEnds(answer.code) /\ UNCHANGED answer
  BY <1>5, <1>i DEF ChildEnds, OutChunks
<1>6. CASE PythonKilled
  BY <1>6, <1>i DEF PythonKilled, ChildKilled, OutChunks
<1>7. ASSUME NEW s \in Streams, Slurp(s), UNCHANGED answer PROVE OutInv'
  <2>1. PICK n \in 1 .. pipe[s] : /\ pipe' = [pipe EXCEPT ![s] = @ - n]
                                  /\ text' = [text EXCEPT ![s] = @ + n]
    BY <1>7 DEF Slurp
  <2>2. text'["out"] + pipe'["out"] = text["out"] + pipe["out"]
    BY <1>i, <1>s, <2>1, CapacityAssumption
  <2> QED BY <1>7, <1>i, <2>2 DEF Slurp, OutChunks
<1>8. ASSUME NEW s \in Streams, EndOfStream(s), UNCHANGED answer PROVE OutInv'
  BY <1>8, <1>i DEF EndOfStream, OutChunks
<1>9. CASE Wait /\ UNCHANGED answer
  BY <1>9, <1>i DEF Wait, OutChunks
<1>10. CASE UNCHANGED <<submissionVars, answer>>
  BY <1>10, <1>i DEF submissionVars, OutChunks
<1> QED
  BY <1>1, <1>2, <1>3, <1>4, <1>5, <1>6, <1>7, <1>8, <1>9, <1>10, OthersKeepAnswer
     DEF PythonWrites, Collect, ParentReads

LEMMA ExitStays ==
  ASSUME DriverInv, [Next]_vars
  PROVE  ExitInv'
<1>i. Inv /\ OutInv /\ Control /\ ExitInv
  BY DEF DriverInv
<1> USE DEF Control, Early, Quiet, NoOutput, Exit, ExitInv
<1>1. CASE Report
  <2>1. SUFFICES ASSUME code' = 0
                 PROVE  /\ status' = 0
                        /\ printed' = {[chunks |-> Cardinality(OutChunks(answer.script)')]}
    OBVIOUS
  <2>2. child # "none" /\ status % 256 = 0 /\ parent = "done"
    BY <1>1, <2>1 DEF Report, ExitCode
  <2>3. child = "ended" /\ pipe["out"] = 0 /\ status \in Codes
    BY <1>i, <2>2 DEF Inv, SubmissionTypeOK
  <2>4. status = 0
    BY <2>2, <2>3 DEF Codes
  <2>5. script = << >> /\ answer.script \in Seq(Streams)
    BY <1>i, <2>3, <2>4 DEF OutInv
  <2>6. Left = Len(answer.script)
    BY <2>5 DEF Left
  <2>7. text["out"] = Cardinality(OutChunks(answer.script))
    <3>1. text["out"] + pipe["out"] = Cardinality(Outs(answer.script, Left))
      BY <1>i DEF OutInv, Outs
    <3>2. text["out"] \in Nat
      BY <1>i DEF Inv, SubmissionTypeOK, Streams
    <3> QED BY <2>3, <2>5, <2>6, <3>1, <3>2, AllOuts
  <2>8. /\ status' = status /\ answer' = answer
        /\ printed' = {[chunks |-> text["out"]]}
    BY <1>1 DEF Report, submissionVars
  <2> QED BY <2>4, <2>7, <2>8 DEF OutChunks
<1>2. CASE \/ Crash \/ Refuse \/ Tell \/ CmdTargets \/ Begin
           \/ Prepare \/ PrepareNothing \/ PrepareFails
           \/ CompileText \/ CompileBySpinorc \/ CmdEstimate
           \/ WriteArtifact \/ PrintArtifact \/ WriteManifest
  BY <1>2, <1>i DEF Crash, Refuse, Tell, CmdTargets, Begin, Prepare, PrepareNothing,
       PrepareFails, CompileText, CompileBySpinorc, Keeps, CmdEstimate,
       WriteArtifact, PrintArtifact, WriteManifest, AfterCompile
<1>3. CASE \/ ReadWord \/ CmdSubmit \/ SpinorcSubmits \/ RunPython \/ RunPythonFails
           \/ PythonSubmits \/ PythonWrites \/ PythonKilled \/ Collect
  BY <1>3, <1>i DEF ReadWord, CmdSubmit, SpinorcSubmits, RunPython, RunPythonFails,
       PythonSubmits, PythonWrites, PythonKilled, Collect, OnlySubmission
<1>4. CASE \/ SpinorcAnswers \/ SpinorcRefuses
           \/ ScriptRefused \/ WriteScript \/ ScriptUnauthorized \/ RunScript
  BY <1>4, <1>i DEF SpinorcAnswers, SpinorcRefuses, ScriptRefused, RunsScript,
       WriteScript, ScriptUnauthorized, RunScript
<1>5. CASE UNCHANGED vars
  BY <1>5, <1>i DEF vars, driverVars, submissionVars, OutChunks
<1> QED
  BY <1>1, <1>2, <1>3, <1>4, <1>5 DEF Next, Steps, PythonSteps
-----------------------------------------------------------------------------
(* The jobs.                                                               *)
LEMMA JobIsAsked ==
  ASSUME DriverInv, PythonSubmits,
         NEW a \in Py!Answers(request, env, disk), a.job # << >>, jobs' = a.job
  PROVE  \E job :
           /\ jobs' = <<job>>
           /\ IF env.mode # << >> THEN env.mode = <<"live">>
              ELSE IF binary = "spinorc" THEN HasFlag(argv, "live")
              ELSE flags.mode = <<"live">>
           /\ job.chip = IF binary = "spinorc" THEN Target(argv) ELSE flags.target
           /\ "write" \notin faults =>
                job.text = CASE binary = "spinorc" -> was[Last(argv)]
                             [] binary # "spinorc" /\ Sub = "submit" -> was[Input]
                             [] OTHER -> Wanted
<1>c. /\ Control /\ RequestInv /\ DiskInv /\ ArtifactInv
      /\ pc = "wait"
  BY DEF DriverInv, PythonSubmits
<1>1. /\ a.job = Py!Job(request, env, disk[request.path])
      /\ Py!Accepts(request, disk[request.path])
      /\ Py!ModeUsed(request, env) = <<"live">>
  BY JobsAreLive
<1>2. PICK job : /\ jobs' = <<job>> /\ job.chip = request.chip
                 /\ job.text = disk[request.path]
  BY <1>1 DEF Py!Job
<1>3. IF env.mode # << >> THEN env.mode = <<"live">>
      ELSE IF binary = "spinorc" THEN HasFlag(argv, "live")
      ELSE flags.mode = <<"live">>
  BY <1>c, <1>1 DEF RequestInv, Py!ModeUsed
<1>4. request.chip = IF binary = "spinorc" THEN Target(argv) ELSE flags.target
  BY <1>c DEF RequestInv
<1>5. ASSUME "write" \notin faults
      PROVE  disk[request.path] = CASE binary = "spinorc" -> was[Last(argv)]
                             [] binary # "spinorc" /\ Sub = "submit" -> was[Input]
                             [] OTHER -> Wanted
  <2>1. CASE binary = "spinorc"
    BY <1>c, <2>1 DEF RequestInv, DiskInv
  <2>2. CASE binary # "spinorc" /\ Sub = "submit"
    BY <1>c, <2>2 DEF RequestInv, DiskInv
  <2>3. CASE binary # "spinorc" /\ Sub = "run"
    <3>1. request.path = TempQasm /\ HoldsGood(TempQasm)
      BY <1>c, <1>5, <2>3 DEF RequestInv, ArtifactInv
    <3>2. ~(TakesHelp /\ disk[TempQasm] = Message)
      <4>1. ASSUME TakesHelp, disk[TempQasm] = Message PROVE FALSE
        <5>1. request.chip \notin Arns \cup Targets
          BY <1>4, <2>3, <4>1, ChipsAssumption DEF TakesHelp
        <5>2. disk[request.path].lang # "qasm"
          <6>1. Message.lang = "message"
            BY DEF Message, Text
          <6> QED BY <3>1, <4>1, <6>1
        <5> QED BY <1>1, <5>1, <5>2 DEF Py!Accepts
      <4> QED BY <4>1
    <3> QED BY <2>3, <3>1, <3>2 DEF HoldsGood, Good
  <2> QED BY <1>c, <2>1, <2>2, <2>3 DEF Control
<1> QED BY <1>2, <1>3, <1>4, <1>5

LEMMA JobsStay ==
  ASSUME DriverInv, [Next]_vars
  PROVE  SubmitsWhatWasAsked'
<1>c. Control /\ Inv /\ SubmitsWhatWasAsked
  BY DEF DriverInv
<1>w. UNCHANGED <<binary, env, was>>
  BY FixedParts
<1>f. "write" \notin faults' => "write" \notin faults
  BY FaultsStay
<1>s. UNCHANGED argv => Target(argv)' = Target(argv) /\ Last(argv)' = Last(argv)
                        /\ HasFlag(argv, "live")' = HasFlag(argv, "live")
  BY DEF Target, ArgValue, After, Last, HasFlag
<1>k. ReadWord \/ (/\ Sub' = Sub /\ Input' = Input /\ Wanted' = Wanted
                   /\ UNCHANGED <<flags, argv>>)
  BY FixedParts, WantedIsSettled DEF flagsVars
<1>1. CASE ReadWord
  <2>1. jobs' = << >>
    BY <1>1, <1>c DEF ReadWord, Control, Early, Inv, driverVars
  <2> QED BY <2>1 DEF SubmitsWhatWasAsked
<1>2. CASE PythonSubmits
  <2>1. PICK a \in Py!Answers(request, env, disk) \cup {NoPython} :
          jobs' = jobs \o a.job /\ child = "forked" /\ Sound(a)
    BY <1>2, AnswersAreAnswers DEF PythonSubmits, ChildStarts
  <2>2. jobs = << >>
    BY <1>c, <2>1 DEF Control
  <2>3. jobs' = a.job
    BY <2>1, <2>2 DEF Sound, PlacedBy
  <2>4. CASE a.job = << >>
    BY <2>3, <2>4 DEF SubmitsWhatWasAsked
  <2>5. CASE a.job # << >>
    <3>1. a \in Py!Answers(request, env, disk)
      BY <2>5, <2>1 DEF NoPython
    <3>2. ~ReadWord
      BY <1>2 DEF PythonSubmits, ReadWord
    <3>3. PICK job :
           /\ jobs' = <<job>>
           /\ IF env.mode # << >> THEN env.mode = <<"live">>
              ELSE IF binary = "spinorc" THEN HasFlag(argv, "live")
              ELSE flags.mode = <<"live">>
           /\ job.chip = IF binary = "spinorc" THEN Target(argv) ELSE flags.target
           /\ "write" \notin faults =>
                job.text = CASE binary = "spinorc" -> was[Last(argv)]
                             [] binary # "spinorc" /\ Sub = "submit" -> was[Input]
                             [] OTHER -> Wanted
      BY <1>2, <2>3, <2>5, <3>1, JobIsAsked
    <3>4. \A i \in DOMAIN jobs' : jobs'[i] = job
      BY <3>3
    <3> QED BY <1>w, <1>f, <1>s, <1>k, <3>2, <3>3, <3>4 DEF SubmitsWhatWasAsked
  <2> QED BY <2>4, <2>5
<1>3. CASE ~ReadWord /\ ~PythonSubmits
  <2>1. UNCHANGED jobs
    BY <1>3 DEF Next, Steps, PythonSteps, Crash, Refuse, Tell, CmdTargets, Begin,
     Prepare, PrepareNothing, PrepareFails, CompileText, CompileBySpinorc,
     CmdEstimate, WriteArtifact, PrintArtifact, WriteManifest, CmdSubmit, Report,
     SpinorcAnswers, SpinorcRefuses, SpinorcSubmits, ScriptRefused, WriteScript,
     ScriptUnauthorized, RunScript, RunPython, RunPythonFails, Collect,
     PythonWrites, PythonKilled, Quiet, vars, driverVars
  <2> QED BY <1>c, <1>w, <1>f, <1>s, <1>k, <1>3, <2>1 DEF SubmitsWhatWasAsked
<1> QED BY <1>1, <1>2, <1>3
-----------------------------------------------------------------------------
LEMMA DriverInvInit == Init => DriverInv
<1> SUFFICES ASSUME Init PROVE DriverInv
  OBVIOUS
<1>1. Inv
  BY InvInit DEF Init
<1>2. /\ binary \in {"photonc", "phononc", "spinorc"}
      /\ argv \in Seq(Seq(STRING) \ {<< >>})
  BY CommandsAssumption DEF Init
<1>3. FlagsOK
  <2>1. FlagsFit(Defaults)
    BY DEF FlagsFit, Defaults, Formats, Absent
  <2> QED BY <1>2, <2>1 DEF FlagsOK, Init, FlagsInit
<1>4. Control
  BY <1>2 DEF Control, Early, Init, FlagsInit, Defaults, Sub, SubmissionInit
<1>5. DiskInv
  <2>1. \A path \in DOMAIN was :
          was[path] = Text(was[path].lang, was[path].of, was[path].chip)
    <3>1. CASE was = Files
      BY <3>1, FilesAssumption
    <3>2. CASE was = Over(Stale, Files)
      <4> TAKE path \in DOMAIN was
      <4>1. \/ path \in DOMAIN Stale /\ was[path] = Stale[path]
            \/ path \in DOMAIN Files /\ was[path] = Files[path]
        <5>1. DOMAIN was = DOMAIN Stale \cup DOMAIN Files
          BY <3>2 DEF Over
        <5>2. was[path] = IF path \in DOMAIN Stale THEN Stale[path] ELSE Files[path]
          BY <3>2, <5>1 DEF Over
        <5> QED BY <5>1, <5>2
      <4> QED BY <4>1, FilesAssumption
    <3> QED BY <3>1, <3>2 DEF Init
  <2>2. disk = was /\ Safe /\ pc \in {"parse", "spinorc"}
    BY DEF Init, Safe, Same
  <2> QED BY <2>1, <2>2 DEF DiskInv
<1>6. ArtifactInv /\ RequestInv /\ ExitInv /\ SubmitsWhatWasAsked
  BY DEF ArtifactInv, RequestInv, ExitInv, SubmitsWhatWasAsked, Init
<1>7. OutInv
  <2>1. /\ answer = NoAnswer /\ script = << >> /\ child = "none"
        /\ text["out"] = 0 /\ pipe["out"] = 0
    BY DEF Init, SubmissionInit, Empty, Streams
  <2>2. /\ answer.script = << >> /\ answer.code = 0
    BY <2>1 DEF NoAnswer
  <2>3. Left = 0
    BY <2>1, <2>2 DEF Left
  <2>4. {i \in OutChunks(answer.script) : i <= Left} = {}
    BY <2>2 DEF OutChunks
  <2> QED BY <2>1, <2>2, <2>3, <2>4, FS_EmptySet DEF OutInv
<1> QED BY <1>1, <1>3, <1>4, <1>5, <1>6, <1>7 DEF DriverInv

LEMMA DriverInvNext == DriverInv /\ [Next]_vars => DriverInv'
<1> SUFFICES ASSUME DriverInv, [Next]_vars PROVE DriverInv'
  OBVIOUS
<1>1. Inv'
  <2>1. Inv /\ answer.code \in 0 .. 255
    BY DEF DriverInv, OutInv
  <2> QED BY <2>1, DriverStepIsSubmission, InvNext
<1>2. FlagsOK'
  BY FlagsStay DEF DriverInv
<1> QED
  BY <1>1, <1>2, ControlStays, DiskStays, ArtifactStays, RequestStays, OutStays,
     ExitStays, JobsStay DEF DriverInv

(* Unless a write failed, exit code 0 means that compile left what it was  *)
(* asked for where it was asked to, or that python ended well and all it   *)
(* said was printed; any other code means that no file of the user is      *)
(* changed.  Whatever the command line, the files, the replies of spinorc  *)
(* and the faults of the processes.                                        *)
THEOREM ExitCodeTellsOutcome == Spec => []ExitTellsOutcome
<1>1. DriverInv => ExitTellsOutcome
  <2> SUFFICES ASSUME DriverInv, pc = "exit", "write" \notin faults
               PROVE  ExitTellsOutcome
    BY DEF ExitTellsOutcome
  <2>1. ASSUME code = 0, Sub = "compile", ~TakesHelp
        PROVE  IF Output = Absent THEN printed = {Wanted}
               ELSE Output \in DOMAIN disk /\ disk[Output] = Wanted
    BY <2>1 DEF DriverInv, ArtifactInv, HoldsGood, Good
  <2>2. code = 0 /\ request # Nothing =>
          /\ status = 0
          /\ printed = {[chunks |-> Cardinality(OutChunks(answer.script))]}
    BY DEF DriverInv, ExitInv
  <2>3. code # 0 => Safe
    BY DEF DriverInv, DiskInv
  <2> QED BY <2>1, <2>2, <2>3 DEF ExitTellsOutcome, Safe, Same
<1> QED BY DriverInvInit, DriverInvNext, <1>1, PTL DEF Spec

(* A job is the one asked for: live, for the chip, and of the text given   *)
(* or, unless a write failed, of what this run compiled: never of a file   *)
(* an earlier process left under the same name.                            *)
THEOREM JobsAreAsked == Spec => []SubmitsWhatWasAsked
<1>1. DriverInv => SubmitsWhatWasAsked
  BY DEF DriverInv
<1> QED BY DriverInvInit, DriverInvNext, <1>1, PTL DEF Spec
=============================================================================
