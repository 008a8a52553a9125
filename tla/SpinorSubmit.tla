---------------------------- MODULE SpinorSubmit ----------------------------
(***************************************************************************)
(* python -m spinor_submit submit: what it does with a request, and what   *)
(* it may print.  The vendors' services are outside the repository: a live *)
(* one answers with counts or fails, and its client may log as it goes.    *)
(***************************************************************************)
EXTENDS Integers, Sequences, SequencesExt

CONSTANTS
  Cassettes,  \* <<provider, program name>> with a recorded answer
  Arns,       \* the chips the Braket adapter knows
  Targets,    \* the chips Azure lists
  Volumes     \* chunks that counts, or a client's log, may take

Supported == {"ibm", "aws", "azure", "local", "qci", "anyon", "tii", "alicebob"}

Chunks(s, n) == [i \in 1 .. n |-> s]

NoJob == << >>

(* What the child will write, its exit code, and the job it placed.        *)
Fails(code) == {[script |-> <<"err">>, code |-> code, job |-> NoJob]}
Prints == {[script |-> Chunks("out", n), code |-> 0, job |-> NoJob] : n \in Volumes}

(* _read_secret and what is done with it: it becomes the environment's     *)
(* default, so a token that is there already stays.                        *)
Key(request, env) ==
  IF env.token # << >> THEN env.token
  ELSE IF request.keyFile # << >> THEN request.keyFile
  ELSE IF request.keyStdin THEN <<"stdin">> ELSE << >>
KeyMissing(request, files) ==
  request.keyFile # << >> /\ request.keyFile \notin DOMAIN files

(* --mode too is only the default of SPINOR_SUBMIT_MODE.                   *)
ModeUsed(request, env) == IF env.mode # << >> THEN env.mode ELSE request.mode

FromCassette(request) ==
  IF <<request.provider, request.name>> \in Cassettes THEN Prints ELSE Fails(1)

(* Whether the adapter gets as far as placing a job.                       *)
Accepts(request, text) ==
  CASE request.provider = <<"ibm">> -> text.lang = "qasm"
    [] request.provider = <<"aws">> -> request.chip \in Arns
    [] request.provider = <<"azure">> -> request.chip \in Targets
    [] OTHER -> FALSE

Job(request, env, text) ==
  <<[chip |-> request.chip, provider |-> request.provider, shots |-> request.shots,
     key |-> Key(request, env), text |-> text]>>

(* The job is placed, and its result is waited for, which may fail.        *)
Live(request, env, text) ==
  IF ~Accepts(request, text) THEN Fails(1)
  ELSE {[script |-> Chunks("err", log) \o Chunks("out", n), code |-> 0,
         job |-> Job(request, env, text)] : log \in Volumes \cup {0}, n \in Volumes}
       \cup {[script |-> <<"err">>, code |-> 1, job |-> Job(request, env, text)]}

(* The local provider prints a histogram without counts.                   *)
Submitted(request, env, text) ==
  CASE request.provider = <<"local">> -> Prints \cup Fails(1)
    [] request.provider # <<"local">> /\ ModeUsed(request, env) = <<"cassette">> ->
         FromCassette(request)
    [] request.provider # <<"local">> /\ ModeUsed(request, env) = <<"live">> ->
         Live(request, env, text)
    [] OTHER -> Fails(1)

(* _cmd_submit, behind the choices argparse allows.                        *)
Answers(request, env, files) ==
  IF request.provider \notin {<<p>> : p \in Supported} THEN Fails(2)
  ELSE IF KeyMissing(request, files) \/ request.path \notin DOMAIN files THEN Fails(1)
  ELSE Submitted(request, env, files[request.path])
=============================================================================
