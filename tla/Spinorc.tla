------------------------------ MODULE Spinorc ------------------------------
(***************************************************************************)
(* What spinorc answers to a command line, for the files there are.  A     *)
(* text is known by its language, the program it says, the chip it was     *)
(* made for and whether all of it is there.                                *)
(***************************************************************************)
EXTENDS Integers, Sequences, SequencesExt

CONSTANTS
  Registry,    \* the provider of each chip
  Small,       \* the chips a state vector can simulate
  Unreadable,  \* the programs the Spinor parser rejects
  Refused,     \* <<program, chip>> the pass manager reports an error for
  Different,   \* <<program, chip>> compiled to something else than the program
  Lawful       \* <<program, chip>> the verifier accepts

NoChip == << >>

Text(lang, of, chip) == [lang |-> lang, of |-> of, chip |-> chip, whole |-> TRUE]
Message == Text("message", "", NoChip)

(* What a process leaves: its exit code, and what it printed.              *)
Failed(code) == [code |-> code, out |-> Message]
Done(text) == [code |-> 0, out |-> text]

(* The word after the first occurrence of a flag, if it is not the last.   *)
After(words, flag) == {i \in 1 .. Len(words) - 1 : words[i] = <<flag>>}
ArgValue(words, flag) ==
  IF After(words, flag) = {} THEN << >>
  ELSE words[1 + CHOOSE i \in After(words, flag) :
                   \A j \in After(words, flag) : i <= j]
HasFlag(words, flag) == \E i \in 1 .. Len(words) : words[i] = <<flag>>

(* A program's text may be read when it is Spinor, or Phonon that is also  *)
(* Spinor; what is left of a text that was cut may be read or not.         *)
Readable(files, path) ==
  /\ path \in DOMAIN files
  /\ files[path].lang \in {"spinor", "phonon"}
  /\ files[path].of \notin Unreadable
Rejectable(files, path) == ~Readable(files, path) \/ ~files[path].whole

File(words) == IF words[1] = <<"parse">> THEN words[2] ELSE Last(words)
Source(words, files) == files[File(words)]
(* submit knows -t by its long name too.                                   *)
Target(words) ==
  IF words[1] = <<"submit">> /\ ArgValue(words, "-t") = << >>
  THEN ArgValue(words, "--target") ELSE ArgValue(words, "-t")
Compiled(words, files, lang) ==
  [Source(words, files) EXCEPT !.lang = lang, !.chip = Target(words)]
PassesRefuse(words, files) == <<Source(words, files).of, Target(words)>> \in Refused

(* The commands that need a chip and a file: their answer once the file is *)
(* read and the chip is in the registry.                                   *)
CompileReply(words, files) ==
  IF PassesRefuse(words, files) THEN Failed(1) ELSE Done(Compiled(words, files, "spinor"))

(* IBM chips get the program as Qiskit code, whatever format was asked.    *)
EmitReply(words, files) ==
  IF Registry[Target(words)] = <<"ibm">> THEN Done(Compiled(words, files, "python"))
  ELSE IF PassesRefuse(words, files) THEN Failed(1)
  ELSE IF ArgValue(words, "-f") \in {<<"qasm3">>, <<"qir">>, <<"quil">>}
       THEN Done(Compiled(words, files, ArgValue(words, "-f")[1]))
  ELSE Failed(2)

(* check compares with the source on chips small enough, and else does not. *)
CheckReply(words, files) ==
  IF PassesRefuse(words, files) THEN Failed(1)
  ELSE IF /\ Target(words) \in Small
          /\ <<Source(words, files).of, Target(words)>> \in Different
       THEN [code |-> 1, out |-> Compiled(words, files, "estimate")]
  ELSE Done(Compiled(words, files, "estimate"))

VerifyReply(words, files) ==
  IF <<Source(words, files).of, Target(words)>> \in Lawful THEN Done(Message) ELSE Failed(1)

ParseReply(words, files) == Done(Source(words, files))

Chips(words) ==
  DOMAIN Registry \cup IF words[1] = <<"verify">> THEN {<<"generic">>} ELSE {}

Answer(words, files) ==
  IF words[1] # <<"parse">> /\ Target(words) \notin Chips(words) THEN Failed(1)
  ELSE CASE words[1] = <<"parse">> -> ParseReply(words, files)
         [] words[1] = <<"verify">> -> VerifyReply(words, files)
         [] words[1] = <<"compile">> -> CompileReply(words, files)
         [] words[1] = <<"emit">> -> EmitReply(words, files)
         [] words[1] = <<"check">> -> CheckReply(words, files)

AsksHelp(words) ==
  \/ words[1] \in {<<"--help">>, <<"-h">>, <<"help">>}
  \/ /\ words[1] \in {<<"compile">>, <<"emit">>, <<"check">>, <<"run">>}
     /\ HasFlag(words, "--help")

(* A command line that is short of what its command needs is refused.      *)
Misused(words) ==
  CASE words[1] = <<"parse">> -> Len(words) < 2
    [] words[1] = <<"emit">> ->
         Target(words) = << >> \/ ArgValue(words, "-f") = << >> \/ Len(words) < 5
    [] words[1] \in {<<"verify">>, <<"compile">>, <<"check">>} ->
         Target(words) = << >> \/ Len(words) < 4
    [] OTHER -> TRUE

Replies(words, files) ==
  IF words[1] = <<"registry">> /\ Len(words) > 1 /\ words[2] = <<"list">>
  THEN {Done(Text("registry", "", NoChip))}
  ELSE IF AsksHelp(words) THEN {Done(Message)}
  ELSE IF Misused(words) THEN {Failed(2)}
  ELSE (IF Readable(files, File(words)) THEN {Answer(words, files)} ELSE {})
       \cup (IF Rejectable(files, File(words)) THEN {Failed(1)} ELSE {})
=============================================================================
