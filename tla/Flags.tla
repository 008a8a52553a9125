------------------------------- MODULE Flags -------------------------------
(***************************************************************************)
(* The command line photonc and phononc share, read word by word.  A word  *)
(* is the sequence of its parts between "=" signs, so --target=x is        *)
(* <<"--target", "x">> and a flag with no value yet is a sequence of one.  *)
(***************************************************************************)
EXTENDS Integers, Sequences

CONSTANTS
  Numbers,     \* the words std::stoi and std::stod read a number from
  StrayFlags   \* other names that begin with a dash

VARIABLES
  argv,   \* the words after the program's name
  pos,    \* the word to be read
  flags,  \* what was read
  stage   \* "global", "local", "parsed" or "crashed"

flagsVars == <<argv, pos, flags, stage>>

Subcommands ==
  {"compile", "estimate", "submit", "run", "targets", "providers", "version"}
Modes == {"cassette", "live", "local"}
Formats == {"qasm3", "qir", "quil", "phonon", "spinor"}

(* The flags that take a value, and the field each of them sets.           *)
ValueFlags ==
  {"--target", "-t", "--provider", "--url", "--region", "--instance",
   "--api-key-file", "--config", "--shots", "--cost-cap-usd", "--mode", "--emit",
   "-o", "--out", "--extra"}

FieldOf ==
  [name \in ValueFlags |->
     CASE name \in {"--target", "-t"} -> "target"
       [] name = "--provider" -> "provider"
       [] name = "--url" -> "url"
       [] name = "--region" -> "region"
       [] name = "--instance" -> "instance"
       [] name = "--api-key-file" -> "keyFile"
       [] name = "--config" -> "config"
       [] name = "--shots" -> "shots"
       [] name = "--cost-cap-usd" -> "costCap"
       [] name = "--mode" -> "mode"
       [] name = "--emit" -> "emit"
       [] name \in {"-o", "--out"} -> "output"
       [] name = "--extra" -> "extras"]

(* The flags that are there or not, and the field and value each sets.     *)
SettingFlags ==
  {"--api-key-stdin", "--manifest", "--verbatim", "--no-verbatim",
   "-v", "--verbose", "-q", "--quiet"}

SettingOf ==
  [name \in SettingFlags |->
     CASE name = "--api-key-stdin" -> <<"keyStdin", TRUE>>
       [] name = "--manifest" -> <<"manifest", TRUE>>
       [] name = "--verbatim" -> <<"verbatim", TRUE>>
       [] name = "--no-verbatim" -> <<"verbatim", FALSE>>
       [] name \in {"-v", "--verbose"} -> <<"verbose", TRUE>>
       [] name \in {"-q", "--quiet"} -> <<"quiet", TRUE>>]

Secrets == {"--api-key", "--token", "--bearer", "--password", "--secret"}
HelpWords == {<<"-h">>, <<"--help">>}
Dashed == ValueFlags \cup SettingFlags \cup Secrets \cup StrayFlags
            \cup {"-h", "--help"}

Absent == << >>   \* std::nullopt

Defaults ==
  [subcommand |-> "help", mode |-> <<"cassette">>, emit |-> <<"qasm3">>,
   target |-> Absent, provider |-> Absent, url |-> Absent, region |-> Absent,
   instance |-> Absent, keyFile |-> Absent, config |-> Absent, shots |-> Absent,
   costCap |-> Absent, output |-> Absent, extras |-> {}, positionals |-> << >>,
   keyStdin |-> FALSE, manifest |-> FALSE, verbatim |-> TRUE, verbose |-> FALSE,
   quiet |-> FALSE, error |-> FALSE]

FlagsInit == pos = 1 /\ flags = Defaults /\ stage = "global"

Word == argv[pos]
AtEnd == pos = Len(argv)
Name == Word[1]

(* Whether something follows the first "=" of the word.                    *)
HasValue(word) == Len(word) > 1 /\ word # <<word[1], "">>

Set(field, value) == [flags EXCEPT ![field] = value]
Err == Set("error", TRUE)

Read(n, f, s) == pos' = pos + n /\ flags' = f /\ stage' = s /\ UNCHANGED argv

(* -v and -q may come before the subcommand.                               *)
GlobalFlag ==
  /\ stage = "global" /\ pos <= Len(argv)
  /\ Word \in {<<"-v">>, <<"--verbose">>, <<"-q">>, <<"--quiet">>}
  /\ Read(1, Set(SettingOf[Name][1], TRUE), "global")

NoSubcommand ==
  /\ stage = "global" /\ pos > Len(argv)
  /\ Read(0, flags, "parsed")

(* The first other word is the subcommand, and help and version end there. *)
Subcommand ==
  /\ stage = "global" /\ pos <= Len(argv)
  /\ Word \notin {<<"-v">>, <<"--verbose">>, <<"-q">>, <<"--quiet">>}
  /\ IF Word \in HelpWords \cup {<<"help">>} THEN Read(0, flags, "parsed")
     ELSE IF Len(Word) > 1 \/ Name \notin Subcommands
          THEN Read(0, [Err EXCEPT !.subcommand = "unknown"], "parsed")
     ELSE IF Name = "version" THEN Read(0, Set("subcommand", Name), "parsed")
     ELSE Read(1, Set("subcommand", Name), "local")

(* A secret in the arguments, which every process can list, is refused.    *)
SecretLiteral == Name \in Secrets /\ HasValue(Word)

(* What the flags are once a value is read: modes, formats and numbers are *)
(* checked, the first of two equal extras stays, and else the last one.    *)
Took(field, value) ==
  CASE field = "extras" ->
         IF Len(value) < 2 THEN Err
         ELSE IF \E e \in flags.extras : e[1] = value[1] THEN flags
         ELSE [flags EXCEPT !.extras = @ \cup {value}]
    [] field = "mode" ->
         IF value \in {<<m>> : m \in Modes} THEN Set(field, value) ELSE Err
    [] field = "emit" ->
         IF value \in {<<f>> : f \in Formats} THEN Set(field, value) ELSE Err
    [] field \in {"shots", "costCap"} ->
         IF value \in Numbers THEN Set(field, value) ELSE Err
    [] OTHER -> Set(field, value)

Local == stage = "local" /\ pos <= Len(argv)
TakesValue == Name \in ValueFlags

RefuseSecret == Local /\ SecretLiteral /\ Read(1, Err, "local")

TakeJoined ==
  /\ Local /\ TakesValue /\ HasValue(Word)
  /\ Read(1, Took(FieldOf[Name], Tail(Word)), "local")

(* The next word is the value, whatever it looks like.                     *)
TakeNext ==
  /\ Local /\ TakesValue /\ Len(Word) = 1 /\ ~AtEnd
  /\ Read(2, Took(FieldOf[Name], argv[pos + 1]), "local")

(* The error is noted and the flags left to try are compared with the word *)
(* past the last one: a string_view of a null pointer.                     *)
TakeNothing ==
  /\ Local /\ TakesValue /\ Len(Word) = 1 /\ AtEnd
  /\ Read(1, Err, "crashed")

TakeSetting ==
  /\ Local /\ Len(Word) = 1 /\ Name \in SettingFlags
  /\ Read(1, Set(SettingOf[Name][1], SettingOf[Name][2]), "local")

TakeHelp ==
  /\ Local /\ Word \in HelpWords
  /\ Read(1, Set("subcommand", "help"), "parsed")

UnknownFlag ==
  /\ Local /\ Name \in Dashed /\ Word \notin HelpWords /\ ~SecretLiteral
  /\ TakesValue => Len(Word) > 1 /\ ~HasValue(Word)
  /\ Name \in SettingFlags => Len(Word) > 1
  /\ Read(1, Err, "local")

Positional ==
  /\ Local /\ Name \notin Dashed
  /\ Read(1, [flags EXCEPT !.positionals = Append(@, Word)], "local")

EndOfWords == stage = "local" /\ pos > Len(argv) /\ Read(0, flags, "parsed")

FlagsNext ==
  \/ GlobalFlag \/ NoSubcommand \/ Subcommand
  \/ RefuseSecret \/ TakeJoined \/ TakeNext \/ TakeNothing
  \/ TakeSetting \/ TakeHelp \/ UnknownFlag \/ Positional \/ EndOfWords

(* validate: what a subcommand cannot do without.                          *)
Incomplete ==
  /\ flags.subcommand \in {"compile", "estimate", "run", "submit"}
  /\ flags.target = Absent \/ flags.positionals = << >>
=============================================================================
