------------------------------ MODULE MCDriver ------------------------------
(***************************************************************************)
(* A small world: a few chips of each vendor, programs of each fate, and   *)
(* command lines that meet every case of the parser and the drivers.       *)
(***************************************************************************)
EXTENDS Driver, TLC

Heron == <<"ibm_heron_r2">>
Forte == <<"ionq_forte">>
H2 == <<"quantinuum_h2_1">>
Ankaa == <<"rigetti_ankaa_9q_3">>

MCRegistry ==
  Heron :> <<"ibm">> @@ Forte :> <<"aws">> @@ H2 :> <<"azure">> @@ Ankaa :> <<"aws">>
  @@ <<"qci_aqumen">> :> <<"qci">>
MCSmall == {Ankaa}
MCUnreadable == {"loop"}
MCRefused == {<<"wide", Ankaa>>, <<"wide", H2>>}
MCDifferent == {<<"odd", Ankaa>>}
MCLawful == {<<"native", Forte>>, <<"native", <<"generic">>>>}
MCInvalid == {"bad"}
MCNumbers == {<<"100">>}
MCStrayFlags == {"-x"}

MCFiles ==
  <<"bell.pho">> :> Text("photon", "bell", NoChip) @@
  <<"wide.pho">> :> Text("photon", "wide", NoChip) @@
  <<"bad.pho">> :> Text("photon", "bad", NoChip) @@
  <<"odd.spn">> :> Text("spinor", "odd", NoChip) @@
  <<"native.spn">> :> Text("spinor", "native", Forte) @@
  <<"loop.phonon">> :> Text("phonon", "loop", NoChip) @@
  <<"bell.qasm3">> :> Text("qasm3", "bell", Forte) @@
  <<"old.qasm">> :> Text("qasm", "old", NoChip) @@
  <<"key.txt">> :> Text("key", "key", NoChip) @@
  <<"ibm.json">> :> Text("credentials", "key", NoChip)
MCStale ==
  TempText :> Text("spinor", "stale", NoChip) @@ TempQasm :> Text("qasm3", "stale", H2)

Paths == DOMAIN MCFiles \cup {<<"none.pho">>, <<"none.phonon">>}
Named(names) == {<<n>> : n \in names}
MCExtension ==
  [p \in Paths |->
     CASE p \in Named({"bell.pho", "wide.pho", "bad.pho", "none.pho"}) -> "pho"
       [] p \in Named({"loop.phonon", "none.phonon"}) -> "phonon"
       [] p \in Named({"odd.spn", "native.spn"}) -> "spinor"
       [] OTHER -> "other"]
MCStem ==
  [p \in Paths |-> IF p \in Named({"bell.pho", "bell.qasm3"}) THEN "bell" ELSE "program"]

MCCassettes == {<<<<"aws">>, "bell">>, <<<<"ibm">>, "bell">>}
MCArns == {Forte}
MCTargets == {H2}
MCEnvironments ==
  {[mode |-> << >>, token |-> << >>], [mode |-> <<"live">>, token |-> <<"env">>],
   [mode |-> <<"cassette">>, token |-> << >>]}

On(chip, path) == <<<<"-t">>, chip, path>>
Live1 == <<<<"--mode">>, <<"live">>>>

(* What photonc and phononc are both asked.                                *)
Shared ==
  { << >>, <<<<"-v">>, <<"--help">>>>, <<<<"-q">>>>, <<<<"launch">>>>, <<<<"version">>>>,
    <<<<"providers">>>>, <<<<"targets">>, <<"-q">>>>, <<<<"compile">>, <<"--help">>>>,
    <<<<"compile">>>> \o On(Forte, <<"bell.pho">>) \o <<<<"--emit">>>>,
    <<<<"compile">>>> \o On(<<"--help">>, <<"bell.pho">>),
    <<<<"run">>, <<"--token", "t">>>> \o On(Forte, <<"bell.pho">>),
    <<<<"run">>, <<"bell.pho">>>>, <<<<"compile">>, <<"--target", "">>, <<"bell.pho">>>>,
    <<<<"submit">>, <<"--mode", "dry">>, <<"-x">>>> \o On(Forte, <<"bell.qasm3">>),
    <<<<"submit">>, <<"--extra">>, <<"a", "1">>, <<"--extra", "a", "2">>, <<"--shots", "100">>>>
      \o On(Forte, <<"bell.qasm3">>),
    <<<<"submit">>, <<"--extra", "a">>, <<"--shots", "many">>>> \o On(Forte, <<"bell.qasm3">>) }
  \cup {<<<<"compile">>, <<"--emit", e>>, <<"-o">>, <<"out">>, <<"--manifest">>>> \o On(c, p) :
         e \in {"qasm3", "phonon", "spinor"}, c \in {Heron, Forte, H2},
         p \in Named({"bell.pho", "wide.pho"})}
  \cup {<<<<"compile">>, <<"--no-verbatim">>, <<"-o", "native.spn">>>> \o On(Ankaa, p) :
         p \in Named({"bad.pho", "native.spn", "loop.phonon", "none.phonon", "key.txt"})}
  \cup {<<<<"compile">>, <<"--emit", e>>>> \o On(c, p) :
         e \in {"quil", "phonon"}, c \in {Ankaa, <<"none">>}, p \in Named({"odd.spn", "none.pho"})}
  \cup {<<<<"estimate">>>> \o On(c, p) :
         c \in {Ankaa, Forte}, p \in Named({"odd.spn", "bell.pho"})}
  \cup {<<<<"run">>>> \o m \o On(c, p) :
         m \in {<< >>, Live1}, c \in {Heron, Forte, H2},
         p \in Named({"bell.pho", "wide.pho", "native.spn"})}
  \cup {<<<<"submit">>>> \o m \o k \o On(c, <<"bell.qasm3">>) :
         m \in {<< >>, Live1, <<<<"--mode", "local">>>>}, c \in {Forte, <<"qci_aqumen">>},
         k \in {<<<<"--api-key-stdin">>>>, <<<<"--api-key-file", "key.txt">>>>,
                <<<<"--api-key-file", "nokey.txt">>>>}}
  \cup {<<<<"submit">>, <<"--provider">>, <<v>>>> \o Live1 \o On(Heron, <<"old.qasm">>) :
         v \in {"ibm", "local", "acme"}}

OnlySpinorc ==
  {<<<<"parse">>, <<"odd.spn">>>>, <<<<"registry">>, <<"list">>>>, <<<<"help">>>>, <<<<"parse">>>>,
   <<<<"emit">>, <<"--help">>>>, <<<<"run">>, <<"odd.spn">>>>, <<<<"run">>, <<"--help">>>>, <<<<"check">>, <<"-t">>, Ankaa>>,
   <<<<"emit">>>> \o On(Forte, <<"odd.spn">>) \o <<<<"-f">>, <<"svg">>, <<"odd.spn">>>>}
  \cup {<<<<"verify">>>> \o On(c, <<"native.spn">>) : c \in {Forte, H2, <<"generic">>}}
  \cup {<<<<"run">>, <<"-t">>, c>> \o k \o <<p>> :
         c \in {Heron, Forte, <<"none">>}, p \in Named({"odd.spn", "loop.phonon"}),
         k \in {<< >>, <<<<"--api-key-file">>, <<"ibm.json">>>>,
                <<<<"--token">>, <<"t">>, <<"--instance">>, <<"i">>>>,
                <<<<"--token">>, <<"t">>>>}}
  \cup {<<<<"submit">>>> \o m \o On(Forte, <<"bell.qasm3">>) :
         m \in {<< >>, Live1, <<<<"--mode">>, <<"dry">>>>}}
  \cup {<<<<"submit">>, <<"--target">>, H2>> \o Live1 \o <<<<"bell.qasm3">>>>}

MCCommands == ({"photonc", "phononc"} \X Shared) \cup ({"spinorc"} \X OnlySpinorc)
=============================================================================
