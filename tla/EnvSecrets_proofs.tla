------------------------- MODULE EnvSecrets_proofs -------------------------
(***************************************************************************)
(* The env recipes for any environments, values and terminals: files stay  *)
(* whole when recipes overlap, and one recipe at a time never loses a      *)
(* ciphertext nor changes what nobody edited.                              *)
(***************************************************************************)
EXTENDS EnvSecrets, EnvLink, TLAPS

\* What a job has by the time it comes to a step.
Ready(j) == /\ j.step # "next" => j.name \in Names
            /\ j.step \in {"mv", "save"} => j.text # None
            /\ j.step = "mv" => j.text.raw # Zeros
            /\ j.step \in {"editor", "save"} => j.before # None

Sound == TypeOK /\ \A t \in Terminals : job[t] # None => Ready(job[t])
-----------------------------------------------------------------------------
(* Files and jobs.                                                         *)

LEMMA WholeIsCiphertext ==
    ASSUME TypeOK, NEW n \in Names, Whole(enc[n])
    PROVE  enc[n] \in Ciphertexts
BY DEF TypeOK, Whole

LEMMA CiphertextIsWhole ==
    ASSUME NEW c \in Ciphertexts
    PROVE  Whole(c) /\ c.raw \in Raws \cup {Blank} /\ c.raw # Zeros /\ c.mine \in BOOLEAN
BY MarkersAssumption DEF Ciphertexts, Whole

\* Stripping a layer of quotes leaves a right-hand side.
LEMMA ParseType ==
    ASSUME NEW raw \in Raws \cup {Blank}
    PROVE  parse(raw) \in Raws \cup {Blank}
BY EnvAssumption DEF parse, Raws

\* A rekeyed file is a ciphertext of the same right-hand side.
LEMMA RekeyedType ==
    ASSUME NEW c \in Ciphertexts, NEW n
    PROVE  /\ [c EXCEPT !.mine = n \in Mine] \in Ciphertexts
           /\ [c EXCEPT !.mine = n \in Mine].raw = c.raw
<1> DEFINE b == n \in Mine
<1>1. b \in BOOLEAN
  OBVIOUS
<1> HIDE DEF b
<1>2. [c EXCEPT !.mine = b] \in Ciphertexts /\ [c EXCEPT !.mine = b].raw = c.raw
  BY <1>1 DEF Ciphertexts
<1> QED BY <1>2 DEF b

LEMMA SelectionsType ==
    ASSUME NEW r \in Recipes, NEW S \in Selections(r)
    PROVE  S \subseteq Names
<1>1. r \in {"decrypt", "encrypt", "edit", "new", "envfile", "clean", "rekey"}
  BY EnvAssumption
<1>2. CASE r \in {"decrypt", "encrypt"}
  BY <1>2 DEF Selections
<1>3. CASE r \in {"edit", "new", "envfile"}
  BY <1>3 DEF Selections
<1>4. CASE r = "clean"
  BY <1>4 DEF Selections
<1>5. CASE r = "rekey"
  BY <1>5 DEF Selections
<1> QED BY <1>1, <1>2, <1>3, <1>4, <1>5

\* The job of a terminal is replaced by a job, or ends.
LEMMA JobReplaced ==
    ASSUME Sound, NEW t \in Terminals, NEW j, job' = [job EXCEPT ![t] = j],
           j = None \/ (j \in Jobs /\ Ready(j)),
           enc' \in [Names -> Ciphertexts \cup {Torn, None}], dec' \in [Names -> Plaintexts \cup {None}],
           orphans' \subseteq Names
    PROVE  Sound'
<1>1. job' \in [Terminals -> Jobs \cup {None}]
  BY DEF Sound, TypeOK
<1>2. \A u \in Terminals : job'[u] = IF u = t THEN j ELSE job[u]
  BY DEF Sound, TypeOK
<1>3. \A u \in Terminals : job'[u] # None => Ready(job'[u])
  BY <1>2 DEF Sound
<1> QED BY <1>1, <1>3 DEF Sound, TypeOK, Ready

LEMMA JobMoves ==
    ASSUME NEW j \in Jobs, Ready(j), NEW s \in Steps,
           s # "next" => j.name \in Names,
           s \in {"mv", "save"} => j.text # None,
           s = "mv" => j.text.raw # Zeros,
           s \in {"editor", "save"} => j.before # None
    PROVE  [j EXCEPT !.step = s] \in Jobs /\ Ready([j EXCEPT !.step = s])
BY DEF Jobs, Steps, Ready

LEMMA JobOf ==
    ASSUME Sound, NEW t \in Terminals, job[t] # None
    PROVE  job[t] \in Jobs /\ Ready(job[t])
BY DEF Sound, TypeOK

\* The files of a state that is typed.
FilesTyped == /\ enc \in [Names -> Ciphertexts \cup {Torn, None}]
              /\ dec \in [Names -> Plaintexts \cup {None}]
              /\ orphans \subseteq Names

LEMMA ExitSound ==
    ASSUME Sound, NEW t \in Terminals, Exit(t), FilesTyped'
    PROVE  Sound'
BY JobReplaced DEF Exit, FilesTyped

LEMMA GotoSound ==
    ASSUME Sound, NEW t \in Terminals, job[t] # None, NEW s \in Steps, Goto(t, s), FilesTyped',
           s # "next" => job[t].name \in Names,
           s \in {"mv", "save"} => job[t].text # None,
           s = "mv" => job[t].text.raw # Zeros,
           s \in {"editor", "save"} => job[t].before # None
    PROVE  Sound'
<1>1. job' = [job EXCEPT ![t] = [job[t] EXCEPT !.step = s]]
  BY DEF Goto
<1>2. [job[t] EXCEPT !.step = s] \in Jobs /\ Ready([job[t] EXCEPT !.step = s])
  BY JobOf, JobMoves
<1> QED BY <1>1, <1>2, JobReplaced DEF FilesTyped

LEMMA FilesKept ==
    ASSUME Sound, UNCHANGED <<enc, dec, orphans>>
    PROVE  FilesTyped'
BY DEF Sound, TypeOK, FilesTyped

\* At a step that has a name, the name is an environment and the job is complete.
LEMMA AtStep ==
    ASSUME Sound, NEW t \in Terminals, NEW s, Running(t, s), s # "next"
    PROVE  /\ job[t] # None /\ job[t] \in Jobs /\ Ready(job[t]) /\ job[t].step = s
           /\ job[t].name \in Names
           /\ enc[job[t].name] \in Ciphertexts \cup {Torn, None}
           /\ dec[job[t].name] \in Plaintexts \cup {None}
<1>1. job[t] # None /\ job[t].step = s
  BY DEF Running
<1>2. job[t] \in Jobs /\ Ready(job[t])
  BY <1>1, JobOf
<1>3. job[t].name \in Names
  BY <1>1, <1>2 DEF Ready
<1> QED BY <1>1, <1>2, <1>3 DEF Sound, TypeOK
-----------------------------------------------------------------------------
(* Every step keeps the files and the jobs sound.                          *)

LEMMA InitSound == Init => Sound
<1> SUFFICES ASSUME Init PROVE Sound
  OBVIOUS
<1>1. [raw : Raws, mine : BOOLEAN] \subseteq Ciphertexts
  BY DEF Ciphertexts
<1>2. enc \in [Names -> Ciphertexts \cup {Torn, None}]
  BY <1>1 DEF Init
<1> QED BY <1>2 DEF Init, Sound, TypeOK

LEMMA StartSound ==
    ASSUME Sound, NEW t \in Terminals, NEW r \in Recipes, Start(t, r)
    PROVE  Sound'
<1>1. PICK names \in Selections(r) :
          job' = [job EXCEPT ![t] = [recipe |-> r, step |-> "next", todo |-> names,
                                     name |-> None, text |-> None, before |-> None]]
  BY DEF Start
<1> DEFINE j == [recipe |-> r, step |-> "next", todo |-> names, name |-> None, text |-> None, before |-> None]
<1>2. j \in Jobs /\ Ready(j)
  BY SelectionsType DEF Jobs, Steps, Ready
<1>3. FilesTyped'
  BY FilesKept DEF Start
<1> HIDE DEF j
<1> QED BY <1>1, <1>2, <1>3, JobReplaced DEF FilesTyped, j

LEMMA LoopSound ==
    ASSUME Sound, NEW t \in Terminals, Loop(t)
    PROVE  Sound'
<1>1. job[t] # None /\ FilesTyped' /\ job[t] \in Jobs
  BY FilesKept, JobOf DEF Loop, Running
<1>2. CASE Exit(t)
  BY <1>1, <1>2, ExitSound
<1>3. ASSUME NEW n \in job[t].todo,
             job' = [job EXCEPT ![t].name = n, ![t].todo = @ \ {n}, ![t].step = "begin",
                                ![t].text = None, ![t].before = None]
      PROVE  Sound'
  <2> DEFINE j == [job[t] EXCEPT !.name = n, !.todo = @ \ {n}, !.step = "begin", !.text = None, !.before = None]
  <2>1. job' = [job EXCEPT ![t] = j]
    BY <1>3 DEF Sound, TypeOK
  <2>2. j \in Jobs /\ Ready(j)
    BY <1>1 DEF Jobs, Steps, Ready
  <2> HIDE DEF j
  <2> QED BY <1>1, <2>1, <2>2, JobReplaced DEF FilesTyped
<1> QED BY <1>2, <1>3 DEF Loop

LEMMA KillSound ==
    ASSUME Sound, NEW t \in Terminals, Kill(t)
    PROVE  Sound'
<1>1. job[t].step = "mv" => job[t].name \in Names
  BY JobOf DEF Kill, Ready
<1>2. FilesTyped'
  BY <1>1 DEF Kill, Sound, TypeOK, FilesTyped
<1> QED BY <1>2, ExitSound DEF Kill

LEMMA MakeTempSound ==
    ASSUME Sound, NEW t \in Terminals, MakeTemp(t)
    PROVE  Sound'
<1>1. FilesTyped' /\ job[t] # None /\ job[t].name \in Names
  BY FilesKept, AtStep DEF MakeTemp
<1>2. Exit(t) \/ Goto(t, "sops")
  BY DEF MakeTemp
<1> QED BY <1>1, <1>2, ExitSound, GotoSound DEF Steps

LEMMA SopsDecryptSound ==
    ASSUME Sound, NEW t \in Terminals, SopsDecrypt(t)
    PROVE  Sound'
<1> DEFINE file == enc[job[t].name]
           raw == IF job[t].recipe = "envfile" THEN parse(file.raw) ELSE file.raw
           text == [raw |-> raw, edited |-> FALSE]
<1>1. /\ FilesTyped' /\ job[t] # None /\ job[t] \in Jobs /\ job[t].name \in Names
      /\ file \in Ciphertexts \cup {Torn, None}
  BY FilesKept, AtStep DEF SopsDecrypt
<1>2. CASE Exit(t)
  BY <1>1, <1>2, ExitSound
<1>3. CASE /\ Readable(file)
           /\ job' = [job EXCEPT ![t].text = text, ![t].step = "mv"]
  <2>1. file.raw \in Raws \cup {Blank}
    BY <1>1, <1>3, CiphertextIsWhole DEF Readable, Whole
  <2>2. raw \in Raws \cup {Blank}
    BY <2>1, ParseType
  <2> HIDE DEF raw
  <2>3. text \in Plaintexts /\ text # None /\ text.raw # Zeros
    <3>1. text \in Plaintexts /\ text.raw \in Raws \cup {Blank}
      BY <2>2 DEF Plaintexts
    <3> HIDE DEF text
    <3> QED BY <3>1, MarkersAssumption
  <2> DEFINE j == [job[t] EXCEPT !.text = text, !.step = "mv"]
  <2> HIDE DEF text
  <2>4. j \in Jobs /\ Ready(j)
    BY <1>1, <2>3 DEF Jobs, Steps, Ready
  <2>5. job' = [job EXCEPT ![t] = j]
    BY <1>3 DEF Sound, TypeOK
  <2> HIDE DEF j
  <2> QED BY <1>1, <2>4, <2>5, JobReplaced DEF FilesTyped
<1> QED BY <1>2, <1>3 DEF SopsDecrypt

LEMMA RenameSound ==
    ASSUME Sound, NEW t \in Terminals, Rename(t)
    PROVE  Sound'
<1>1. /\ job[t] # None /\ job[t].name \in Names /\ job[t].text \in Plaintexts
      /\ Goto(t, "next") /\ dec' = [dec EXCEPT ![job[t].name] = job[t].text]
      /\ UNCHANGED <<enc, orphans>>
  BY AtStep DEF Rename, Ready, Jobs
<1>2. FilesTyped'
  BY <1>1 DEF Sound, TypeOK, FilesTyped
<1> QED BY <1>1, <1>2, GotoSound DEF Steps

LEMMA ChooseSound ==
    ASSUME Sound, NEW t \in Terminals, Choose(t)
    PROVE  Sound'
<1>1. FilesTyped' /\ job[t] # None /\ job[t].name \in Names
  BY FilesKept, AtStep DEF Choose
<1>2. Exit(t) \/ Goto(t, "open") \/ Goto(t, "truncate")
  BY DEF Choose
<1> QED BY <1>1, <1>2, ExitSound, GotoSound DEF Steps

LEMMA SopsOpenSound ==
    ASSUME Sound, NEW t \in Terminals, SopsOpen(t)
    PROVE  Sound'
<1> DEFINE n == job[t].name
           file == IF enc[n] = None THEN [raw |-> Blank, mine |-> n \in Mine] ELSE enc[n]
<1>1. /\ FilesTyped' /\ job[t] # None /\ job[t] \in Jobs /\ n \in Names
      /\ enc[n] \in Ciphertexts \cup {Torn, None}
  BY FilesKept, AtStep DEF SopsOpen
<1>2. CASE Exit(t)
  BY <1>1, <1>2, ExitSound
<1>3. CASE Readable(file) /\ job' = [job EXCEPT ![t].before = file, ![t].step = "editor"]
  <2>1. [raw |-> Blank, mine |-> n \in Mine] \in Ciphertexts
    BY DEF Ciphertexts
  <2>2. file \in Ciphertexts /\ file # None
    BY <1>1, <1>3, <2>1 DEF Readable, Whole
  <2> DEFINE j == [job[t] EXCEPT !.before = file, !.step = "editor"]
  <2>3. job' = [job EXCEPT ![t] = j]
    BY <1>3 DEF Sound, TypeOK
  <2> HIDE DEF file
  <2>4. j \in Jobs /\ Ready(j)
    BY <1>1, <2>2 DEF Jobs, Steps, Ready
  <2> HIDE DEF j
  <2> QED BY <1>1, <2>3, <2>4, JobReplaced DEF FilesTyped
<1> QED BY <1>2, <1>3 DEF SopsOpen

LEMMA EditorSound ==
    ASSUME Sound, NEW t \in Terminals, Editor(t)
    PROVE  Sound'
<1>1. /\ FilesTyped' /\ job[t] # None /\ job[t] \in Jobs /\ job[t].name \in Names /\ job[t].before # None
      /\ dec[job[t].name] \in Plaintexts \cup {None}
  BY FilesKept, AtStep DEF Editor, Ready
<1>2. CASE Exit(t)
  BY <1>1, <1>2, ExitSound
<1>3. ASSUME NEW text \in Plaintexts, job' = [job EXCEPT ![t].text = text, ![t].step = "save"]
      PROVE  Sound'
  <2> DEFINE j == [job[t] EXCEPT !.text = text, !.step = "save"]
  <2>1. text # None
    BY MarkersAssumption
  <2>2. j \in Jobs /\ Ready(j)
    BY <1>1, <2>1 DEF Jobs, Steps, Ready
  <2>3. job' = [job EXCEPT ![t] = j]
    BY <1>3 DEF Sound, TypeOK
  <2> HIDE DEF j
  <2> QED BY <1>1, <2>2, <2>3, JobReplaced DEF FilesTyped
<1>4. \A r \in Raws : [raw |-> r, edited |-> TRUE] \in Plaintexts
  BY DEF Plaintexts
<1> QED BY <1>1, <1>2, <1>3, <1>4 DEF Editor

LEMMA SopsSaveSound ==
    ASSUME Sound, NEW t \in Terminals, SopsSave(t)
    PROVE  Sound'
<1>1. /\ job[t] # None /\ job[t].name \in Names
      /\ job[t].text \in Plaintexts /\ job[t].before \in Ciphertexts
      /\ UNCHANGED <<dec, orphans>>
  BY AtStep DEF SopsSave, Ready, Jobs
<1>2. CASE Exit(t) /\ UNCHANGED enc
  BY <1>1, <1>2, ExitSound, FilesKept
<1>3. CASE Goto(t, "next") /\ UNCHANGED enc
  BY <1>1, <1>3, GotoSound, FilesKept DEF Steps
<1>4. CASE /\ job[t].text.raw # Zeros
           /\ enc' = [enc EXCEPT ![job[t].name] = [job[t].before EXCEPT !.raw = job[t].text.raw]]
           /\ Goto(t, "next")
  <2>1. [job[t].before EXCEPT !.raw = job[t].text.raw] \in Ciphertexts
    BY <1>1, <1>4 DEF Ciphertexts, Plaintexts
  <2>2. FilesTyped'
    BY <1>1, <1>4, <2>1 DEF Sound, TypeOK, FilesTyped
  <2> QED BY <1>1, <1>4, <2>2, GotoSound DEF Steps
<1> QED BY <1>2, <1>3, <1>4 DEF SopsSave

LEMMA TruncateSound ==
    ASSUME Sound, NEW t \in Terminals, Truncate(t)
    PROVE  Sound'
<1>1. /\ job[t] # None /\ job[t].name \in Names /\ Goto(t, "create")
      /\ enc' = [enc EXCEPT ![job[t].name] = Torn] /\ UNCHANGED <<dec, orphans>>
  BY AtStep DEF Truncate
<1>2. FilesTyped'
  BY <1>1 DEF Sound, TypeOK, FilesTyped
<1> QED BY <1>1, <1>2, GotoSound DEF Steps

LEMMA SopsEncryptSound ==
    ASSUME Sound, NEW t \in Terminals, SopsEncrypt(t)
    PROVE  Sound'
<1>1. /\ job[t] # None /\ job[t].name \in Names /\ dec[job[t].name] \in Plaintexts \cup {None}
      /\ UNCHANGED <<dec, orphans>>
  BY AtStep DEF SopsEncrypt
<1>2. CASE Exit(t) /\ UNCHANGED enc
  BY <1>1, <1>2, ExitSound, FilesKept
<1>3. ASSUME NEW raw \in Raws \cup {Blank}, Goto(t, "next"),
             enc' = [enc EXCEPT ![job[t].name] = [raw |-> raw, mine |-> job[t].name \in Mine]]
      PROVE  Sound'
  <2>1. [raw |-> raw, mine |-> job[t].name \in Mine] \in Ciphertexts
    BY DEF Ciphertexts
  <2>2. FilesTyped'
    BY <1>1, <1>3, <2>1 DEF Sound, TypeOK, FilesTyped
  <2> QED BY <1>1, <1>3, <2>2, GotoSound DEF Steps
<1>4. dec[job[t].name] # None /\ dec[job[t].name].raw # Zeros => dec[job[t].name].raw \in Raws \cup {Blank}
  BY <1>1 DEF Plaintexts
<1> QED BY <1>2, <1>3, <1>4 DEF SopsEncrypt

LEMMA OverwriteSound ==
    ASSUME Sound, NEW t \in Terminals, Overwrite(t)
    PROVE  Sound'
<1>1. /\ job[t] # None /\ job[t].name \in Names /\ Goto(t, "rm")
      /\ dec' = [dec EXCEPT ![job[t].name] = [raw |-> Zeros, edited |-> FALSE]] /\ UNCHANGED <<enc, orphans>>
  BY AtStep DEF Overwrite
<1>2. [raw |-> Zeros, edited |-> FALSE] \in Plaintexts
  BY DEF Plaintexts
<1>3. FilesTyped'
  BY <1>1, <1>2 DEF Sound, TypeOK, FilesTyped
<1> QED BY <1>1, <1>3, GotoSound DEF Steps

LEMMA RemoveSound ==
    ASSUME Sound, NEW t \in Terminals, Remove(t)
    PROVE  Sound'
<1>1. /\ job[t] # None /\ job[t].name \in Names /\ Goto(t, "next")
      /\ dec' = [dec EXCEPT ![job[t].name] = None] /\ UNCHANGED <<enc, orphans>>
  BY AtStep DEF Remove
<1>2. FilesTyped'
  BY <1>1 DEF Sound, TypeOK, FilesTyped
<1> QED BY <1>1, <1>2, GotoSound DEF Steps

LEMMA UpdateKeysSound ==
    ASSUME Sound, NEW t \in Terminals, UpdateKeys(t)
    PROVE  Sound'
<1> DEFINE n == job[t].name
<1>1. /\ job[t] # None /\ n \in Names /\ enc[n] \in Ciphertexts \cup {Torn, None}
      /\ UNCHANGED <<dec, orphans>>
  BY AtStep DEF UpdateKeys
<1>2. CASE Exit(t) /\ UNCHANGED enc
  BY <1>1, <1>2, ExitSound, FilesKept
<1>3. CASE Whole(enc[n]) /\ enc' = [enc EXCEPT ![n].mine = n \in Mine] /\ Goto(t, "next")
  <2>1. [enc[n] EXCEPT !.mine = n \in Mine] \in Ciphertexts
    BY <1>1, <1>3, RekeyedType DEF Whole
  <2>2. enc' = [enc EXCEPT ![n] = [enc[n] EXCEPT !.mine = n \in Mine]]
    BY <1>3
  <2>3. FilesTyped'
    BY <1>1, <2>1, <2>2 DEF Sound, TypeOK, FilesTyped
  <2> QED BY <1>1, <1>3, <2>3, GotoSound DEF Steps
<1> QED BY <1>2, <1>3 DEF UpdateKeys, Readable

LEMMA EditPlainSound ==
    ASSUME Sound, NEW n \in Names, EditPlain(n)
    PROVE  Sound'
<1>1. PICK r \in Raws : dec' = [dec EXCEPT ![n] = [raw |-> r, edited |-> TRUE]]
  BY DEF EditPlain
<1>2. [raw |-> r, edited |-> TRUE] \in Plaintexts
  BY DEF Plaintexts
<1>3. UNCHANGED <<enc, orphans, job>>
  BY DEF EditPlain
<1> QED BY <1>1, <1>2, <1>3 DEF Sound, TypeOK, Ready

LEMMA NextSound == Sound /\ [Next]_vars => Sound'
<1> SUFFICES ASSUME Sound, [Next]_vars PROVE Sound'
  OBVIOUS
<1>1. ASSUME NEW t \in Terminals, NEW r \in Recipes, Start(t, r) PROVE Sound'
  BY <1>1, StartSound
<1>2. ASSUME NEW t \in Terminals, Step(t) PROVE Sound'
  BY <1>2, LoopSound, MakeTempSound, SopsDecryptSound, RenameSound, ChooseSound, SopsOpenSound, EditorSound,
     SopsSaveSound, TruncateSound, SopsEncryptSound, OverwriteSound, RemoveSound, UpdateKeysSound DEF Step
<1>3. ASSUME NEW t \in Terminals, Kill(t) PROVE Sound'
  BY <1>3, KillSound
<1>4. ASSUME NEW n \in Names, EditPlain(n) PROVE Sound'
  BY <1>4, EditPlainSound
<1>5. CASE UNCHANGED vars
  BY <1>5 DEF vars, Sound, TypeOK, Ready
<1> QED BY <1>1, <1>2, <1>3, <1>4, <1>5 DEF Next

LEMMA Soundness == Spec => []Sound
<1>1. Init => Sound
  BY InitSound
<1>2. Sound /\ [Next]_vars => Sound'
  BY NextSound
<1> QED BY <1>1, <1>2, PTL DEF Spec

\* Recipes that overlap in any way and are killed anywhere leave files that some recipe or person
\* wrote whole, or that a redirection tore: for any number of terminals and environments (env.just).
THEOREM FilesAreTyped == Spec => []TypeOK
<1>1. Sound => TypeOK
  BY DEF Sound
<1> QED BY <1>1, Soundness, PTL
-----------------------------------------------------------------------------
(* Wiped files, with any number of terminals.                              *)

\* One terminal acts: the others keep their jobs.
LEMMA OthersWait ==
    ASSUME Sound, NEW t \in Terminals, NEW u \in Terminals, u # t,
           (\E r \in Recipes : Start(t, r)) \/ Step(t) \/ Kill(t)
    PROVE  job'[u] = job[u]
<1>1. job \in [Terminals -> Jobs \cup {None}]
  BY DEF Sound, TypeOK
<1> QED BY <1>1 DEF Start, Step, Kill, Loop, MakeTemp, SopsDecrypt, Rename, Choose, SopsOpen, Editor, SopsSave,
              Truncate, SopsEncrypt, Overwrite, Remove, UpdateKeys, Goto, Exit

\* A step that wipes nothing, of a terminal that has nothing to remove.
LEMMA NothingWiped ==
    ASSUME Sound, WipedFilesGo, NEW t \in Terminals, ~Running(t, "rm"),
           \A u \in Terminals : u # t => job'[u] = job[u],
           \A n \in Names : dec'[n] = dec[n] \/ dec'[n] = None \/ dec'[n].raw # Zeros
    PROVE  WipedFilesGo'
<1> SUFFICES ASSUME NEW n \in Names, dec'[n] # None, dec'[n].raw = Zeros
             PROVE  \E u \in Terminals : Running(u, "rm")' /\ job'[u].name = n
  BY DEF WipedFilesGo
<1>1. dec[n] # None /\ dec[n].raw = Zeros
  OBVIOUS
<1>2. PICK u \in Terminals : Running(u, "rm") /\ job[u].name = n
  BY <1>1 DEF WipedFilesGo
<1> QED BY <1>2 DEF Running

LEMMA WipedKept ==
    ASSUME Sound, ~Kills, WipedFilesGo, [Next]_vars
    PROVE  WipedFilesGo'
<1> USE DEF Running
<1>1. ASSUME NEW t \in Terminals, NEW r \in Recipes, Start(t, r) PROVE WipedFilesGo'
  <2>1. job[t] = None /\ dec' = dec /\ \A u \in Terminals : u # t => job'[u] = job[u]
    BY <1>1, OthersWait DEF Start
  <2> QED BY <2>1, NothingWiped
<1>2. ASSUME NEW t \in Terminals, Step(t) PROVE WipedFilesGo'
  <2>1. \A u \in Terminals : u # t => job'[u] = job[u]
    BY <1>2, OthersWait
  <2>2. CASE \/ Loop(t) \/ MakeTemp(t) \/ SopsDecrypt(t) \/ Choose(t) \/ SopsOpen(t)
             \/ Editor(t) \/ SopsSave(t) \/ Truncate(t) \/ SopsEncrypt(t) \/ UpdateKeys(t)
    <3>1. dec' = dec /\ job[t].step # "rm"
      BY <2>2 DEF Loop, MakeTemp, SopsDecrypt, Choose, SopsOpen, Editor, SopsSave, Truncate, SopsEncrypt, UpdateKeys
    <3> QED BY <2>1, <3>1, NothingWiped
  <2>3. CASE Rename(t)
    <3>1. job[t].step = "mv" /\ job[t].text.raw # Zeros /\ dec' = [dec EXCEPT ![job[t].name] = job[t].text]
      BY <2>3, AtStep DEF Rename, Ready
    <3>2. \A n \in Names : dec'[n] = dec[n] \/ dec'[n].raw # Zeros
      BY <3>1 DEF Sound, TypeOK
    <3> QED BY <2>1, <3>1, <3>2, NothingWiped
  <2>4. CASE Overwrite(t)
    <3>1. job[t] # None /\ job[t].step = "begin" /\ job[t].name \in Names
      BY <2>4, AtStep DEF Overwrite
    <3>2. job'[t] # None /\ job'[t].step = "rm" /\ job'[t].name = job[t].name
      <4>1. job' = [job EXCEPT ![t].step = "rm"] /\ Sound'
        BY <2>4, OverwriteSound DEF Overwrite, Goto
      <4>2. job'[t] = [job[t] EXCEPT !.step = "rm"]
        BY <4>1 DEF Sound, TypeOK
      <4>3. [job[t] EXCEPT !.step = "rm"] \in Jobs
        BY <3>1, JobOf DEF Jobs, Steps
      <4>4. job'[t] # None
        BY <4>2, <4>3, MarkersAssumption
      <4> QED BY <3>1, <4>2, <4>4, JobOf DEF Jobs
    <3>3. \A n \in Names : n # job[t].name => dec'[n] = dec[n]
      BY <2>4, <3>1 DEF Overwrite, Sound, TypeOK
    <3> SUFFICES ASSUME NEW n \in Names, n # job[t].name, dec'[n] # None, dec'[n].raw = Zeros
                 PROVE  \E u \in Terminals : Running(u, "rm")' /\ job'[u].name = n
      BY <3>2 DEF WipedFilesGo
    <3>4. PICK u \in Terminals : Running(u, "rm") /\ job[u].name = n
      BY <3>3 DEF WipedFilesGo
    <3>5. u # t
      BY <3>1, <3>4
    <3> QED BY <2>1, <3>4, <3>5
  <2>5. CASE Remove(t)
    <3>1. /\ job[t].name \in Names /\ dec' = [dec EXCEPT ![job[t].name] = None]
      BY <2>5, AtStep DEF Remove
    <3>2. dec'[job[t].name] = None /\ \A n \in Names : n # job[t].name => dec'[n] = dec[n]
      BY <3>1 DEF Sound, TypeOK
    <3> SUFFICES ASSUME NEW n \in Names, dec'[n] # None, dec'[n].raw = Zeros
                 PROVE  \E u \in Terminals : Running(u, "rm")' /\ job'[u].name = n
      BY DEF WipedFilesGo
    <3>3. n # job[t].name /\ dec'[n] = dec[n]
      BY <3>2
    <3>4. PICK u \in Terminals : Running(u, "rm") /\ job[u].name = n
      BY <3>3 DEF WipedFilesGo
    <3> QED BY <2>1, <3>3, <3>4
  <2> QED BY <1>2, <2>2, <2>3, <2>4, <2>5 DEF Step
<1>3. ASSUME NEW t \in Terminals, Kill(t) PROVE FALSE
  BY <1>3 DEF Kill
<1>4. ASSUME NEW n \in Names, EditPlain(n) PROVE WipedFilesGo'
  <2>1. PICK r \in Raws : dec' = [dec EXCEPT ![n] = [raw |-> r, edited |-> TRUE]]
    BY <1>4 DEF EditPlain
  <2>2. r # Zeros
    BY MarkersAssumption
  <2>3. \A m \in Names : dec'[m] = dec[m] \/ dec'[m].raw # Zeros
    BY <2>1, <2>2 DEF Sound, TypeOK
  <2>4. PICK t \in Terminals : job[t] = None
    BY <1>4 DEF EditPlain
  <2> QED BY <1>4, <2>3, <2>4, NothingWiped DEF EditPlain
<1>5. CASE UNCHANGED vars
  BY <1>5 DEF vars, WipedFilesGo
<1> QED BY <1>1, <1>2, <1>3, <1>4, <1>5 DEF Next

\* No recipe leaves a wiped file behind, however many overlap, as long as none is killed: a zeroed
\* plaintext is there only while an env-clean is about to remove it (env.just, env-clean).
THEOREM WipedFilesAreRemoved ==
    ASSUME ~Kills
    PROVE  Spec => []WipedFilesGo
<1>1. Init => WipedFilesGo
  BY DEF Init, WipedFilesGo
<1>2. Sound /\ WipedFilesGo /\ [Next]_vars => WipedFilesGo'
  BY WipedKept
<1> QED BY <1>1, <1>2, Soundness, PTL DEF Spec
-----------------------------------------------------------------------------
(* One recipe at a time.                                                   *)

\* A terminal runs one recipe after another, and there is one terminal.
OneTerminal == \A t, u \in Terminals : t = u

\* The recipes that take a plaintext file for an image of its ciphertext: env-edit, which changes
\* the ciphertext beside it, and env-docker-env-file, which writes another form, are not used.
RoundTrips == Recipes \cap {"edit", "envfile"} = {}

\* Only a file that is not there is created.
CreatesNew == \A t \in Terminals : Running(t, "truncate") => enc[job[t].name] = None

\* What nobody edited is what the ciphertext holds.
Image(n) == dec[n] # None /\ ~dec[n].edited /\ dec[n].raw # Zeros => Whole(enc[n]) /\ enc[n].raw = dec[n].raw

\* What a recipe has read is still so: the ciphertext it decrypted or opened, the plaintext it copied.
Fresh(t) ==
    LET file == enc[job[t].name] IN
        /\ Running(t, "mv") => Whole(file) /\ job[t].text.raw = file.raw
        /\ Running(t, "open") => file # None
        /\ Running(t, "editor") => Whole(file) /\ job[t].before = file
        /\ Running(t, "save") => Whole(file) /\ job[t].before = file /\ job[t].text = dec[job[t].name]
        /\ Running(t, "create") => file = Torn

Images == (\A n \in Names : Image(n)) /\ (\A t \in Terminals : Fresh(t))

LEMMA Moves ==
    ASSUME Sound, NEW t \in Terminals, job[t] # None, NEW s \in Steps, Goto(t, s)
    PROVE  /\ job'[t].step = s /\ job'[t].name = job[t].name
           /\ job'[t].text = job[t].text /\ job'[t].before = job[t].before
<1>1. job'[t] = [job[t] EXCEPT !.step = s]
  BY DEF Sound, TypeOK, Goto
<1> QED BY <1>1, JobOf DEF Jobs

LEMMA Ends ==
    ASSUME Sound, NEW t \in Terminals, Exit(t)
    PROVE  job'[t] = None
BY DEF Sound, TypeOK, Exit

\* The steps that do not create a file come to another step than truncate, or end.
LEMMA StaysFromTruncate ==
    ASSUME Sound, NEW t \in Terminals, Step(t), ~Choose(t)
    PROVE  job'[t] = None \/ job'[t].step # "truncate"
<1>1. CASE Loop(t)
  <2>1. job[t] \in Jobs /\ job \in [Terminals -> Jobs \cup {None}]
    BY <1>1, JobOf DEF Loop, Running, Sound, TypeOK
  <2>2. CASE Exit(t)
    BY <2>2, Ends
  <2>3. ASSUME NEW n, job' = [job EXCEPT ![t].name = n, ![t].todo = @ \ {n}, ![t].step = "begin",
                                         ![t].text = None, ![t].before = None]
        PROVE  job'[t].step = "begin"
    BY <2>1, <2>3 DEF Jobs
  <2> QED BY <1>1, <2>2, <2>3 DEF Loop
<1>2. CASE SopsDecrypt(t)
  <2>1. job[t] \in Jobs /\ job \in [Terminals -> Jobs \cup {None}]
    BY <1>2, JobOf DEF SopsDecrypt, Running, Sound, TypeOK
  <2>2. ASSUME NEW text, job' = [job EXCEPT ![t].text = text, ![t].step = "mv"] PROVE job'[t].step = "mv"
    BY <2>1, <2>2 DEF Jobs
  <2>3. Exit(t) \/ \E text : job' = [job EXCEPT ![t].text = text, ![t].step = "mv"]
    BY <1>2, Zenon DEF SopsDecrypt
  <2> QED BY <2>2, <2>3, Ends
<1>3. CASE SopsOpen(t)
  <2>1. job[t] \in Jobs /\ job \in [Terminals -> Jobs \cup {None}]
    BY <1>3, JobOf DEF SopsOpen, Running, Sound, TypeOK
  <2>2. ASSUME NEW file, job' = [job EXCEPT ![t].before = file, ![t].step = "editor"] PROVE job'[t].step = "editor"
    BY <2>1, <2>2 DEF Jobs
  <2>3. Exit(t) \/ \E file : job' = [job EXCEPT ![t].before = file, ![t].step = "editor"]
    BY <1>3, Zenon DEF SopsOpen
  <2> QED BY <2>2, <2>3, Ends
<1>4. CASE Editor(t)
  <2>1. job[t] \in Jobs /\ job \in [Terminals -> Jobs \cup {None}]
    BY <1>4, JobOf DEF Editor, Running, Sound, TypeOK
  <2>2. ASSUME NEW text, job' = [job EXCEPT ![t].text = text, ![t].step = "save"] PROVE job'[t].step = "save"
    BY <2>1, <2>2 DEF Jobs
  <2>3. Exit(t) \/ \E text : job' = [job EXCEPT ![t].text = text, ![t].step = "save"]
    BY <1>4, Zenon DEF Editor
  <2> QED BY <2>2, <2>3, Ends
<1>5. CASE \/ MakeTemp(t) \/ Rename(t) \/ SopsSave(t) \/ Truncate(t) \/ SopsEncrypt(t)
           \/ Overwrite(t) \/ Remove(t) \/ UpdateKeys(t)
  <2>1. job[t] # None
    BY <1>5 DEF MakeTemp, Rename, SopsSave, Truncate, SopsEncrypt, Overwrite, Remove, UpdateKeys, Running
  <2>2. Exit(t) \/ Goto(t, "sops") \/ Goto(t, "next") \/ Goto(t, "create") \/ Goto(t, "rm")
    BY <1>5 DEF MakeTemp, Rename, SopsSave, Truncate, SopsEncrypt, Overwrite, Remove, UpdateKeys
  <2> QED BY <2>1, <2>2, Moves, Ends DEF Steps
<1> QED BY <1>1, <1>2, <1>3, <1>4, <1>5 DEF Step

LEMMA CreatesKept ==
    ASSUME Sound, OneTerminal, CreatesNew, [Next]_vars
    PROVE  CreatesNew'
<1>1. ASSUME NEW t \in Terminals, job'[t] = None \/ job'[t].step # "truncate" PROVE CreatesNew'
  BY <1>1 DEF OneTerminal, CreatesNew, Running
<1>2. ASSUME NEW t \in Terminals, NEW r \in Recipes, Start(t, r) PROVE CreatesNew'
  <2>1. job'[t].step = "next"
    BY <1>2 DEF Start, Sound, TypeOK
  <2> QED BY <1>1, <2>1
<1>3. ASSUME NEW t \in Terminals, Step(t) PROVE CreatesNew'
  <2>1. CASE ~Choose(t)
    BY <1>3, <2>1, <1>1, StaysFromTruncate
  <2>2. CASE Choose(t)
    <3>1. job[t] # None /\ UNCHANGED enc
      BY <2>2 DEF Choose, Running
    <3>2. CASE Exit(t)
      BY <3>2, <1>1, Ends
    <3>3. CASE Goto(t, "open")
      BY <3>1, <3>3, <1>1, Moves DEF Steps
    <3>4. CASE Goto(t, "truncate") /\ enc[job[t].name] = None
      <4>1. job'[t].name = job[t].name
        BY <3>1, <3>4, Moves DEF Steps
      <4> QED BY <3>1, <3>4, <4>1 DEF OneTerminal, CreatesNew
    <3> QED BY <2>2, <3>2, <3>3, <3>4 DEF Choose
  <2> QED BY <2>1, <2>2
<1>4. ASSUME NEW t \in Terminals, Kill(t) PROVE CreatesNew'
  BY <1>4, <1>1, Ends DEF Kill
<1>5. ASSUME NEW n \in Names, EditPlain(n) PROVE CreatesNew'
  BY <1>5 DEF EditPlain, CreatesNew, Running
<1>6. CASE UNCHANGED vars
  BY <1>6 DEF vars, CreatesNew, Running
<1> QED BY <1>2, <1>3, <1>4, <1>5, <1>6 DEF Next

\* Only a redirection tears a file, and only when there was none.
LEMMA WholeStays ==
    ASSUME Sound, OneTerminal, CreatesNew, [Next]_vars, NEW n \in Names, Whole(enc[n])
    PROVE  Whole(enc'[n])
<1>1. enc \in [Names -> Ciphertexts \cup {Torn, None}]
  BY DEF Sound, TypeOK
<1>2. enc' \in [Names -> Ciphertexts \cup {Torn, None}]
  BY NextSound DEF Sound, TypeOK
<1>3. ASSUME NEW t \in Terminals, Step(t) PROVE Whole(enc'[n])
  <2>1. CASE UNCHANGED enc
    BY <2>1
  <2>2. CASE Truncate(t)
    <3>1. enc[job[t].name] = None /\ enc' = [enc EXCEPT ![job[t].name] = Torn]
      BY <2>2 DEF Truncate, CreatesNew
    <3> QED BY <1>1, <3>1 DEF Whole
  <2>3. CASE \E c \in Ciphertexts : enc' = [enc EXCEPT ![job[t].name] = c]
    <3>1. PICK c \in Ciphertexts : enc' = [enc EXCEPT ![job[t].name] = c]
      BY <2>3
    <3>2. enc'[n] = enc[n] \/ enc'[n] = c
      BY <1>1, <3>1
    <3> QED BY <3>2, CiphertextIsWhole
  <2>4. CASE SopsSave(t)
    <3>1. job[t].text \in Plaintexts /\ job[t].before \in Ciphertexts
      BY <2>4, AtStep DEF SopsSave, Ready, Jobs
    <3>2. ASSUME job[t].text.raw # Zeros
          PROVE  [job[t].before EXCEPT !.raw = job[t].text.raw] \in Ciphertexts
      BY <3>1, <3>2 DEF Ciphertexts, Plaintexts
    <3> QED BY <2>1, <2>3, <2>4, <3>2 DEF SopsSave
  <2>5. CASE SopsEncrypt(t)
    <3>1. \A raw \in Raws \cup {Blank} : [raw |-> raw, mine |-> job[t].name \in Mine] \in Ciphertexts
      BY DEF Ciphertexts
    <3>2. dec[job[t].name] # None /\ dec[job[t].name].raw # Zeros => dec[job[t].name].raw \in Raws \cup {Blank}
      BY <2>5, AtStep DEF SopsEncrypt, Plaintexts
    <3> QED BY <2>1, <2>3, <2>5, <3>1, <3>2 DEF SopsEncrypt
  <2>6. CASE UpdateKeys(t)
    <3> DEFINE c == [enc[job[t].name] EXCEPT !.mine = job[t].name \in Mine]
    <3>1. CASE Whole(enc[job[t].name]) /\ enc' = [enc EXCEPT ![job[t].name] = c]
      <4>1. job[t].name \in Names
        BY <2>6, AtStep DEF UpdateKeys
      <4>2. enc[job[t].name] \in Ciphertexts
        BY <3>1, <4>1, WholeIsCiphertext DEF Sound
      <4> HIDE DEF c
      <4>3. c \in Ciphertexts
        BY <4>2, RekeyedType DEF c
      <4> QED BY <2>3, <3>1, <4>3
    <3> QED BY <2>1, <2>6, <3>1 DEF UpdateKeys, Readable
  <2> QED BY <1>3, <2>1, <2>2, <2>4, <2>5, <2>6
        DEF Step, Loop, MakeTemp, SopsDecrypt, Rename, Choose, SopsOpen, Editor, Overwrite, Remove
<1> QED BY <1>3 DEF Next, Start, Kill, EditPlain, vars

\* With one recipe at a time no command of any recipe, failing or killed, turns a whole ciphertext
\* into a torn or missing file: for any environments, values and recipes (env.just).
THEOREM CiphertextIsKept ==
    ASSUME OneTerminal
    PROVE  Spec => CiphertextSurvives
<1>1. Init => CreatesNew
  BY DEF Init, CreatesNew, Running
<1>2. Sound /\ CreatesNew /\ [Next]_vars => CreatesNew'
  BY CreatesKept
<1>3. Sound /\ CreatesNew /\ [Next]_vars => [\A n \in Names : Whole(enc[n]) => Whole(enc'[n])]_vars
  BY WholeStays
<1> QED BY <1>1, <1>2, <1>3, Soundness, PTL DEF Spec, CiphertextSurvives
-----------------------------------------------------------------------------
(* What a recipe has read is still so when it uses it.                     *)

LEMMA InitImages == Init => Images
BY DEF Init, Images, Image, Fresh, Running

\* A step that changes no file, of the one terminal there is.
LEMMA FilesUnread ==
    ASSUME Sound, OneTerminal, Images, NEW t \in Terminals, UNCHANGED <<enc, dec>>,
           job'[t] = None \/ job'[t].step \in {"next", "begin", "sops", "truncate", "rm"}
    PROVE  Images'
<1>1. \A n \in Names : Image(n)'
  BY DEF Images, Image
<1>2. Fresh(t)'
  BY DEF Fresh, Running
<1> QED BY <1>1, <1>2 DEF Images, OneTerminal

\* A step that changes the files of one name, and comes to a step that relies on none.
LEMMA OneNameChanged ==
    ASSUME Sound, OneTerminal, Images, NEW t \in Terminals, NEW m \in Names,
           \A n \in Names : n # m => enc'[n] = enc[n] /\ dec'[n] = dec[n],
           Image(m)',
           job'[t].step \in {"next", "rm"}
    PROVE  Images'
<1>1. \A n \in Names : Image(n)'
  BY DEF Images, Image
<1>2. Fresh(t)'
  BY DEF Fresh, Running
<1> QED BY <1>1, <1>2 DEF Images, OneTerminal

\* No job is an edit or one of the other form.
LEMMA RoundTripRecipe ==
    ASSUME Sound, RoundTrips, NEW t \in Terminals, job[t] # None
    PROVE  job[t].recipe \notin {"edit", "envfile"}
BY JobOf DEF RoundTrips, Jobs

LEMMA SopsDecryptImages ==
    ASSUME Sound, OneTerminal, RoundTrips, Images, NEW t \in Terminals, SopsDecrypt(t)
    PROVE  Images'
<1> DEFINE file == enc[job[t].name]
           text == [raw |-> file.raw, edited |-> FALSE]
<1>1. job[t] # None /\ job[t] \in Jobs /\ job[t].recipe # "envfile" /\ UNCHANGED <<enc, dec>>
  BY AtStep, RoundTripRecipe DEF SopsDecrypt
<1>2. CASE Exit(t)
  BY <1>1, <1>2, Ends, FilesUnread
<1>3. CASE Readable(file) /\ job' = [job EXCEPT ![t].text = text, ![t].step = "mv"]
  <2>1. text.raw = file.raw
    OBVIOUS
  <2> HIDE DEF text
  <2>2. job'[t].step = "mv" /\ job'[t].text = text /\ job'[t].name = job[t].name
    BY <1>1, <1>3 DEF Sound, TypeOK, Jobs
  <2>3. Fresh(t)'
    BY <1>1, <1>3, <2>1, <2>2 DEF Fresh, Running, Readable
  <2> QED BY <1>1, <2>3 DEF Images, Image, OneTerminal
<1> QED BY <1>1, <1>2, <1>3 DEF SopsDecrypt

LEMMA RenameImages ==
    ASSUME Sound, OneTerminal, Images, NEW t \in Terminals, Rename(t)
    PROVE  Images'
<1>1. PICK m \in Names : m = job[t].name
  BY AtStep DEF Rename
<1>2. /\ job[t] # None /\ Goto(t, "next") /\ Running(t, "mv")
      /\ enc' = enc /\ dec' = [dec EXCEPT ![m] = job[t].text]
  BY <1>1 DEF Rename, Running
<1>3. dec'[m] = job[t].text /\ \A n \in Names : n # m => dec'[n] = dec[n]
  BY <1>2 DEF Sound, TypeOK
<1>4. Whole(enc[m]) /\ job[t].text.raw = enc[m].raw
  BY <1>1, <1>2 DEF Images, Fresh
<1>5. Image(m)'
  BY <1>2, <1>3, <1>4 DEF Image
<1>6. job'[t].step = "next"
  BY <1>2, Moves DEF Steps
<1> QED BY <1>2, <1>3, <1>5, <1>6, OneNameChanged

LEMMA ChooseImages ==
    ASSUME Sound, OneTerminal, RoundTrips, Images, NEW t \in Terminals, Choose(t)
    PROVE  Images'
<1>1. job[t] # None /\ job[t].recipe # "edit" /\ UNCHANGED <<enc, dec>>
  BY RoundTripRecipe DEF Choose, Running
<1>2. CASE Exit(t)
  BY <1>1, <1>2, Ends, FilesUnread
<1>3. CASE Goto(t, "open") /\ enc[job[t].name] # None
  <2>1. job'[t].step = "open" /\ job'[t].name = job[t].name
    BY <1>1, <1>3, Moves DEF Steps
  <2>2. Fresh(t)'
    BY <1>1, <1>3, <2>1 DEF Fresh, Running
  <2> QED BY <1>1, <2>2 DEF Images, Image, OneTerminal
<1>4. CASE Goto(t, "truncate")
  <2>1. job'[t].step = "truncate"
    BY <1>1, <1>4, Moves DEF Steps
  <2> QED BY <1>1, <2>1, FilesUnread
<1> QED BY <1>1, <1>2, <1>3, <1>4 DEF Choose

LEMMA SopsOpenImages ==
    ASSUME Sound, OneTerminal, Images, NEW t \in Terminals, SopsOpen(t)
    PROVE  Images'
<1> DEFINE file == enc[job[t].name]
<1>1. /\ job[t] # None /\ job[t] \in Jobs /\ UNCHANGED <<enc, dec>> /\ file # None
  BY AtStep DEF SopsOpen, Images, Fresh
<1>2. CASE Exit(t)
  BY <1>1, <1>2, Ends, FilesUnread
<1>3. CASE Readable(file) /\ job' = [job EXCEPT ![t].before = file, ![t].step = "editor"]
  <2> HIDE DEF file
  <2>1. job'[t].step = "editor" /\ job'[t].before = file /\ job'[t].name = job[t].name
    BY <1>1, <1>3 DEF Sound, TypeOK, Jobs
  <2>2. Fresh(t)'
    BY <1>1, <1>3, <2>1 DEF Fresh, Running, Readable, file
  <2> QED BY <1>1, <2>2 DEF Images, Image, OneTerminal
<1> QED BY <1>1, <1>2, <1>3 DEF SopsOpen

LEMMA EditorImages ==
    ASSUME Sound, OneTerminal, RoundTrips, Images, NEW t \in Terminals, Editor(t)
    PROVE  Images'
<1> DEFINE text == dec[job[t].name]
<1>1. /\ job[t] # None /\ job[t] \in Jobs /\ job[t].recipe # "edit" /\ UNCHANGED <<enc, dec>>
      /\ Whole(enc[job[t].name]) /\ job[t].before = enc[job[t].name]
  BY AtStep, RoundTripRecipe DEF Editor, Images, Fresh
<1>2. CASE Exit(t)
  BY <1>1, <1>2, Ends, FilesUnread
<1>3. CASE job' = [job EXCEPT ![t].text = text, ![t].step = "save"]
  <2> HIDE DEF text
  <2>1. /\ job'[t].step = "save" /\ job'[t].text = text /\ job'[t].before = job[t].before
        /\ job'[t].name = job[t].name
    BY <1>1, <1>3 DEF Sound, TypeOK, Jobs
  <2>2. Fresh(t)'
    BY <1>1, <2>1 DEF Fresh, Running, text
  <2> QED BY <1>1, <2>2 DEF Images, Image, OneTerminal
<1> QED BY <1>1, <1>2, <1>3 DEF Editor

\* An unedited plaintext is what the ciphertext holds already.
LEMMA SaveKeepsUnedited ==
    ASSUME Sound, Images, NEW t \in Terminals, SopsSave(t), ~job[t].text.edited
    PROVE  UNCHANGED enc
<1>1. job[t].name \in Names /\ job[t].text # None
  BY AtStep DEF SopsSave, Ready
<1>2. job[t].text = dec[job[t].name] /\ job[t].before = enc[job[t].name]
  BY DEF SopsSave, Images, Fresh
<1>3. job[t].text.raw # Zeros => job[t].text.raw = job[t].before.raw
  BY <1>1, <1>2 DEF Images, Image
<1> QED BY <1>3 DEF SopsSave

LEMMA SopsSaveImages ==
    ASSUME Sound, OneTerminal, Images, NEW t \in Terminals, SopsSave(t)
    PROVE  Images'
<1>1. PICK m \in Names : m = job[t].name
  BY AtStep DEF SopsSave
<1>2. job[t] # None /\ UNCHANGED dec /\ job[t].text = dec[m]
  BY <1>1, AtStep DEF SopsSave, Images, Fresh
<1>3. CASE Exit(t) /\ UNCHANGED enc
  BY <1>2, <1>3, Ends, FilesUnread
<1>4. CASE Goto(t, "next")
  <2>1. job'[t].step = "next"
    BY <1>2, <1>4, Moves DEF Steps
  <2>2. CASE UNCHANGED enc
    BY <1>2, <2>1, <2>2, FilesUnread
  <2>3. CASE ~UNCHANGED enc
    <3>1. job[t].text.edited
      BY <2>3, SaveKeepsUnedited
    <3>2. Image(m)'
      BY <1>2, <3>1 DEF Image
    <3>3. \A n \in Names : n # m => enc'[n] = enc[n]
      BY <1>1 DEF SopsSave, Sound, TypeOK
    <3> QED BY <1>2, <2>1, <3>2, <3>3, OneNameChanged
  <2> QED BY <2>2, <2>3
<1> QED BY <1>3, <1>4 DEF SopsSave

LEMMA TruncateImages ==
    ASSUME Sound, OneTerminal, CreatesNew, Images, NEW t \in Terminals, Truncate(t)
    PROVE  Images'
<1>1. PICK m \in Names : m = job[t].name
  BY AtStep DEF Truncate
<1>2. /\ job[t] # None /\ Goto(t, "create") /\ dec' = dec
      /\ enc[m] = None /\ enc' = [enc EXCEPT ![m] = Torn]
  BY <1>1 DEF Truncate, Running, CreatesNew
<1>3. enc'[m] = Torn /\ \A n \in Names : n # m => enc'[n] = enc[n]
  BY <1>2 DEF Sound, TypeOK
<1>4. \A n \in Names : Image(n)'
  BY <1>2, <1>3 DEF Images, Image, Whole
<1>5. job'[t].step = "create" /\ job'[t].name = m
  BY <1>1, <1>2, Moves DEF Steps
<1>6. Fresh(t)'
  BY <1>3, <1>5 DEF Fresh, Running
<1> QED BY <1>4, <1>6 DEF Images, OneTerminal

LEMMA SopsEncryptImages ==
    ASSUME Sound, OneTerminal, Images, NEW t \in Terminals, SopsEncrypt(t)
    PROVE  Images'
<1>1. PICK m \in Names : m = job[t].name
  BY AtStep DEF SopsEncrypt
<1>2. job[t] # None /\ dec' = dec /\ enc[m] = Torn
  BY <1>1 DEF SopsEncrypt, Running, Images, Fresh
<1>3. CASE Exit(t) /\ UNCHANGED enc
  BY <1>2, <1>3, Ends, FilesUnread
<1>4. CASE Goto(t, "next")
  <2>1. job'[t].step = "next"
    BY <1>2, <1>4, Moves DEF Steps
  <2>2. Image(m)'
    BY <1>2 DEF Images, Image, Whole
  <2>3. \A n \in Names : n # m => enc'[n] = enc[n]
    BY <1>1 DEF SopsEncrypt, Sound, TypeOK
  <2> QED BY <1>2, <2>1, <2>2, <2>3, OneNameChanged
<1> QED BY <1>3, <1>4 DEF SopsEncrypt

LEMMA CleanImages ==
    ASSUME Sound, OneTerminal, Images, NEW t \in Terminals, Overwrite(t) \/ Remove(t)
    PROVE  Images'
<1>1. PICK m \in Names : m = job[t].name
  BY AtStep DEF Overwrite, Remove
<1>2. /\ job[t] # None /\ enc' = enc /\ (Goto(t, "rm") \/ Goto(t, "next"))
      /\ \/ dec' = [dec EXCEPT ![m] = [raw |-> Zeros, edited |-> FALSE]]
         \/ dec' = [dec EXCEPT ![m] = None]
  BY <1>1 DEF Overwrite, Remove, Running
<1>3. /\ dec'[m] = None \/ dec'[m].raw = Zeros
      /\ \A n \in Names : n # m => dec'[n] = dec[n]
  BY <1>2 DEF Sound, TypeOK
<1>4. Image(m)'
  BY <1>3 DEF Image
<1>5. job'[t].step \in {"next", "rm"}
  BY <1>2, Moves DEF Steps
<1> QED BY <1>2, <1>3, <1>4, <1>5, OneNameChanged

LEMMA UpdateKeysImages ==
    ASSUME Sound, OneTerminal, Images, NEW t \in Terminals, UpdateKeys(t)
    PROVE  Images'
<1>1. PICK m \in Names : m = job[t].name
  BY AtStep DEF UpdateKeys
<1>2. job[t] # None /\ dec' = dec
  BY DEF UpdateKeys, Running
<1>3. CASE Exit(t) /\ UNCHANGED enc
  BY <1>2, <1>3, Ends, FilesUnread
<1>4. CASE Whole(enc[m]) /\ enc' = [enc EXCEPT ![m].mine = m \in Mine] /\ Goto(t, "next")
  <2>1. job'[t].step = "next"
    BY <1>2, <1>4, Moves DEF Steps
  <2> DEFINE c == [enc[m] EXCEPT !.mine = m \in Mine]
  <2>2. c \in Ciphertexts /\ c.raw = enc[m].raw
    BY <1>4, WholeIsCiphertext, RekeyedType DEF Sound
  <2>3. enc' = [enc EXCEPT ![m] = c]
    BY <1>4
  <2> HIDE DEF c
  <2>4. enc'[m] = c /\ \A n \in Names : n # m => enc'[n] = enc[n]
    BY <2>3 DEF Sound, TypeOK
  <2>5. Whole(enc'[m]) /\ enc'[m].raw = enc[m].raw
    BY <2>2, <2>4, CiphertextIsWhole
  <2>6. Image(m)'
    BY <1>2, <2>5 DEF Images, Image
  <2> QED BY <1>2, <2>1, <2>4, <2>6, OneNameChanged
<1> QED BY <1>1, <1>3, <1>4 DEF UpdateKeys, Readable

LEMMA LoopImages ==
    ASSUME Sound, OneTerminal, Images, NEW t \in Terminals, Loop(t)
    PROVE  Images'
<1>1. job[t] # None /\ job[t] \in Jobs /\ UNCHANGED <<enc, dec>>
  BY JobOf DEF Loop, Running
<1>2. CASE Exit(t)
  BY <1>1, <1>2, Ends, FilesUnread
<1>3. ASSUME NEW n, job' = [job EXCEPT ![t].name = n, ![t].todo = @ \ {n}, ![t].step = "begin",
                                       ![t].text = None, ![t].before = None]
      PROVE  Images'
  <2>1. job'[t].step = "begin"
    BY <1>1, <1>3 DEF Sound, TypeOK, Jobs
  <2> QED BY <1>1, <2>1, FilesUnread
<1> QED BY <1>2, <1>3 DEF Loop

LEMMA NextImages ==
    ASSUME Sound, OneTerminal, RoundTrips, CreatesNew, Images, [Next]_vars
    PROVE  Images'
<1>1. ASSUME NEW t \in Terminals, NEW r \in Recipes, Start(t, r) PROVE Images'
  <2>1. job'[t].step = "next" /\ UNCHANGED <<enc, dec>>
    BY <1>1 DEF Start, Sound, TypeOK
  <2> QED BY <2>1, FilesUnread
<1>2. ASSUME NEW t \in Terminals, Step(t) PROVE Images'
  <2>1. CASE MakeTemp(t)
    <3>1. job[t] # None /\ UNCHANGED <<enc, dec>> /\ (Exit(t) \/ Goto(t, "sops"))
      BY <2>1 DEF MakeTemp, Running
    <3> QED BY <3>1, Moves, Ends, FilesUnread DEF Steps
  <2> QED BY <1>2, <2>1, LoopImages, SopsDecryptImages, RenameImages, ChooseImages, SopsOpenImages, EditorImages,
          SopsSaveImages, TruncateImages, SopsEncryptImages, CleanImages, UpdateKeysImages DEF Step
<1>3. ASSUME NEW t \in Terminals, Kill(t) PROVE Images'
  BY <1>3, Ends, FilesUnread DEF Kill
<1>4. ASSUME NEW n \in Names, EditPlain(n) PROVE Images'
  <2>1. /\ \A t \in Terminals : job[t] = None
        /\ \E r \in Raws : dec' = [dec EXCEPT ![n] = [raw |-> r, edited |-> TRUE]]
        /\ UNCHANGED <<enc, job>>
    BY <1>4 DEF EditPlain, OneTerminal
  <2>2. \A t \in Terminals : Fresh(t)'
    BY <2>1 DEF Fresh, Running
  <2>3. dec'[n].edited /\ \A m \in Names : m # n => dec'[m] = dec[m]
    BY <2>1 DEF Sound, TypeOK
  <2>4. \A m \in Names : Image(m)'
    BY <2>1, <2>3 DEF Images, Image
  <2> QED BY <2>2, <2>4 DEF Images
<1>5. CASE UNCHANGED vars
  BY <1>5 DEF vars, Images, Image, Fresh, Running
<1> QED BY <1>1, <1>2, <1>3, <1>4, <1>5 DEF Next

\* A plaintext that nobody edited since a recipe wrote it changes no value when it is folded back:
\* for any environments and values, with one recipe at a time out of decrypt, encrypt, new, clean and
\* rekey (env.just, env-encrypt).
THEOREM OnlyEditsAreFolded ==
    ASSUME OneTerminal, RoundTrips
    PROVE  Spec => FoldsOnlyEdits
<1> DEFINE A == \A t \in Terminals :
                    /\ Running(t, "save") /\ job[t].recipe = "encrypt"
                    /\ ~job[t].text.edited
                    /\ job'[t] # job[t]
                    => Meaning(enc'[job[t].name]) = Meaning(enc[job[t].name])
<1>1. Init => CreatesNew /\ Images
  BY InitImages DEF Init, CreatesNew, Running
<1>2. Sound /\ CreatesNew /\ Images /\ [Next]_vars => CreatesNew' /\ Images'
  BY CreatesKept, NextImages
<1>3. Sound /\ Images /\ [Next]_vars => [A]_vars
  <2> SUFFICES ASSUME Sound, Images, [Next]_vars, NEW t \in Terminals, Running(t, "save"),
                      ~job[t].text.edited, job'[t] # job[t]
               PROVE  enc' = enc
    OBVIOUS
  <2>1. CASE \E u \in Terminals : (\E r \in Recipes : Start(u, r)) \/ Step(u) \/ Kill(u)
    <3>1. PICK u \in Terminals : (\E r \in Recipes : Start(u, r)) \/ Step(u) \/ Kill(u)
      BY <2>1
    <3>2. u = t
      BY <3>1, OthersWait
    <3>3. CASE SopsSave(t)
      BY <3>3, SaveKeepsUnedited
    <3>4. CASE Kill(t)
      BY <3>4 DEF Kill
    <3>5. CASE Loop(t)
      BY <3>5 DEF Loop
    <3> QED BY <3>1, <3>2, <3>3, <3>4, <3>5
         DEF Start, Step, Running, MakeTemp, SopsDecrypt, Rename, Choose, SopsOpen, Editor,
             Truncate, SopsEncrypt, Overwrite, Remove, UpdateKeys
  <2>2. CASE \E n \in Names : EditPlain(n)
    BY <2>2 DEF EditPlain
  <2>3. CASE UNCHANGED vars
    BY <2>3 DEF vars
  <2> QED BY <2>1, <2>2, <2>3 DEF Next
<1> QED BY <1>1, <1>2, <1>3, Soundness, PTL DEF Spec, FoldsOnlyEdits
-----------------------------------------------------------------------------
(* The link ./.env (EnvLink), for any profiles.                            *)

LinkJobs == [recipe : {"", "env-use", "env-unuse"}, name : Profiles \cup {""},
             step : {"", "decrypt", "check", "rm", "ln"}]

\* A recipe that has made its test: before its rm there is nothing of the person's at ./.env.
Tested ==
    /\ linkJob \in [LinkTerminals -> LinkJobs]
    /\ \A t \in LinkTerminals : linkJob[t].step = "rm" => dotenv \notin Unmanaged

\* ... and, when no other recipe runs, nothing at all before its ln.
Cleared == \A t \in LinkTerminals : linkJob[t].step = "ln" => dotenv = Nothing

LEMMA EntriesDiffer ==
    ASSUME NEW n
    PROVE  /\ LinkTo(n) \notin Unmanaged /\ LinkTo(n) # Nothing
           /\ Nothing \notin Unmanaged
BY DEF LinkTo, Unmanaged, Nothing, File, Foreign, Dotenv

LEMMA IdleType == NoJob \in LinkJobs /\ NoJob.step = ""
BY DEF NoJob, LinkJobs

LEMMA GotoEffect ==
    ASSUME linkJob \in [LinkTerminals -> LinkJobs], NEW t \in LinkTerminals,
           NEW step \in {"", "decrypt", "check", "rm", "ln"}, LinkGoto(t, step)
    PROVE  /\ linkJob' \in [LinkTerminals -> LinkJobs]
           /\ linkJob'[t].step = step
           /\ \A u \in LinkTerminals : u # t => linkJob'[u] = linkJob[u]
<1> DEFINE j == [linkJob[t] EXCEPT !.step = step]
<1>1. j \in LinkJobs /\ j.step = step
  BY DEF LinkJobs
<1>2. linkJob' = [linkJob EXCEPT ![t] = j]
  BY DEF LinkGoto
<1> HIDE DEF j
<1> QED BY <1>1, <1>2

LEMMA ExitEffect ==
    ASSUME linkJob \in [LinkTerminals -> LinkJobs], NEW t \in LinkTerminals, LinkExit(t)
    PROVE  /\ linkJob' \in [LinkTerminals -> LinkJobs]
           /\ linkJob'[t].step = ""
           /\ \A u \in LinkTerminals : u # t => linkJob'[u] = linkJob[u]
BY IdleType DEF LinkExit

LEMMA StartEffect ==
    ASSUME linkJob \in [LinkTerminals -> LinkJobs], NEW t \in LinkTerminals, LinkStart(t)
    PROVE  /\ linkJob' \in [LinkTerminals -> LinkJobs]
           /\ linkJob'[t].step \notin {"rm", "ln"}
           /\ \A u \in LinkTerminals : u # t => linkJob'[u] = linkJob[u]
<1> DEFINE use(n) == [recipe |-> "env-use", name |-> n, step |-> "decrypt"]
           unuse == [recipe |-> "env-unuse", name |-> "", step |-> "check"]
<1>1. /\ \A n \in Profiles : use(n) \in LinkJobs /\ use(n).step = "decrypt"
      /\ unuse \in LinkJobs /\ unuse.step = "check"
  BY DEF LinkJobs
<1>2. \/ \E n \in Profiles : linkJob' = [linkJob EXCEPT ![t] = use(n)]
      \/ linkJob' = [linkJob EXCEPT ![t] = unuse]
  BY DEF LinkStart
<1> HIDE DEF use, unuse
<1> QED BY <1>1, <1>2

LEMMA TestedInit == LinkInit => Tested /\ Cleared
BY IdleType DEF LinkInit, Tested, Cleared

LEMMA TestedNext == Tested /\ [LinkNext]_linkVars => Tested'
<1> SUFFICES ASSUME Tested, [LinkNext]_linkVars PROVE Tested'
  OBVIOUS
<1> USE DEF Tested
<1>1. ASSUME NEW t \in LinkTerminals, LinkStart(t) PROVE Tested'
  BY <1>1, StartEffect DEF LinkStart
<1>2. ASSUME NEW t \in LinkTerminals, DecryptProfile(t) PROVE Tested'
  BY <1>2, GotoEffect, ExitEffect DEF DecryptProfile
<1>3. ASSUME NEW t \in LinkTerminals, CheckUse(t) PROVE Tested'
  BY <1>3, GotoEffect, ExitEffect, EntriesDiffer DEF CheckUse, Managed
<1>4. ASSUME NEW t \in LinkTerminals, CheckUnuse(t) PROVE Tested'
  BY <1>4, GotoEffect, ExitEffect, EntriesDiffer DEF CheckUnuse, Managed
<1>5. ASSUME NEW t \in LinkTerminals, RemoveLink(t) PROVE Tested'
  BY <1>5, GotoEffect, ExitEffect, EntriesDiffer DEF RemoveLink
<1>6. ASSUME NEW t \in LinkTerminals, MakeLink(t) PROVE Tested'
  BY <1>6, ExitEffect, EntriesDiffer DEF MakeLink
<1>7. ASSUME NEW t \in LinkTerminals, KillLink(t) PROVE Tested'
  BY <1>7, ExitEffect DEF KillLink
<1>8. CASE CleanProfiles
  BY <1>8 DEF CleanProfiles
<1>9. CASE WriteDotenv
  BY <1>9, IdleType DEF WriteDotenv
<1>10. CASE UNCHANGED linkVars
  BY <1>10 DEF linkVars
<1> QED BY <1>1, <1>2, <1>3, <1>4, <1>5, <1>6, <1>7, <1>8, <1>9, <1>10 DEF LinkNext, LinkStep

\* No step of a recipe, killed or not, at one terminal or several, changes an ./.env that is no
\* managed link (justfile:29).
THEOREM UnmanagedIsKept == LinkSpec => NeverClobbered
<1>1. Tested /\ [LinkNext]_linkVars
        => [(\E t \in LinkTerminals : LinkStep(t)) /\ dotenv \in Unmanaged
                => dotenv' = dotenv]_linkVars
  <2> SUFFICES ASSUME Tested, NEW t \in LinkTerminals, LinkStep(t), dotenv \in Unmanaged
               PROVE  dotenv' = dotenv
    BY DEF linkVars
  <2>1. CASE MakeLink(t)
    BY <2>1, EntriesDiffer DEF MakeLink
  <2>2. ~ RemoveLink(t)
    BY DEF Tested, RemoveLink, At
  <2> QED BY <2>1, <2>2 DEF LinkStep, DecryptProfile, CheckUse, CheckUnuse
<1> QED BY <1>1, TestedInit, TestedNext, PTL DEF LinkSpec, NeverClobbered

\* Where no other recipe runs, an env-use that comes to its ln makes the link: nothing is at
\* ./.env then, whatever pointed nowhere before and whichever recipe was killed (justfile:45).
THEOREM ProfileIsActivated ==
    ASSUME \A t, u \in LinkTerminals : t = u
    PROVE  LinkSpec => UseActivates
<1>1. Tested /\ Cleared /\ [LinkNext]_linkVars => Cleared'
  <2> SUFFICES ASSUME Tested, Cleared, [LinkNext]_linkVars PROVE Cleared'
    OBVIOUS
  <2> USE DEF Tested, Cleared
  <2>1. ASSUME NEW t \in LinkTerminals, LinkStart(t) PROVE Cleared'
    BY <2>1, StartEffect DEF LinkStart
  <2>2. ASSUME NEW t \in LinkTerminals, DecryptProfile(t) PROVE Cleared'
    BY <2>2, GotoEffect, ExitEffect DEF DecryptProfile
  <2>3. ASSUME NEW t \in LinkTerminals, CheckUse(t) PROVE Cleared'
    <3>1. ~ (Exists \/ IsLink) => dotenv = Nothing
      BY DEF Exists, IsLink, Unmanaged
    <3> QED BY <2>3, <3>1, GotoEffect, ExitEffect DEF CheckUse
  <2>4. ASSUME NEW t \in LinkTerminals, CheckUnuse(t) PROVE Cleared'
    BY <2>4, GotoEffect, ExitEffect DEF CheckUnuse
  <2>5. ASSUME NEW t \in LinkTerminals, RemoveLink(t) PROVE Cleared'
    BY <2>5, GotoEffect, ExitEffect DEF RemoveLink
  <2>6. ASSUME NEW t \in LinkTerminals, MakeLink(t) PROVE Cleared'
    BY <2>6, ExitEffect DEF MakeLink
  <2>7. ASSUME NEW t \in LinkTerminals, KillLink(t) PROVE Cleared'
    BY <2>7, ExitEffect DEF KillLink
  <2>8. CASE CleanProfiles
    BY <2>8 DEF CleanProfiles
  <2>9. CASE WriteDotenv
    BY <2>9, IdleType DEF WriteDotenv
  <2>10. CASE UNCHANGED linkVars
    BY <2>10 DEF linkVars
  <2> QED BY <2>1, <2>2, <2>3, <2>4, <2>5, <2>6, <2>7, <2>8, <2>9, <2>10 DEF LinkNext, LinkStep
<1>2. Cleared /\ [LinkNext]_linkVars
        => [\A t \in LinkTerminals : MakeLink(t) => dotenv' = LinkTo(linkJob[t].name)]_linkVars
  BY DEF Cleared, MakeLink, At
<1> QED BY <1>1, <1>2, TestedInit, TestedNext, PTL DEF LinkSpec, UseActivates
=============================================================================
