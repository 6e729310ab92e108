----------------------------- MODULE EnvSecrets -----------------------------
(***************************************************************************)
(* The encrypted environment files of env/ and the recipes of              *)
(* .just/env.just that move secrets between their two forms:               *)
(*                                                                         *)
(*   env/enc/<name>.env.enc   ciphertext, committed to git                 *)
(*   env/dec/<name>.env       plaintext, local                             *)
(*                                                                         *)
(* A recipe is a shell script: each command that touches a file is a step, *)
(* it stops at the first command that fails (set -euo pipefail), and it    *)
(* can be killed between any two commands.  A file holds one variable; its *)
(* right-hand side is a value inside some layers of double quotes, of      *)
(* which .just/dotenv.py strips one.  sops and git are external.           *)
(***************************************************************************)
EXTENDS Naturals, FiniteSets

CONSTANTS
    Names,      \* environments: dev, prod
    Mine,       \* environments whose .sops.yaml rule lists this machine's key
    Values,     \* values a variable may have
    MultiLine,  \* the values that contain an escaped newline
    MaxLayers,  \* bound on the layers of quotes
    Terminals,  \* recipes running at once
    Recipes,    \* recipes in use
    Kills,      \* recipes may be killed
    None,       \* no file
    Torn,       \* what a redirection leaves when its command fails
    Zeros,      \* what env-clean overwrites a file with
    Blank       \* only a comment, as env-new writes

ASSUME EnvAssumption ==
    /\ Mine \subseteq Names /\ MultiLine \subseteq Values
    /\ MaxLayers \in Nat /\ Kills \in BOOLEAN
    /\ Recipes \subseteq {"decrypt", "encrypt", "edit", "new", "envfile", "clean", "rekey"}

VARIABLES
    enc,        \* per name: no file, a torn file, or ciphertext
    dec,        \* per name: no file, or plaintext
    orphans,    \* names with a temporary plaintext file nobody owns any more
    job         \* per terminal: the recipe it runs and how far it is

vars == <<enc, dec, orphans, job>>

Raws == [value : Values, layers : 0..MaxLayers]

Ciphertexts == [raw : Raws \cup {Blank}, mine : BOOLEAN]
Plaintexts == [raw : Raws \cup {Blank, Zeros}, edited : BOOLEAN]

Steps == {"next", "begin", "sops", "mv", "open", "editor", "save", "truncate", "create", "rm"}
Jobs == [recipe : Recipes, step : Steps,
         todo : SUBSET Names, name : Names \cup {None},
         text : Plaintexts \cup {None}, before : Ciphertexts \cup {None}]

\* What stands for a missing, torn, zeroed or empty file is none of the files.
ASSUME MarkersAssumption ==
    /\ None \notin Ciphertexts \cup {Torn} /\ Torn \notin Ciphertexts
    /\ None \notin Plaintexts \cup Jobs
    /\ Zeros \notin Raws \cup {Blank} /\ Blank \notin Raws

TypeOK ==
    /\ enc \in [Names -> Ciphertexts \cup {Torn, None}]
    /\ dec \in [Names -> Plaintexts \cup {None}]
    /\ orphans \subseteq Names
    /\ job \in [Terminals -> Jobs \cup {None}]

Whole(file) == file \notin {None, Torn}
Readable(file) == Whole(file) /\ file.mine

\* Mutant: the first and the last character go, quotes or not.
parseAlways(raw) == [raw EXCEPT !.layers = @ - 1]

\* dotenv.py: one layer of quotes is stripped, escapes inside it are expanded.
parse(raw) ==
    IF raw \in Raws /\ raw.layers > 0 THEN [raw EXCEPT !.layers = @ - 1] ELSE raw

HasNewline(raw) == raw \in Raws /\ raw.layers = 1 /\ raw.value \in MultiLine

\* What env-run, env-docker-run and env-k8s-secret give their process.
Meaning(file) == parse(file.raw)

-----------------------------------------------------------------------------
(* Running a recipe.                                                       *)

Running(t, step) == job[t] # None /\ job[t].step = step

Goto(t, step) == job' = [job EXCEPT ![t].step = step]

\* The script ends, because it is done or because a command failed.
Exit(t) == job' = [job EXCEPT ![t] = None]

\* The names a recipe may be given, or finds by its glob.
Selections(recipe) ==
    CASE recipe \in {"decrypt", "encrypt"} -> (SUBSET Names) \ {{}}
      [] recipe \in {"edit", "new", "envfile"} -> {{n} : n \in Names}
      [] recipe = "clean" -> {{n \in Names : dec[n] # None}}
      [] recipe = "rekey" -> {{n \in Names : enc[n] # None}}

Start(t, recipe) ==
    /\ job[t] = None
    /\ \E names \in Selections(recipe) :
        job' = [job EXCEPT ![t] = [recipe |-> recipe, step |-> "next", todo |-> names,
                                   name |-> None, text |-> None, before |-> None]]
    /\ UNCHANGED <<enc, dec, orphans>>

\* The for loop: the next name, or the end.
Loop(t) ==
    /\ Running(t, "next")
    /\ \/ job[t].todo = {} /\ Exit(t)
       \/ \E n \in job[t].todo :
            job' = [job EXCEPT ![t].name = n, ![t].todo = @ \ {n}, ![t].step = "begin",
                               ![t].text = None, ![t].before = None]
    /\ UNCHANGED <<enc, dec, orphans>>

\* The recipe dies; a temporary plaintext file stays behind.
Kill(t) ==
    /\ Kills /\ job[t] # None
    /\ orphans' = IF job[t].step = "mv" THEN orphans \cup {job[t].name} ELSE orphans
    /\ Exit(t)
    /\ UNCHANGED <<enc, dec>>

-----------------------------------------------------------------------------
(* env-decrypt and env-docker-env-file                                     *)

Decrypts(t) == job[t].recipe \in {"decrypt", "envfile"}

\* [[ -f $src ]], mktemp, chmod
MakeTemp(t) ==
    /\ Running(t, "begin") /\ Decrypts(t)
    /\ IF enc[job[t].name] = None THEN Exit(t) ELSE Goto(t, "sops")
    /\ UNCHANGED <<enc, dec, orphans>>

\* Mutant: env-decrypt normalises as well.
SopsDecryptNormalises(t) ==
    /\ Running(t, "sops")
    /\ LET file == enc[job[t].name] IN
        IF ~Readable(file) \/ HasNewline(file.raw) THEN Exit(t)
        ELSE job' = [job EXCEPT ![t].text = [raw |-> parse(file.raw), edited |-> FALSE],
                                ![t].step = "mv"]
    /\ UNCHANGED <<enc, dec, orphans>>

\* sops decrypt "$src" [ | dotenv.py envfile ] > "$tmp"
SopsDecrypt(t) ==
    /\ Running(t, "sops")
    /\ LET file == enc[job[t].name]
           envfile == job[t].recipe = "envfile" IN
        IF ~Readable(file) \/ (envfile /\ HasNewline(file.raw))
        THEN Exit(t)
        ELSE job' = [job EXCEPT
                        ![t].text = [raw |-> IF envfile THEN parse(file.raw) ELSE file.raw,
                                     edited |-> FALSE],
                        ![t].step = "mv"]
    /\ UNCHANGED <<enc, dec, orphans>>

\* mv -f "$tmp" "$out"
Rename(t) ==
    /\ Running(t, "mv")
    /\ dec' = [dec EXCEPT ![job[t].name] = job[t].text]
    /\ Goto(t, "next")
    /\ UNCHANGED <<enc, orphans>>

-----------------------------------------------------------------------------
(* env-encrypt, env-edit and env-new                                       *)

\* Mutant: env-encrypt always runs a plain sops encrypt.
ChooseCreate(t) ==
    /\ Running(t, "begin") /\ job[t].recipe \in {"encrypt", "edit", "new"}
    /\ Goto(t, IF job[t].recipe = "edit" THEN "open" ELSE "truncate")
    /\ UNCHANGED <<enc, dec, orphans>>

\* env-encrypt folds into an existing file with sops edit and creates a new one;
\* env-new only creates, env-edit only edits.
Choose(t) ==
    /\ Running(t, "begin") /\ job[t].recipe \in {"encrypt", "edit", "new"}
    /\ LET exists == enc[job[t].name] # None
           recipe == job[t].recipe IN
        \/ /\ \/ recipe = "encrypt" /\ dec[job[t].name] = None
              \/ recipe = "new" /\ exists
           /\ Exit(t)
        \/ /\ \/ recipe = "encrypt" /\ dec[job[t].name] # None /\ exists
              \/ recipe = "edit"
           /\ Goto(t, "open")
        \/ /\ \/ recipe = "encrypt" /\ dec[job[t].name] # None /\ ~exists
              \/ recipe = "new" /\ ~exists
           /\ Goto(t, "truncate")
    /\ UNCHANGED <<enc, dec, orphans>>

\* sops edit reads the ciphertext, or starts from a template when there is none ...
SopsOpen(t) ==
    /\ Running(t, "open")
    /\ LET n == job[t].name
           file == IF enc[n] = None THEN [raw |-> Blank, mine |-> n \in Mine] ELSE enc[n] IN
        IF Readable(file)
        THEN job' = [job EXCEPT ![t].before = file, ![t].step = "editor"]
        ELSE Exit(t)
    /\ UNCHANGED <<enc, dec, orphans>>

\* ... runs the editor: cp -f -- "$src" for env-encrypt, a person for env-edit ...
Editor(t) ==
    /\ Running(t, "editor")
    /\ \/ /\ job[t].recipe = "encrypt" /\ dec[job[t].name] = None
          /\ Exit(t)
       \/ /\ job[t].recipe = "encrypt" /\ dec[job[t].name] # None
          /\ job' = [job EXCEPT ![t].text = dec[job[t].name], ![t].step = "save"]
       \/ /\ job[t].recipe = "edit"
          /\ \E r \in Raws :
                job' = [job EXCEPT ![t].text = [raw |-> r, edited |-> TRUE],
                                   ![t].step = "save"]
    /\ UNCHANGED <<enc, dec, orphans>>

\* ... and writes the file it read with the changed values, or exits 200 when
\* nothing changed, or fails on what is no dotenv.
SopsSave(t) ==
    /\ Running(t, "save")
    /\ LET text == job[t].text
           before == job[t].before IN
        \/ /\ text.raw = Zeros
           /\ Exit(t) /\ UNCHANGED enc
        \/ /\ text.raw = before.raw
           /\ Goto(t, "next") /\ UNCHANGED enc
        \/ /\ text.raw \notin {Zeros, before.raw}
           /\ enc' = [enc EXCEPT ![job[t].name] = [before EXCEPT !.raw = text.raw]]
           /\ Goto(t, "next")
    /\ UNCHANGED <<dec, orphans>>

\* > "$dst"
Truncate(t) ==
    /\ Running(t, "truncate")
    /\ enc' = [enc EXCEPT ![job[t].name] = Torn]
    /\ Goto(t, "create")
    /\ UNCHANGED <<dec, orphans>>

\* sops encrypt, which may fail (no creation rule, no key, no such plaintext).
SopsEncrypt(t) ==
    /\ Running(t, "create")
    /\ LET n == job[t].name
           create(raw) == enc' = [enc EXCEPT ![n] = [raw |-> raw, mine |-> n \in Mine]] IN
        \/ Exit(t) /\ UNCHANGED enc
        \/ job[t].recipe = "new" /\ create(Blank) /\ Goto(t, "next")
        \/ /\ job[t].recipe = "encrypt"
           /\ dec[n] # None /\ dec[n].raw # Zeros
           /\ create(dec[n].raw) /\ Goto(t, "next")
    /\ UNCHANGED <<dec, orphans>>

-----------------------------------------------------------------------------
(* env-clean and env-rekey                                                 *)

\* Mutant: the overwritten file is left in place.
OverwriteOnly(t) ==
    /\ Running(t, "begin") /\ job[t].recipe = "clean"
    /\ dec' = [dec EXCEPT ![job[t].name] = [raw |-> Zeros, edited |-> FALSE]]
    /\ Goto(t, "next")
    /\ UNCHANGED <<enc, orphans>>

\* head -c .. /dev/zero > "$f"
Overwrite(t) ==
    /\ Running(t, "begin") /\ job[t].recipe = "clean"
    /\ dec' = [dec EXCEPT ![job[t].name] = [raw |-> Zeros, edited |-> FALSE]]
    /\ Goto(t, "rm")
    /\ UNCHANGED <<enc, orphans>>

\* rm -f -- "$f"
Remove(t) ==
    /\ Running(t, "rm")
    /\ dec' = [dec EXCEPT ![job[t].name] = None]
    /\ Goto(t, "next")
    /\ UNCHANGED <<enc, orphans>>

\* sops updatekeys: nothing to do, done, or this machine cannot read the file.
UpdateKeys(t) ==
    /\ Running(t, "begin") /\ job[t].recipe = "rekey"
    /\ LET n == job[t].name
           synced == Whole(enc[n]) /\ enc[n].mine = (n \in Mine) IN
        IF synced \/ Readable(enc[n])
        THEN enc' = [enc EXCEPT ![n].mine = n \in Mine] /\ Goto(t, "next")
        ELSE Exit(t) /\ UNCHANGED enc
    /\ UNCHANGED <<dec, orphans>>

-----------------------------------------------------------------------------
\* The person at an idle terminal edits, or writes, a plaintext file.
EditPlain(n) ==
    /\ \E t \in Terminals : job[t] = None
    /\ \E r \in Raws : dec' = [dec EXCEPT ![n] = [raw |-> r, edited |-> TRUE]]
    /\ UNCHANGED <<enc, orphans, job>>

Init ==
    /\ enc \in [Names -> {None} \cup [raw : Raws, mine : BOOLEAN]]
    /\ dec = [n \in Names |-> None]
    /\ orphans = {}
    /\ job = [t \in Terminals |-> None]

Step(t) ==
    \/ Loop(t)
    \/ MakeTemp(t) \/ SopsDecrypt(t) \/ Rename(t)
    \/ Choose(t) \/ SopsOpen(t) \/ Editor(t) \/ SopsSave(t)
    \/ Truncate(t) \/ SopsEncrypt(t)
    \/ Overwrite(t) \/ Remove(t)
    \/ UpdateKeys(t)

Next ==
    \/ \E t \in Terminals : (\E r \in Recipes : Start(t, r)) \/ Step(t) \/ Kill(t)
    \/ \E n \in Names : EditPlain(n)

Spec == Init /\ [][Next]_vars

-----------------------------------------------------------------------------
(* Properties.                                                             *)

\* env-encrypt folds edits back into the ciphertext and nothing else: if nobody
\* edited env/dec/<name>.env since a recipe wrote it, every consumer of the
\* ciphertext sees the same value after env-encrypt as before.
FoldsOnlyEdits ==
    [][\A t \in Terminals :
        /\ Running(t, "save") /\ job[t].recipe = "encrypt"
        /\ ~job[t].text.edited
        /\ job'[t] # job[t]
        => Meaning(enc'[job[t].name]) = Meaning(enc[job[t].name])]_vars

\* The committed source of truth survives: no recipe, failing or killed at any
\* command, turns a whole ciphertext into a torn or missing file.
CiphertextSurvives == [][\A n \in Names : Whole(enc[n]) => Whole(enc'[n])]_vars

\* When env-clean ends, env/dec holds no decrypted plaintext.
CleanWipesPlaintext ==
    [][\A t \in Terminals :
        /\ Running(t, "next") /\ job[t].recipe = "clean" /\ job[t].todo = {}
        /\ job'[t] = None
        => orphans = {} /\ \A n \in Names : dec[n] = None]_vars

\* A reader of env/dec never meets a wiped file, except while an env-clean is
\* about to remove that very file: recipes that overlap do not leave one behind.
WipedFilesGo ==
    \A n \in Names :
        dec[n] # None /\ dec[n].raw = Zeros =>
            \E t \in Terminals : Running(t, "rm") /\ job[t].name = n
=============================================================================
