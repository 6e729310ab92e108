------------------------------- MODULE EnvMC -------------------------------
(***************************************************************************)
(* The env recipes for TLC: one terminal whose recipes may be killed       *)
(* (EnvSecrets), two terminals at once (EnvSecrets again), or the link     *)
(* ./.env (EnvLink).  One state graph holds the three instances: those     *)
(* that are not chosen stay in an initial state.                           *)
(***************************************************************************)
EXTENDS EnvSecrets, EnvLink, TLC

AllRecipes == {"decrypt", "encrypt", "edit", "new", "envfile", "clean", "rekey"}

\* Recipes that treat env/dec as an image of the ciphertext.
RoundTrip == {"decrypt", "encrypt", "new", "clean", "rekey"}

CONSTANTS OneName, SomeValues, SomeMultiLine, TwoTerminals

Symmetry == Permutations(TwoTerminals)

VARIABLES part, enc2, dec2, orphans2, job2

togetherVars == <<enc2, dec2, orphans2, job2>>

Together == INSTANCE EnvSecrets WITH
    Names <- OneName, Mine <- OneName, Values <- SomeValues, MultiLine <- SomeMultiLine,
    MaxLayers <- 1, Terminals <- TwoTerminals, Recipes <- AllRecipes, Kills <- FALSE,
    enc <- enc2, dec <- dec2, orphans <- orphans2, job <- job2

MCInit ==
    /\ part \in {"alone", "together", "link"}
    /\ Init /\ Together!Init /\ LinkInit
    /\ part # "alone" => \A n \in Names : enc[n] = None
    /\ part # "together" => \A n \in OneName : enc2[n] = None
    /\ part # "link" => dotenv = Nothing

MCNext ==
    /\ UNCHANGED part
    /\ \/ part = "alone" /\ Next /\ UNCHANGED <<togetherVars, linkVars>>
       \/ part = "together" /\ Together!Next /\ UNCHANGED <<vars, linkVars>>
       \/ part = "link" /\ LinkNext /\ UNCHANGED <<vars, togetherVars>>

MCSpec == MCInit /\ [][MCNext]_<<part, vars, togetherVars, linkVars>>

\* Recipes that overlap leave only files some recipe or person writes whole, and no wiped file
\* behind: only the file an env-clean is about to remove is ever of zeros (env.just, env-clean;
\* EnvSecrets).
FilesStaySound == Together!TypeOK /\ Together!WipedFilesGo
=============================================================================
