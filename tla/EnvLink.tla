------------------------------- MODULE EnvLink -------------------------------
(***************************************************************************)
(* env-use and env-unuse of the justfile: the symbolic link ./.env to the  *)
(* active profile env/dec/<name>.env.  Each command of a recipe that looks *)
(* at or changes a file is a step, and a recipe can be killed before any   *)
(* of them.  The person may put a file or a link of their own at ./.env.   *)
(* env-decrypt and env-clean, whose steps are those of EnvSecrets, write   *)
(* and remove env/dec/<name>.env in one step here.                         *)
(***************************************************************************)
EXTENDS Naturals

CONSTANTS
    Profiles,       \* the names of profiles
    LinkTerminals   \* recipes running at once

VARIABLES
    dotenv,     \* ./.env: nothing, a file, a link elsewhere, or a managed link to a profile
    profiles,   \* the profiles with a file in env/dec
    linkJob     \* per terminal: the recipe that runs, its profile, its next step
linkVars == <<dotenv, profiles, linkJob>>

Dotenv(kind, name) == [kind |-> kind, name |-> name]
LinkTo(n) == Dotenv("link", n)
Nothing == Dotenv("none", "")
File == Dotenv("file", "")
Foreign == Dotenv("foreign", "")
Unmanaged == {File, Foreign}
NoJob == [recipe |-> "", name |-> "", step |-> ""]

\* [[ -e .env ]], [[ -L .env ]] and $(readlink .env) == env/dec/*.env.  -e follows the link.
IsLink == dotenv \notin {Nothing, File}
Managed == \E n \in Profiles : dotenv = LinkTo(n)
Exists == \/ dotenv \in Unmanaged
          \/ \E n \in profiles : dotenv = LinkTo(n)

At(t, step) == linkJob[t].step = step
LinkGoto(t, step) == linkJob' = [linkJob EXCEPT ![t].step = step]
LinkExit(t) == linkJob' = [linkJob EXCEPT ![t] = NoJob]

LinkInit == /\ dotenv \in {Nothing} \cup Unmanaged
            /\ profiles = {} /\ linkJob = [t \in LinkTerminals |-> NoJob]

LinkStart(t) ==
    /\ linkJob[t] = NoJob
    /\ \/ \E n \in Profiles : linkJob' = [linkJob EXCEPT ![t] =
             [recipe |-> "env-use", name |-> n, step |-> "decrypt"]]
       \/ linkJob' = [linkJob EXCEPT ![t] = [recipe |-> "env-unuse", name |-> "", step |-> "check"]]
    /\ UNCHANGED <<dotenv, profiles>>

\* The dependency (env-decrypt name), which may fail, and [[ -f $target ]].
DecryptProfile(t) ==
    /\ At(t, "decrypt")
    /\ \/ profiles' = profiles \cup {linkJob[t].name} /\ LinkGoto(t, "check")
       \/ LinkExit(t) /\ UNCHANGED profiles
    /\ UNCHANGED dotenv

\* Mutant of CheckUse: only -e is asked, which a link to a missing file does not satisfy.
CheckUseExists(t) ==
    /\ At(t, "check") /\ linkJob[t].recipe = "env-use"
    /\ \/ linkJob[t].name \notin profiles /\ LinkExit(t)
       \/ linkJob[t].name \in profiles /\ ~ Exists /\ LinkGoto(t, "ln")
       \/ linkJob[t].name \in profiles /\ Exists /\ Managed /\ LinkGoto(t, "rm")
       \/ linkJob[t].name \in profiles /\ Exists /\ ~ Managed /\ LinkExit(t)
    /\ UNCHANGED <<dotenv, profiles>>

\* Mutant of CheckUse: any link may be replaced.
CheckUseAnyLink(t) ==
    /\ At(t, "check") /\ linkJob[t].recipe = "env-use"
    /\ \/ linkJob[t].name \notin profiles /\ LinkExit(t)
       \/ linkJob[t].name \in profiles /\ ~ (Exists \/ IsLink) /\ LinkGoto(t, "ln")
       \/ linkJob[t].name \in profiles /\ (Exists \/ IsLink) /\ IsLink /\ LinkGoto(t, "rm")
       \/ linkJob[t].name \in profiles /\ (Exists \/ IsLink) /\ ~ IsLink /\ LinkExit(t)
    /\ UNCHANGED <<dotenv, profiles>>

\* env-use: [[ -f $target ]], then whether ./.env is there and whether it may be replaced.
CheckUse(t) ==
    /\ At(t, "check") /\ linkJob[t].recipe = "env-use"
    /\ \/ linkJob[t].name \notin profiles /\ LinkExit(t)
       \/ linkJob[t].name \in profiles /\ ~ (Exists \/ IsLink) /\ LinkGoto(t, "ln")
       \/ linkJob[t].name \in profiles /\ (Exists \/ IsLink) /\ Managed /\ LinkGoto(t, "rm")
       \/ linkJob[t].name \in profiles /\ (Exists \/ IsLink) /\ ~ Managed /\ LinkExit(t)
    /\ UNCHANGED <<dotenv, profiles>>

\* env-unuse: only a managed link is removed.
CheckUnuse(t) ==
    /\ At(t, "check") /\ linkJob[t].recipe = "env-unuse"
    /\ IF Managed THEN LinkGoto(t, "rm") ELSE LinkExit(t)
    /\ UNCHANGED <<dotenv, profiles>>

\* rm -f .env
RemoveLink(t) ==
    /\ At(t, "rm") /\ dotenv' = Nothing
    /\ IF linkJob[t].recipe = "env-use" THEN LinkGoto(t, "ln") ELSE LinkExit(t)
    /\ UNCHANGED profiles

\* ln -s "$target" .env, which fails when something is there.
MakeLink(t) ==
    /\ At(t, "ln")
    /\ dotenv' = IF dotenv = Nothing THEN LinkTo(linkJob[t].name) ELSE dotenv
    /\ LinkExit(t) /\ UNCHANGED profiles

KillLink(t) == linkJob[t] # NoJob /\ LinkExit(t) /\ UNCHANGED <<dotenv, profiles>>

\* env-clean, and the person's own hand on ./.env while no recipe is between its test and its rm.
CleanProfiles ==
    /\ \E t \in LinkTerminals : linkJob[t] = NoJob
    /\ profiles' = {} /\ profiles # {} /\ UNCHANGED <<dotenv, linkJob>>
WriteDotenv ==
    /\ \A t \in LinkTerminals : linkJob[t] = NoJob
    /\ dotenv' \in {Nothing} \cup Unmanaged /\ dotenv' # dotenv
    /\ UNCHANGED <<profiles, linkJob>>

LinkStep(t) == DecryptProfile(t) \/ CheckUse(t) \/ CheckUnuse(t) \/ RemoveLink(t) \/ MakeLink(t)
LinkNext == \/ \E t \in LinkTerminals : LinkStart(t) \/ LinkStep(t) \/ KillLink(t)
            \/ CleanProfiles \/ WriteDotenv
LinkSpec == LinkInit /\ [][LinkNext]_linkVars
-----------------------------------------------------------------------------
\* "an unmanaged .env file or foreign symlink is never clobbered" (justfile:29): no step of a
\* recipe, killed or not, changes an ./.env that is not a managed link.  (A file that is put there
\* between the test and the rm of a running recipe, :38-39 and :54-55, is lost; see WriteDotenv.)
NeverClobbered ==
    [][(\E t \in LinkTerminals : LinkStep(t)) /\ dotenv \in Unmanaged => dotenv' = dotenv]_linkVars

\* env-use that came as far as ln makes the link, also over one that points nowhere: a profile
\* can be activated after env-clean, after env-unuse, and after an env-use that was killed.
UseActivates ==
    [][\A t \in LinkTerminals : MakeLink(t) => dotenv' = LinkTo(linkJob[t].name)]_linkVars
=============================================================================
