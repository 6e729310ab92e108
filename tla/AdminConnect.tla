---------------------------- MODULE AdminConnect ----------------------------
(***************************************************************************)
(* How an AdminReadContext or an AdminWriteContext of admin-orm/src/lib.rs *)
(* comes to be: the configured target is validated, a pool is opened, the  *)
(* runtime role is inspected, the session mode is probed, and only then is *)
(* the context handed out.  Each query runs on whichever pooled session is *)
(* free; the pool opens and closes sessions later as it sees fit.          *)
(*                                                                         *)
(* PostgreSQL is external.  A session is read-only if the role's           *)
(* default_transaction_read_only was on when it logged in, or while the    *)
(* server is a standby; the role and the server may change at any time.    *)
(***************************************************************************)
EXTENDS Naturals

CONSTANTS
    Contexts,       \* contexts a process connects, each with its kind
    Readers,        \* the AdminReadContexts; the others are AdminWriteContexts
    Configs,        \* AdminDatabaseConfig values
    MaxSessions     \* MAX_CONNECTIONS

ASSUME ConnectAssumption ==
    /\ Readers \subseteq Contexts
    /\ MaxSessions \in Nat \ {0}

VARIABLES
    credential,     \* the database role behind the configured URL
    standby,        \* the server is in recovery
    phase,          \* per context: how far connect has come, or how it failed
    pool,           \* per context: sessions by their login default
    unchanged       \* per context: role default and server as when connect began

connectVars == <<credential, standby, phase, pool, unchanged>>

\* What validate_runtime_role reads of the role, and its
\* default_transaction_read_only.
Modes == {"off", "on"}
Credentials == [expected : BOOLEAN, privileged : BOOLEAN, default : Modes]

Errors == {"InvalidDatabaseTarget", "Database", "UnsafeRuntimeRole", "Decode",
           "ReadCredentialWritable", "WriteCredentialReadOnly"}

ConnectTypeOK ==
    /\ credential \in Credentials
    /\ standby \in BOOLEAN
    /\ phase \in [Contexts -> {"new", "role", "mode", "open"} \cup Errors]
    /\ pool \in [Contexts -> [Modes -> 0..MaxSessions]]
    /\ unchanged \in [Contexts -> BOOLEAN]

\* AdminDatabaseConfig::validate.  A URL that does not parse has no scheme.
Valid(config) ==
    /\ config.url.scheme \in {"postgres", "postgresql"}
    /\ config.url.host = config.expected_host
    /\ config.url.username = config.expected_role
    /\ ~config.url.fragment
    /\ config.valid_identifiers
    /\ config.url.path = <<config.expected_database>>
    /\ config.url.sslmodes = <<"verify-full">>

Empty == [m \in Modes |-> 0]
Size(x) == pool[x]["on"] + pool[x]["off"]

\* A session that logs in now has the role's present default.
Login(x) ==
    /\ Size(x) < MaxSessions
    /\ pool' = [pool EXCEPT ![x][credential.default] = @ + 1]

\* SHOW transaction_read_only, asked on a session with login default m.
ReadOnly(m) == m = "on" \/ standby

\* Every early return of connect drops the connection and its pool.
Fail(x, error) ==
    /\ phase' = [phase EXCEPT ![x] = error]
    /\ pool' = [pool EXCEPT ![x] = Empty]

\* connect_options, then Database::connect with min_connections(1).
Connect(x, config) ==
    /\ phase[x] = "new"
    /\ \/ ~Valid(config) /\ Fail(x, "InvalidDatabaseTarget")
       \/ Valid(config) /\ Fail(x, "Database")
       \/ Valid(config) /\ Login(x) /\ phase' = [phase EXCEPT ![x] = "role"]
    /\ unchanged' = [unchanged EXCEPT ![x] = TRUE]
    /\ UNCHANGED <<credential, standby>>

\* The identity and the attributes of the role, as they are now.
validate_runtime_role(x) ==
    /\ phase[x] = "role" /\ Size(x) > 0
    /\ IF credential.expected /\ ~credential.privileged
       THEN phase' = [phase EXCEPT ![x] = "mode"] /\ UNCHANGED pool
       ELSE Fail(x, "UnsafeRuntimeRole")
    /\ UNCHANGED <<credential, standby, unchanged>>

\* Mutant: the session mode is read but not compared.
AcceptsAny(x, readOnly) == TRUE

\* Mutant: only the reader's mode is compared.
AcceptsAnyWriter(x, readOnly) == x \in Readers => readOnly

\* A reader wants a read-only session, a writer a writable one.
Accepts(x, readOnly) == readOnly <=> x \in Readers

\* The mode of one pooled session decides.
transaction_read_only(x) ==
    /\ phase[x] = "mode"
    /\ \E m \in Modes :
        /\ pool[x][m] > 0
        /\ IF Accepts(x, ReadOnly(m))
           THEN phase' = [phase EXCEPT ![x] = "open"] /\ UNCHANGED pool
           ELSE Fail(x, IF x \in Readers THEN "ReadCredentialWritable"
                        ELSE "WriteCredentialReadOnly")
    /\ UNCHANGED <<credential, standby, unchanged>>

\* A query fails, or its row cannot be decoded.
QueryFails(x) ==
    /\ phase[x] \in {"role", "mode"}
    /\ \E error \in {"Database", "Decode"} : Fail(x, error)
    /\ UNCHANGED <<credential, standby, unchanged>>

-----------------------------------------------------------------------------
(* The pool, the role and the server go their own way.                     *)

\* Another session is needed, up to max_connections.
Grow(x) ==
    /\ phase[x] \in {"role", "mode", "open"}
    /\ Login(x)
    /\ UNCHANGED <<credential, standby, phase, unchanged>>

\* A session is lost, or idle for IDLE_TIMEOUT.
Shrink(x) ==
    /\ \E m \in Modes :
        pool[x][m] > 0 /\ pool' = [pool EXCEPT ![x][m] = @ - 1]
    /\ UNCHANGED <<credential, standby, phase, unchanged>>

\* ALTER ROLE: attributes apply at once, a new default to later logins.
AlterRole(new) ==
    /\ credential' = new
    /\ unchanged' = [x \in Contexts |->
                       unchanged[x] /\ new.default = credential.default]
    /\ UNCHANGED <<standby, phase, pool>>

\* The standby becomes the primary and keeps its sessions.
Promote ==
    /\ standby
    /\ standby' = FALSE
    /\ unchanged' = [x \in Contexts |-> FALSE]
    /\ UNCHANGED <<credential, phase, pool>>

ConnectInit ==
    /\ credential \in Credentials
    /\ standby \in BOOLEAN
    /\ phase = [x \in Contexts |-> "new"]
    /\ pool = [x \in Contexts |-> Empty]
    /\ unchanged = [x \in Contexts |-> FALSE]

ConnectNext ==
    \/ \E x \in Contexts :
        \/ \E config \in Configs : Connect(x, config)
        \/ validate_runtime_role(x)
        \/ transaction_read_only(x)
        \/ QueryFails(x)
        \/ Grow(x) \/ Shrink(x)
    \/ \E new \in Credentials : AlterRole(new)
    \/ Promote

ConnectSpec == ConnectInit /\ [][ConnectNext]_connectVars

-----------------------------------------------------------------------------
(* Properties.                                                             *)

\* One probe of one session speaks for the whole pool: while the role's default
\* and the server stay as they were when connect began, every session of an
\* AdminReadContext, opened before or after the probe, is read-only and every
\* session of an AdminWriteContext is writable.
ProbeSpeaksForPool ==
    \A x \in Contexts :
        phase[x] = "open" /\ unchanged[x] =>
            \A m \in Modes : pool[x][m] > 0 => (ReadOnly(m) <=> x \in Readers)

\* The two credentials are kept apart: under one unchanging role, no reader and
\* no writer are ever open together.
ReadersAndWritersApart ==
    \A x \in Readers, y \in Contexts \ Readers :
        ~(phase[x] = "open" /\ unchanged[x] /\ phase[y] = "open" /\ unchanged[y])

\* AdminReadContext::connect "Returns an error when .. the supplied credential
\* can write": a reader is only handed out for a role that logs in read-only.
ReadersCannotWrite ==
    [][\A x \in Readers :
        phase[x] # "open" /\ phase'[x] = "open" => credential.default = "on"]_connectVars

-----------------------------------------------------------------------------
(* The inductive invariant the proofs of Admin_proofs.tla rest on.         *)

\* Before connect there is no session; while nothing changes, all sessions of a
\* context log in alike, and the probed mode stays the mode of a login.
LoginsAgree ==
    \A x \in Contexts :
        /\ phase[x] = "new" => pool[x] = Empty
        /\ unchanged[x] => \A m \in Modes : pool[x][m] > 0 => m = credential.default
        /\ unchanged[x] /\ phase[x] = "open" =>
                (ReadOnly(credential.default) <=> x \in Readers)

ConnectInv == ConnectTypeOK /\ LoginsAgree
=============================================================================
