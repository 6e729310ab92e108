--------------------------- MODULE AdminConnectMC ---------------------------
(* Small instances of AdminConnect for TLC.                                *)
EXTENDS AdminConnect

Good ==
    [url |-> [scheme |-> "postgresql", host |-> "admin-db", username |-> "api",
              fragment |-> FALSE, path |-> <<"admin">>, sslmodes |-> <<"verify-full">>],
     expected_host |-> "admin-db", expected_role |-> "api",
     expected_database |-> "admin", valid_identifiers |-> TRUE]

\* A reviewed target, another host, a second sslmode.
MCConfigs ==
    {Good, [Good EXCEPT !.url.host = "customer-db"],
     [Good EXCEPT !.url.sslmodes = <<"verify-full", "require">>]}
=============================================================================
