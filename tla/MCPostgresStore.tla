--------------------------- MODULE MCPostgresStore ---------------------------
(***************************************************************************)
(* An instance of PostgresStore: which methods clients call together.      *)
(***************************************************************************)
EXTENDS PostgresStore

Some == CHOOSE c \in Codes : TRUE

\* Clicks on one link that is deleted, extended, reaped and claimed again;
\* API keys of two links that expire while their key is revoked; owners.
PostgresWorkloads ==
    {[codes |-> {Some},
      does  |-> {"Set", "Delete", "Update", "RecordClick", "Tick", "Lose"}],
     [codes |-> Codes,
      does  |-> {"Set", "CreateAPIKey", "LookupAPIKey", "DeleteAPIKey", "Tick"}],
     [codes |-> Codes,
      does  |-> {"Set", "Delete", "Update", "RotateToken", "Tick", "Lose"}]}
==============================================================================
