--------------------------- MODULE MCSearchIndex ---------------------------
(* Small instances of SearchIndex for TLC. *)
EXTENDS SearchIndex

\* README.md:168: "Research writes maintain redacted, version-aware search documents in
\* the same PostgreSQL transaction as the authoritative mutation".  When no write is
\* under way every fact with an active definition is found.
AlwaysFound ==
  fact.version > 0 /\ def.active /\ (\A c \in Clients : At(c, "idle")) => Found

=============================================================================
