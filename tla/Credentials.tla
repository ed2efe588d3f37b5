------------------------------ MODULE Credentials ------------------------------
(***************************************************************************)
(* What a value of a configuration file is, and what is left of it         *)
(* (internal/collection/heuristics.go, sanitizer.go).  Only the kind of a  *)
(* value is kept: "secret" for one that nothing but its place gives away,  *)
(* "shaped" for one that looks like a credential or that stands after such *)
(* a word as password and an equals sign, "" for blanks.                   *)
(***************************************************************************)
Removed == "REMOVED"

Value == {"", "secret", "shaped", Removed}

\* RedactCredentialsInText, which knows a credential by its shape.
Scrubbed(value) == IF value = "shaped" THEN Removed ELSE value
=============================================================================
