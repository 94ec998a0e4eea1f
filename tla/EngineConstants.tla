--------------------------- MODULE EngineConstants ---------------------------
(***************************************************************************)
(* What the modules of the security engine share (engine_rust/src): its    *)
(* users, and a file with the file of its MAC as vault.rs and auth.rs keep *)
(* them: check_file_mac, and the two renames that end write_file_with_mac. *)
(* A MAC is modelled by the content it was computed over, so that it       *)
(* verifies against that content only.  The temporary files are always     *)
(* rewritten before they are renamed and are left out.                     *)
(***************************************************************************)
CONSTANTS
  User,       \* names of accounts
  Absent      \* a file that does not exist

\* check_file_mac refuses a MAC without data and a MAC of other data; data without a
\* MAC is taken as it is, for one migration.
Readable(data, mac) == IF data = Absent THEN mac = Absent ELSE mac \in {Absent, data}

\* What a reader takes, `initially` when neither file exists.
Content(data, initially) == IF data = Absent THEN initially ELSE data
=============================================================================
