---------------------------- MODULE ServerConfig ----------------------------
(***************************************************************************)
(* The extension allow-list of the server's configuration                  *)
(* (sqld/src/config.rs, DbConfig::validate_extensions).  With             *)
(* --extensions-path, <dir>/trusted.lst is read; every line that is not   *)
(* the empty string is split on ASCII whitespace into `<sha256> <file>`;  *)
(* the file's digest must equal the sha; the first line that fails any   *)
(* check ends the whole call with an error.                               *)
(*                                                                         *)
(* A line is the sequence of its whitespace-separated tokens, and whether *)
(* it was the empty string (filtered out before splitting); a whitespace- *)
(* only line is a non-empty line with no tokens.  Tokens are digests and  *)
(* file names, model values.  The disk maps each file to its sha256, or   *)
(* to Unreadable when try_digest fails.                                   *)
(***************************************************************************)
EXTENDS Naturals, Sequences, SequencesExt

CONSTANTS
  Digests,      \* sha256 values
  Files,        \* extension file names
  Unreadable,   \* model value: try_digest fails, or trusted.lst cannot be read
  MaxLines      \* longest trusted.lst enumerated

Line(empty, toks) == [empty |-> empty, toks |-> toks]

(* The lines a trusted.lst may hold: empty, whitespace only, a sha alone, *)
(* a sha and a file, or a file name that contains whitespace.            *)
Lines ==
  {Line(TRUE, <<>>), Line(FALSE, <<>>)}
  \cup {Line(FALSE, <<d>>) : d \in Digests}
  \cup {Line(FALSE, <<d, f>>) : d \in Digests, f \in Files}
  \cup {Line(FALSE, <<d, f, g>>) : d \in Digests, f \in Files, g \in Files}

TrustedFiles == {Unreadable} \cup BoundedSeq(Lines, MaxLines)

Disks == [Files -> Digests \cup {Unreadable}]

Ok(exts) == [ok |-> TRUE, exts |-> exts]
Err == [ok |-> FALSE, exts |-> <<>>]

-----------------------------------------------------------------------------
(* Mutant: a line whose digest does not match is skipped instead of     *)
(* failing the call.                                                     *)
RECURSIVE CheckLinesSkipMismatch(_, _, _)
CheckLinesSkipMismatch(lines, disk, valid) ==
  IF lines = <<>> THEN Ok(valid)
  ELSE LET l == Head(lines) IN
    CASE l.empty -> CheckLinesSkipMismatch(Tail(lines), disk, valid)
      [] Len(l.toks) # 2 -> Err
      [] disk[l.toks[2]] = Unreadable -> Err
      [] disk[l.toks[2]] # l.toks[1] -> CheckLinesSkipMismatch(Tail(lines), disk, valid)
      [] OTHER -> CheckLinesSkipMismatch(Tail(lines), disk, Append(valid, l.toks[2]))

(* The for loop over the non-empty lines: a missing sha or file name, a  *)
(* third token, an unreadable file or a digest that differs returns Err *)
(* through `?` or ensure!; otherwise the file is pushed.                *)
RECURSIVE CheckLines(_, _, _)
CheckLines(lines, disk, valid) ==
  IF lines = <<>> THEN Ok(valid)
  ELSE LET l == Head(lines) IN
    CASE l.empty -> CheckLines(Tail(lines), disk, valid)
      [] Len(l.toks) # 2 -> Err
      [] disk[l.toks[2]] = Unreadable -> Err
      [] disk[l.toks[2]] # l.toks[1] -> Err
      [] OTHER -> CheckLines(Tail(lines), disk, Append(valid, l.toks[2]))

(* validate_extensions: no --extensions-path allows nothing; otherwise  *)
(* trusted.lst must be readable and every line of it valid.              *)
ValidateExtensions(hasPath, trusted, disk) ==
  CASE ~hasPath -> Ok(<<>>)
    [] trusted = Unreadable -> Err
    [] OTHER -> CheckLines(trusted, disk, <<>>)

-----------------------------------------------------------------------------
(* What the --extensions-path help promises: trusted.lst holds "the     *)
(* sha256 and name of each extension, one per line"; the server loads   *)
(* exactly the listed extensions, in order, when every listed file has  *)
(* its listed digest, and refuses to start otherwise.                    *)
Listed(trusted) == SelectSeq(trusted, LAMBDA l : ~l.empty)

WellListed(l, disk) ==
  /\ Len(l.toks) = 2
  /\ disk[l.toks[2]] = l.toks[1]

TrustedExtensions(hasPath, trusted, disk) ==
  IF ~hasPath THEN Ok(<<>>)
  ELSE IF trusted = Unreadable THEN Err
  ELSE LET L == Listed(trusted) IN
    IF \A i \in 1..Len(L) : WellListed(L[i], disk)
      THEN Ok([i \in 1..Len(L) |-> L[i].toks[2]])
      ELSE Err

(* validate_extensions accepts a trusted.lst exactly when every listed  *)
(* extension is well formed and has its listed digest, and then returns *)
(* all of them in file order; one bad line anywhere rejects the list.   *)
(* ServerMain checks it as ExtensionListChecked.                         *)
ExtensionsMatchList ==
  \A hasPath \in BOOLEAN, trusted \in TrustedFiles, disk \in Disks :
    ValidateExtensions(hasPath, trusted, disk)
      = TrustedExtensions(hasPath, trusted, disk)
=============================================================================
