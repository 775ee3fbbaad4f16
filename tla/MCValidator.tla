---------------------------- MODULE MCValidator ----------------------------
(***************************************************************************)
(* Validator over every client filename of up to MaxInputLen characters.   *)
(* "x" stands for any letter: ".x" plays an allowed extension such as      *)
(* .jpg, ".xx" a dangerous one such as .sh, and "x" a reserved base name   *)
(* such as CON.  MaxFilenameLen is 4 instead of 255, so names of length 5  *)
(* and 6 reach the length limit.                                           *)
(***************************************************************************)
EXTENDS Validator

MCChars == {"x", ".", " ", "QUOTE", "DEL", "BSL"}
MCAllowed == [e \in {<<".", "x">>} |-> {"image/x"}]
MCDangerous == {<<".", "x", "x">>}
MCReserved == {<<"x">>}
MCMimes == {"image/x", "application/octet-stream"}
MCUnnamedFile == <<"unnamed_file">>
=============================================================================
