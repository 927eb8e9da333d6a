---------------------------- MODULE MCNativePath ----------------------------
(***************************************************************************)
(* NativePath for TLC, with two hexadecimal digits: %2F is a slash, %F2 a  *)
(* backslash, %22 the zero character, and %FF stands for any other.        *)
(***************************************************************************)
EXTENDS NativePath

TwoDigits == {"2", "F"}
OneLetter == {"x"}
Codes(a, b) == IF a = "2" THEN IF b = "F" THEN Slash ELSE Nul
               ELSE IF b = "2" THEN Backslash ELSE "x"
=============================================================================
