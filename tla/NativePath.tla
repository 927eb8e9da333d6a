----------------------------- MODULE NativePath -----------------------------
(***************************************************************************)
(* URIToNativePath, which turns fmuResourceLocation into the directory     *)
(* config.txt is read from and the FMU's process is started in (POSIX      *)
(* branch).  The result is written into a buffer that is allocated for the *)
(* undecoded text, by a loop that reads at i and writes at j and shortens  *)
(* path_len as it decodes; the end of the text is then found by path_len   *)
(* alone.                                                                  *)
(*                                                                         *)
(* A uri is the longest of the schemes the code looks for that fits, and   *)
(* the text after it.  Of the scheme only slashes are ever copied.         *)
(***************************************************************************)
EXTENDS Integers, Sequences, FiniteSets

CONSTANTS
    HexDigits,     \* the characters isxdigit holds for
    Plain,         \* the others, but for the ones named below
    Ascii(_, _),   \* the character two hexadecimal digits stand for
    MaxLen         \* bound on the text after the scheme

Slash == "/"
Backslash == "\\"
Percent == "%"
Colon == ":"
Special == {Slash, Backslash, Percent, Colon}
Chars == HexDigits \cup Plain \cup Special
Nul == "NUL"

ASSUME CharAssumption ==
    /\ HexDigits \cap (Plain \cup Special) = {} /\ Nul \notin Chars
    /\ \A a \in HexDigits, b \in HexDigits : Ascii(a, b) \in Chars \cup {Nul}
    /\ MaxLen \in Nat

VARIABLES
    scheme,      \* how the uri begins
    text,        \* what follows
    pathStart,   \* path_start
    i, j,        \* where the loop reads and writes
    pathLen,     \* path_len
    path,        \* the bytes of path that were written, at their offsets
    pc

vars == <<scheme, text, pathStart, i, j, pathLen, path, pc>>
uriVars == <<scheme, text, pathStart>>

Schemes == {"native", "file:/", "file:///"}
SchemeLen == CASE scheme = "native" -> 0 [] scheme = "file:/" -> 6 [] scheme = "file:///" -> 8
UriLen == SchemeLen + Len(text)
At(k) == IF k < SchemeLen THEN Slash ELSE IF k < UriLen THEN text[k - SchemeLen + 1] ELSE Nul

\* strlen(&uri[path_start]), and what malloc is asked for.
Rest == UriLen - pathStart
Allocated == Rest + 2

Texts == UNION {[1..n -> Chars] : n \in 0..MaxLen}
TextBegins(s) == Len(text) >= Len(s) /\ SubSeq(text, 1, Len(s)) = s

\* No longer scheme fits: "file:/" is tried after "file:///".
LongestScheme ==
    /\ scheme = "native" => ~TextBegins(<<"f", "i", "l", "e", Colon, Slash>>)
    /\ scheme = "file:/" => ~TextBegins(<<Slash, Slash>>)

\* The empty uri is turned away at once.
Init ==
    /\ scheme \in Schemes /\ text \in Texts /\ LongestScheme /\ UriLen > 0
    /\ pathStart = 0 /\ i = 0 /\ j = 0 /\ pathLen = 0 /\ path = <<>>
    /\ pc = "scheme"

-----------------------------------------------------------------------------
\* A colon behind the next character makes that one a drive letter.  After a
\* bare scheme it is looked for past the end of the uri.
HasDrive == IF Len(text) = 0 THEN BOOLEAN ELSE {At(SchemeLen + 1) = Colon}

\* path_start keeps the last slash of the scheme, but not before a drive.
SkipScheme ==
    /\ pc = "scheme"
    /\ \E drive \in HasDrive :
        pathStart' = IF scheme = "native" THEN 0
                     ELSE IF drive THEN SchemeLen ELSE SchemeLen - 1
    /\ pathLen' = UriLen - pathStart'
    /\ i' = pathStart'
    /\ pc' = IF pathLen' = 0 THEN "null" ELSE "copy"
    /\ UNCHANGED <<scheme, text, j, path>>

Write(k, c) ==
    path' = [m \in DOMAIN path \cup {k} |-> IF m = k THEN c ELSE path[m]]

\* i < uri_len - 2, an unsigned difference, and two digits: "%XX".
Encoded(k) ==
    /\ At(k) = Percent
    /\ k < UriLen - 2 \/ UriLen < 2
    /\ At(k + 1) \in HexDigits /\ At(k + 2) \in HexDigits

\* Fault: path_len stays that of the undecoded text.
DecodeKeepsLength ==
    /\ pc = "copy" /\ i < UriLen /\ Encoded(i)
    /\ Write(j, Ascii(At(i + 1), At(i + 2)))
    /\ i' = i + 3 /\ j' = j + 1
    /\ UNCHANGED <<uriVars, pathLen, pc>>

\* A decoded backslash stays one.
Decode ==
    /\ pc = "copy" /\ i < UriLen /\ Encoded(i)
    /\ Write(j, Ascii(At(i + 1), At(i + 2)))
    /\ i' = i + 3 /\ j' = j + 1 /\ pathLen' = pathLen - 2
    /\ UNCHANGED <<uriVars, pc>>

\* Fault: the characters are copied as they are.
CopyUntranslated ==
    /\ pc = "copy" /\ i < UriLen /\ ~Encoded(i)
    /\ Write(j, At(i))
    /\ i' = i + 1 /\ j' = j + 1
    /\ UNCHANGED <<uriVars, pathLen, pc>>

\* Every other character, and a percent sign that encodes nothing.
Copy ==
    /\ pc = "copy" /\ i < UriLen /\ ~Encoded(i)
    /\ Write(j, IF At(i) = Backslash THEN Slash ELSE At(i))
    /\ i' = i + 1 /\ j' = j + 1
    /\ UNCHANGED <<uriVars, pathLen, pc>>

\* A separator at the end if there is none, and the terminating zero.
Terminate ==
    /\ pc = "copy" /\ i >= UriLen
    /\ LET end == IF path[pathLen - 1] = Slash THEN Nul ELSE Slash
       IN  path' = [k \in DOMAIN path \cup {pathLen, pathLen + 1} |->
                        IF k = pathLen THEN end
                        ELSE IF k = pathLen + 1 THEN Nul ELSE path[k]]
    /\ pc' = "done"
    /\ UNCHANGED <<uriVars, i, j, pathLen>>

Next == SkipScheme \/ Decode \/ Copy \/ Terminate

Spec == Init /\ [][Next]_vars

-----------------------------------------------------------------------------
TypeOK ==
    /\ scheme \in Schemes /\ text \in Seq(Chars) /\ UriLen > 0
    /\ pathStart \in 0..SchemeLen
    /\ i \in Nat /\ j \in Nat /\ pathLen \in Nat
    /\ pc \in {"scheme", "null", "copy", "done"}

(***************************************************************************)
(* Nothing is written outside of what malloc returned, and the bytes up to *)
(* the terminating zero have all been written.                             *)
(***************************************************************************)
WritesInBuffer ==
    /\ DOMAIN path \subseteq 0..(Allocated - 1)
    /\ pc = "done" => DOMAIN path = 0..(pathLen + 1)

\* What ties path_len to the positions of the loop.
PositionsAgree ==
    /\ pc = "scheme" => DOMAIN path = {} /\ i = 0 /\ j = 0
    /\ pc = "null" => DOMAIN path = {}
    /\ pc \in {"copy", "done"} =>
        /\ pathStart <= i /\ i <= UriLen
        /\ pathStart + j <= i
        /\ pathLen + i = UriLen + j
        /\ pathLen > 0
    /\ pc = "copy" => DOMAIN path = 0..(j - 1)
    /\ pc = "done" => pathLen = j

-----------------------------------------------------------------------------
(* The reference: which positions of the uri begin a character of the path.*)

IsEncoded(k) ==
    k + 2 < UriLen /\ At(k) = Percent /\ {At(k + 1), At(k + 2)} \subseteq HexDigits

\* A position is passed over when one of the two before it begins a "%XX".  A
\* percent sign is no digit, so one "%XX" never begins inside another.
Begins ==
    {k \in pathStart..(UriLen - 1) :
        \A d \in {1, 2} : k - d >= pathStart => ~IsEncoded(k - d)}

CharOf(k) ==
    CASE IsEncoded(k)       -> Ascii(At(k + 1), At(k + 2))
      [] At(k) = Backslash  -> Slash
      [] OTHER              -> At(k)

\* Where it ends up in the path.
OffsetOf(k) == Cardinality({m \in Begins : m < k})

\* The path is a C string: it ends at the first zero.
IsLength(n) == path[n] = Nul /\ \A m \in 0..(n - 1) : path[m] # Nul

\* The uri's "%00".
Zeros == {k \in Begins : CharOf(k) = Nul}

(***************************************************************************)
(* The path is the uri's, with every "%XX" decoded and every other         *)
(* backslash turned into a slash, and with a slash at the end: its own     *)
(* last character or one more.  "%00" is decoded like any other: the       *)
(* string then ends at the first of them, with or without a slash.         *)
(***************************************************************************)
PathIsDecoded ==
    pc = "done" =>
        /\ \A k \in Begins : path[OffsetOf(k)] = CharOf(k)
        /\ Zeros = {} =>
            \E n \in {Cardinality(Begins), Cardinality(Begins) + 1} :
                IsLength(n) /\ path[n - 1] = Slash
        /\ \A k \in Zeros :
            (\A m \in Zeros : m >= k) => IsLength(OffsetOf(k))

-----------------------------------------------------------------------------
(* The inductive invariant behind WritesInBuffer and PathIsDecoded.        *)

\* The loop is at the beginning of a character, and the path holds those of
\* the characters before it.
DecodedSoFar ==
    pc = "copy" =>
        /\ i \in Begins \cup {UriLen}
        /\ j = OffsetOf(i)
        /\ \A k \in Begins : k < i => path[OffsetOf(k)] = CharOf(k)
        /\ \A m \in 0..(j - 1) : \E k \in Begins : k < i /\ OffsetOf(k) = m

SizeInv == TypeOK /\ WritesInBuffer /\ PositionsAgree
IInv == SizeInv /\ DecodedSoFar /\ PathIsDecoded
=============================================================================
