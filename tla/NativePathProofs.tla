-------------------------- MODULE NativePathProofs --------------------------
(***************************************************************************)
(* Proofs about NativePath, for uris of any length over any characters.    *)
(* The loop's two positions and path_len move together: what decoding      *)
(* takes from path_len is what the reading position gets ahead of the      *)
(* writing one (PositionsAgree).  The reading position is always where a   *)
(* character begins, and the writing one its number (DecodedSoFar).        *)
(***************************************************************************)
EXTENDS NativePath, SequenceTheorems, FiniteSetTheorems, TLAPS

\* What a uri can begin with has a length.
LEMMA UriFacts ==
    ASSUME scheme \in Schemes, text \in Seq(Chars)
    PROVE  SchemeLen \in {0, 6, 8} /\ UriLen \in Nat /\ UriLen >= SchemeLen
BY DEF Schemes, SchemeLen, UriLen

\* The lengths only depend on the uri and on path_start.
LEMMA LengthsStay ==
    ASSUME scheme' = scheme, text' = text
    PROVE  /\ SchemeLen' = SchemeLen /\ UriLen' = UriLen
           /\ pathStart' = pathStart => Allocated' = Allocated
<1>1. SchemeLen' = SchemeLen
  BY DEF SchemeLen
<1>2. UriLen' = UriLen
  BY <1>1 DEF UriLen
<1> QED
  BY <1>1, <1>2 DEF Allocated, Rest

\* In the beginning nothing is written.
LEMMA InitSizeInv == Init => SizeInv
<1> SUFFICES ASSUME Init PROVE SizeInv
  OBVIOUS
<1>1. text \in Seq(Chars)
  <2>1. PICK n \in 0..MaxLen : text \in [1..n -> Chars]
    BY DEF Init, Texts
  <2>2. n \in Nat
    BY CharAssumption
  <2> QED
    BY <2>1, <2>2, SeqDef
<1>2. TypeOK
  BY <1>1, UriFacts DEF Init, TypeOK
<1>3. DOMAIN path = {}
  BY DEF Init
<1> QED
  BY <1>2, <1>3 DEF Init, SizeInv, WritesInBuffer, PositionsAgree

\* The choice of path_start leaves something to copy, or nothing to do.
LEMMA SkipSchemeStep == ASSUME SizeInv, SkipScheme PROVE SizeInv'
<1> USE DEF SizeInv, TypeOK
<1>1. /\ SchemeLen \in {0, 6, 8} /\ UriLen \in Nat /\ UriLen >= SchemeLen
      /\ SchemeLen' = SchemeLen /\ UriLen' = UriLen
  BY UriFacts, LengthsStay DEF SkipScheme
<1>2. PICK start \in 0..SchemeLen : pathStart' = start
  BY <1>1 DEF SkipScheme, SchemeLen, Schemes
<1>3. i' = start /\ j' = 0 /\ pathLen' = UriLen - start
  BY <1>1, <1>2 DEF SkipScheme, PositionsAgree
<1>4. DOMAIN path' = {} /\ pc' = IF pathLen' = 0 THEN "null" ELSE "copy"
  BY DEF SkipScheme, PositionsAgree
<1>5. TypeOK'
  BY <1>1, <1>2, <1>3, <1>4 DEF SkipScheme
<1>6. WritesInBuffer'
  BY <1>4 DEF WritesInBuffer
<1>7. PositionsAgree'
  <2>1. DOMAIN path' = 0..(j' - 1)
    BY <1>3, <1>4
  <2>2. pc' = "copy" => pathLen' > 0
    <3>1. UriLen - start \in Nat
      BY <1>1
    <3> QED
      BY <1>3, <1>4, <3>1
  <2>3. /\ start <= UriLen /\ start + 0 <= start
        /\ (UriLen - start) + start = UriLen + 0
    BY <1>1
  <2>4. pc' \in {"null", "copy"} /\ DOMAIN path' = {}
    BY <1>4
  <2> QED
    BY <1>1, <1>2, <1>3, <2>1, <2>2, <2>3, <2>4 DEF PositionsAgree
<1> QED
  BY <1>5, <1>6, <1>7

\* One turn of the loop reads d + 1 characters, writes one and takes d from
\* path_len.
LEMMA LoopStep ==
    ASSUME SizeInv, pc = "copy", i < UriLen, NEW d \in {0, 2}, i + d < UriLen,
           DOMAIN path' = DOMAIN path \cup {j},
           i' = i + d + 1, j' = j + 1, pathLen' = pathLen - d,
           UNCHANGED <<uriVars, pc>>
    PROVE  SizeInv'
<1> USE DEF SizeInv, TypeOK, uriVars
<1>1. /\ SchemeLen \in Nat /\ UriLen \in Nat
      /\ SchemeLen' = SchemeLen /\ UriLen' = UriLen /\ Allocated' = Allocated
  BY UriFacts, LengthsStay
<1>2. /\ pathStart <= i /\ pathStart + j <= i
      /\ pathLen + i = UriLen + j /\ DOMAIN path = 0..(j - 1)
  BY DEF PositionsAgree
<1>3. DOMAIN path' = 0..j
  BY <1>2
<1>4. TypeOK'
  BY <1>1, <1>2
<1>5. WritesInBuffer'
  BY <1>1, <1>2, <1>3 DEF WritesInBuffer, Allocated, Rest
<1>6. PositionsAgree'
  BY <1>1, <1>2, <1>3, <1>4 DEF PositionsAgree
<1> QED
  BY <1>4, <1>5, <1>6

\* Three characters of the uri, one of the path.
LEMMA DecodeStep == ASSUME SizeInv, Decode PROVE SizeInv'
<1>1. UriLen \in Nat /\ i \in Nat /\ Nul \notin HexDigits
  BY UriFacts, CharAssumption DEF SizeInv, TypeOK, Chars
<1>2. i + 2 < UriLen
  <2>1. At(i + 2) \in HexDigits
    BY DEF Decode, Encoded
  <2>2. UriLen <= i + 2 => At(i + 2) = Nul
    BY <1>1, UriFacts DEF At, SizeInv, TypeOK
  <2> QED
    BY <1>1, <2>1, <2>2
<1>3. DOMAIN path' = DOMAIN path \cup {j}
  BY DEF Decode, Write
<1> QED
  BY <1>1, <1>2, <1>3, LoopStep DEF Decode, SizeInv, TypeOK

\* One character of the uri, one of the path.
LEMMA CopyStep == ASSUME SizeInv, Copy PROVE SizeInv'
<1>1. UriLen \in Nat /\ i \in Nat /\ pathLen \in Nat
  BY UriFacts DEF SizeInv, TypeOK
<1>2. DOMAIN path' = DOMAIN path \cup {j}
  BY DEF Copy, Write
<1>3. i' = i + 0 + 1 /\ pathLen' = pathLen - 0 /\ i + 0 < UriLen
  BY <1>1 DEF Copy
<1> QED
  BY <1>2, <1>3, LoopStep DEF Copy

\* The separator and the zero fit behind the last character.
LEMMA TerminateStep == ASSUME SizeInv, Terminate PROVE SizeInv'
<1> USE DEF SizeInv, TypeOK, uriVars
<1>1. /\ SchemeLen \in Nat /\ UriLen \in Nat
      /\ SchemeLen' = SchemeLen /\ UriLen' = UriLen /\ Allocated' = Allocated
  BY UriFacts, LengthsStay DEF Terminate
<1>2. /\ i = UriLen /\ pathLen = j /\ j <= UriLen - pathStart /\ pathLen > 0
      /\ DOMAIN path = 0..(j - 1)
  BY <1>1 DEF Terminate, PositionsAgree
<1>3. DOMAIN path' = DOMAIN path \cup {pathLen, pathLen + 1}
  BY DEF Terminate
<1>4. DOMAIN path' = 0..(pathLen + 1)
  BY <1>2, <1>3
<1>5. TypeOK'
  BY <1>1 DEF Terminate
<1>6. WritesInBuffer'
  BY <1>1, <1>2, <1>4 DEF Terminate, WritesInBuffer, Allocated, Rest
<1>7. PositionsAgree'
  BY <1>1, <1>2 DEF Terminate, PositionsAgree
<1> QED
  BY <1>5, <1>6, <1>7

-----------------------------------------------------------------------------
(* What the path holds.  The positions that begin a character are counted  *)
(* by OffsetOf; a turn of the loop goes from one of them to the next.      *)

\* The reference depends on the uri and path_start only.
LEMMA ReferenceStays ==
    ASSUME UNCHANGED uriVars
    PROVE  /\ UriLen' = UriLen /\ Begins' = Begins
           /\ \A k : CharOf(k)' = CharOf(k)
<1>1. SchemeLen' = SchemeLen /\ UriLen' = UriLen
  BY LengthsStay DEF uriVars
<1>2. \A k : At(k)' = At(k)
  BY <1>1 DEF At, uriVars
<1>3. \A k : IsEncoded(k)' = IsEncoded(k)
  BY <1>1, <1>2 DEF IsEncoded
<1>4. \A k : CharOf(k)' = CharOf(k)
  BY <1>2, <1>3 DEF CharOf
<1>5. Begins' = Begins
  BY <1>1, <1>3 DEF Begins, uriVars
<1> QED
  BY <1>1, <1>4, <1>5

\* Positions are integers, and there are finitely many of them.
LEMMA BeginsFinite ==
    ASSUME TypeOK
    PROVE  /\ Begins \subseteq pathStart..(UriLen - 1) /\ Begins \subseteq Nat
           /\ IsFiniteSet(Begins)
           /\ pathStart \in Nat /\ UriLen \in Nat
<1>1. pathStart \in Nat /\ UriLen \in Nat
  BY UriFacts DEF TypeOK
<1>2. Begins \subseteq pathStart..(UriLen - 1)
  BY DEF Begins
<1>3. IsFiniteSet(Begins)
  <2>1. IsFiniteSet(pathStart..(UriLen - 1))
    BY <1>1, FS_Interval
  <2> QED
    BY <1>2, <2>1, FS_Subset
<1> QED
  BY <1>1, <1>2, <1>3

\* The next character goes right behind this one.
LEMMA OffsetNext ==
    ASSUME TypeOK, NEW k \in Begins, NEW n \in Nat, k < n,
           \A m \in Begins : m < n => m <= k
    PROVE  OffsetOf(n) = OffsetOf(k) + 1 /\ OffsetOf(k) \in Nat
<1> DEFINE Before == {m \in Begins : m < k}
<1>1. IsFiniteSet(Before)
  BY BeginsFinite, FS_Subset
<1>2. k \notin Before /\ {m \in Begins : m < n} = Before \cup {k}
  BY BeginsFinite
<1>3. Cardinality(Before \cup {k}) = Cardinality(Before) + 1
  BY <1>1, <1>2, FS_AddElement
<1>4. Cardinality(Before) \in Nat
  BY <1>1, FS_CardinalityType
<1> QED
  BY <1>2, <1>3, <1>4 DEF OffsetOf

\* No two characters go to the same place.
LEMMA OffsetSmaller ==
    ASSUME TypeOK, NEW k \in Begins, NEW n \in Nat, k < n
    PROVE  OffsetOf(k) \in Nat /\ OffsetOf(n) \in Nat /\ OffsetOf(k) < OffsetOf(n)
<1>1. OffsetOf(k + 1) = OffsetOf(k) + 1 /\ OffsetOf(k) \in Nat
  <2>1. k + 1 \in Nat /\ k < k + 1
    BY BeginsFinite
  <2>2. \A m \in Begins : m < k + 1 => m <= k
    BY BeginsFinite
  <2> QED
    BY <2>1, <2>2, OffsetNext
<1>2. IsFiniteSet({m \in Begins : m < n})
  BY BeginsFinite, FS_Subset
<1>3. {m \in Begins : m < k + 1} \subseteq {m \in Begins : m < n}
  BY BeginsFinite
<1>4. OffsetOf(k + 1) <= OffsetOf(n)
  BY <1>2, <1>3, FS_Subset DEF OffsetOf
<1>5. OffsetOf(n) \in Nat
  BY <1>2, FS_CardinalityType DEF OffsetOf
<1> QED
  BY <1>1, <1>4, <1>5

\* All of them have a place before the end.
LEMMA OffsetOfEnd == ASSUME TypeOK PROVE OffsetOf(UriLen) = Cardinality(Begins)
<1>1. {m \in Begins : m < UriLen} = Begins
  BY BeginsFinite
<1> QED
  BY <1>1 DEF OffsetOf

\* Within the uri the loop's test is the reference's.
LEMMA EncodedAgrees ==
    ASSUME TypeOK, NEW k \in Nat, k < UriLen
    PROVE  Encoded(k) <=> IsEncoded(k)
<1>1. SchemeLen \in Nat /\ UriLen \in Nat /\ UriLen >= SchemeLen
  BY UriFacts DEF TypeOK
<1>2. UriLen <= k + 2 => At(k + 2) = Nul
  BY <1>1 DEF At
<1>3. Nul \notin HexDigits
  BY CharAssumption DEF Chars
<1> QED
  BY <1>1, <1>2, <1>3 DEF Encoded, IsEncoded

\* In the beginning there is nothing to decode.
LEMMA InitDecoded == Init => DecodedSoFar /\ PathIsDecoded
BY DEF Init, DecodedSoFar, PathIsDecoded

\* path_start begins the first character.
LEMMA SkipSchemeDecoded ==
    ASSUME SizeInv, SkipScheme, SizeInv'
    PROVE  DecodedSoFar' /\ PathIsDecoded'
<1>1. PathIsDecoded'
  BY DEF SkipScheme, PathIsDecoded
<1>2. SUFFICES ASSUME pc' = "copy" PROVE DecodedSoFar'
  BY <1>1 DEF DecodedSoFar
<1>3. /\ i' = pathStart' /\ j' = 0
      /\ pathStart' \in Nat /\ UriLen' \in Nat /\ pathStart' < UriLen'
  <2>1. j = 0 /\ i' = pathStart' /\ j' = j
    BY DEF SkipScheme, SizeInv, PositionsAgree
  <2>2. SchemeLen' \in Nat /\ UriLen' \in Nat
    BY UriFacts, LengthsStay DEF SkipScheme, SizeInv, TypeOK
  <2>3. pathLen' + i' = UriLen' + j' /\ pathLen' > 0 /\ pathLen' \in Nat
    BY <1>2 DEF SizeInv, PositionsAgree, TypeOK
  <2>4. pathStart' \in Nat
    BY <2>2 DEF SizeInv, TypeOK
  <2> QED
    BY <2>1, <2>2, <2>3, <2>4
<1>4. pathStart' \in Begins' /\ \A m \in Begins' : m \in Int /\ m >= pathStart'
  <2>1. Begins' \subseteq pathStart'..(UriLen' - 1)
    BY DEF Begins
  <2>2. \A start, len \in Nat : start < len =>
            start \in start..(len - 1) /\ \A d \in {1, 2} : ~(start - d >= start)
    OBVIOUS
  <2>3. /\ pathStart' \in pathStart'..(UriLen' - 1)
        /\ \A d \in {1, 2} : ~(pathStart' - d >= pathStart')
    BY <1>3, <2>2
  <2>4. pathStart' \in Begins'
    BY <2>3 DEF Begins
  <2>5. \A start, len \in Nat : \A m \in start..(len - 1) : m \in Int /\ m >= start
    OBVIOUS
  <2> QED
    BY <1>3, <2>1, <2>4, <2>5
<1>5. ~\E m \in Begins' : m < i'
  BY <1>3, <1>4
<1>6. OffsetOf(i)' = 0
  <2>1. {m \in Begins' : m < i'} = {}
    BY <1>5
  <2> QED
    BY <2>1, FS_EmptySet DEF OffsetOf
<1> QED
  BY <1>3, <1>4, <1>5, <1>6 DEF DecodedSoFar

\* A turn of the loop that writes the character its position begins, and goes
\* to the next one.
LEMMA LoopDecoded ==
    ASSUME IInv, pc = "copy", i < UriLen, UNCHANGED <<uriVars, pc>>,
           Write(j, CharOf(i)), j' = j + 1,
           NEW n \in Nat, i' = n, i < n, n \in Begins \cup {UriLen},
           \A m \in Begins : m < n => m <= i
    PROVE  DecodedSoFar' /\ PathIsDecoded'
<1>1. TypeOK /\ DecodedSoFar /\ i \in Nat /\ j \in Nat /\ DOMAIN path = 0..(j - 1)
  BY DEF IInv, SizeInv, TypeOK, PositionsAgree
<1>2. i \in Begins /\ j = OffsetOf(i)
  BY <1>1, BeginsFinite DEF DecodedSoFar
<1>3. UriLen' = UriLen /\ Begins' = Begins /\ \A k : CharOf(k)' = CharOf(k)
  BY ReferenceStays
<1>4. \A k : OffsetOf(k)' = OffsetOf(k)
  BY <1>3 DEF OffsetOf
<1>5. OffsetOf(n) = j + 1
  BY <1>1, <1>2, OffsetNext
<1>6. path'[j] = CharOf(i) /\ \A m \in 0..(j - 1) : path'[m] = path[m]
  BY <1>1 DEF Write
<1>7. ASSUME NEW k \in Begins, k < n PROVE path'[OffsetOf(k)] = CharOf(k)
  <2>1. CASE k = i
    BY <1>2, <1>6, <2>1
  <2>2. CASE k # i
    <3>1. k < i /\ k \in Nat
      BY <1>1, <1>7, <2>2, BeginsFinite
    <3>2. OffsetOf(k) \in 0..(j - 1)
      BY <1>1, <1>2, <3>1, OffsetSmaller
    <3> QED
      BY <1>1, <1>6, <3>1, <3>2 DEF DecodedSoFar
  <2> QED
    BY <2>1, <2>2
<1>8. ASSUME NEW m \in 0..(j' - 1)
      PROVE  \E k \in Begins : k < n /\ OffsetOf(k) = m
  <2>1. CASE m = j
    BY <1>2, <2>1
  <2>2. CASE m # j
    <3>1. m \in 0..(j - 1)
      BY <1>1, <2>2
    <3>2. PICK k \in Begins : k < i /\ OffsetOf(k) = m
      BY <1>1, <3>1 DEF DecodedSoFar
    <3>3. k < n
      BY <1>1, <3>2, BeginsFinite
    <3> QED
      BY <3>2, <3>3
  <2> QED
    BY <2>1, <2>2
<1>9. OffsetOf(i)' = OffsetOf(n)
  BY <1>3 DEF OffsetOf
<1>10. DecodedSoFar'
  BY <1>3, <1>4, <1>5, <1>7, <1>8, <1>9 DEF DecodedSoFar
<1>11. PathIsDecoded'
  BY DEF PathIsDecoded
<1> QED
  BY <1>10, <1>11

\* "%XX" is one character, and the next one begins behind it: a percent sign
\* is no digit.
LEMMA DecodeDecoded == ASSUME IInv, Decode PROVE DecodedSoFar' /\ PathIsDecoded'
<1>1. TypeOK /\ i \in Nat /\ UriLen \in Nat /\ pathStart \in Nat /\ pathStart <= i
  BY BeginsFinite DEF Decode, IInv, SizeInv, TypeOK, PositionsAgree
<1>2. IsEncoded(i)
  BY <1>1, EncodedAgrees DEF Decode
<1>3. i + 2 < UriLen /\ {At(i + 1), At(i + 2)} \subseteq HexDigits
  BY <1>2 DEF IsEncoded
<1>4. CharOf(i) = Ascii(At(i + 1), At(i + 2))
  <2>1. At(i) = Percent
    BY <1>2 DEF IsEncoded
  <2> QED
    BY <1>2, <2>1 DEF CharOf, Percent, Backslash
<1>5. Percent \notin HexDigits
  BY CharAssumption DEF Special
<1>6. ~IsEncoded(i + 1) /\ ~IsEncoded(i + 2)
  BY <1>3, <1>5 DEF IsEncoded
<1>7. i + 1 \notin Begins /\ i + 2 \notin Begins
  <2>1. (i + 1) - 1 = i /\ (i + 2) - 2 = i
    BY <1>1
  <2> QED
    BY <1>1, <1>2, <2>1 DEF Begins
<1>8. i + 3 \in Begins \cup {UriLen}
  <2>1. (i + 3) - 1 = i + 2 /\ (i + 3) - 2 = i + 1
    BY <1>1
  <2>2. i + 3 \in pathStart..(UriLen - 1) \cup {UriLen}
    BY <1>1, <1>3
  <2> QED
    BY <1>6, <2>1, <2>2 DEF Begins
<1>9. \A m \in Begins : m < i + 3 => m <= i
  BY <1>1, <1>7, BeginsFinite
<1>10. Write(j, CharOf(i))
  BY <1>4 DEF Decode
<1>11. i + 3 \in Nat /\ i < i + 3
  BY <1>1
<1> QED
  BY <1>8, <1>9, <1>10, <1>11, LoopDecoded DEF Decode

\* Anything else is a character by itself.
LEMMA CopyDecoded == ASSUME IInv, Copy PROVE DecodedSoFar' /\ PathIsDecoded'
<1>1. TypeOK /\ i \in Nat /\ UriLen \in Nat /\ pathStart \in Nat /\ pathStart <= i
  BY BeginsFinite DEF Copy, IInv, SizeInv, TypeOK, PositionsAgree
<1>2. ~IsEncoded(i)
  BY <1>1, EncodedAgrees DEF Copy
<1>3. CharOf(i) = IF At(i) = Backslash THEN Slash ELSE At(i)
  BY <1>2 DEF CharOf
<1>4. i - 1 >= pathStart => ~IsEncoded(i - 1)
  <2>1. i \in Begins
    BY <1>1 DEF Copy, IInv, DecodedSoFar
  <2> QED
    BY <2>1 DEF Begins
<1>5. i + 1 \in Begins \cup {UriLen}
  <2>1. (i + 1) - 1 = i /\ (i + 1) - 2 = i - 1
    BY <1>1
  <2>2. i + 1 \in pathStart..(UriLen - 1) \cup {UriLen}
    BY <1>1 DEF Copy
  <2> QED
    BY <1>2, <1>4, <2>1, <2>2 DEF Begins
<1>6. \A m \in Begins : m < i + 1 => m <= i
  BY <1>1, BeginsFinite
<1>7. Write(j, CharOf(i))
  BY <1>3 DEF Copy
<1>8. i + 1 \in Nat /\ i < i + 1
  BY <1>1
<1> QED
  BY <1>5, <1>6, <1>7, <1>8, LoopDecoded DEF Copy

\* At the end all characters are there, and path_len is their number.
LEMMA TerminateDecoded ==
    ASSUME IInv, Terminate PROVE DecodedSoFar' /\ PathIsDecoded'
<1> DEFINE end == IF path[pathLen - 1] = Slash THEN Nul ELSE Slash
<1>1. TypeOK /\ DecodedSoFar /\ pc = "copy"
  BY DEF Terminate, IInv, SizeInv
<1>2. /\ i = UriLen /\ UriLen \in Nat /\ j \in Nat /\ pathLen = j /\ j > 0
      /\ DOMAIN path = 0..(j - 1)
  BY <1>1, BeginsFinite DEF Terminate, IInv, SizeInv, TypeOK, PositionsAgree
<1>3. j = Cardinality(Begins)
  BY <1>1, <1>2, OffsetOfEnd DEF DecodedSoFar
<1>4. Begins' = Begins /\ \A k : CharOf(k)' = CharOf(k)
  BY ReferenceStays DEF Terminate
<1>5. \A k : OffsetOf(k)' = OffsetOf(k)
  BY <1>4 DEF OffsetOf
<1>6. /\ path'[j] = end /\ path'[j + 1] = Nul
      /\ \A m \in 0..(j - 1) : path'[m] = path[m]
  BY <1>2 DEF Terminate
<1>7. ASSUME NEW k \in Begins PROVE path'[OffsetOf(k)] = CharOf(k)
  <2>1. k \in Nat /\ k < UriLen
    BY <1>1, <1>2, BeginsFinite
  <2>2. OffsetOf(k) \in 0..(j - 1)
    BY <1>1, <1>2, <1>3, <2>1, OffsetSmaller, OffsetOfEnd
  <2> QED
    BY <1>1, <1>2, <1>6, <2>1, <2>2 DEF DecodedSoFar
<1>8. ASSUME Zeros = {}
      PROVE  \E n \in {Cardinality(Begins), Cardinality(Begins) + 1} :
                /\ path'[n] = Nul /\ \A m \in 0..(n - 1) : path'[m] # Nul
                /\ path'[n - 1] = Slash
  <2>1. ASSUME NEW m \in 0..(j - 1) PROVE path'[m] # Nul
    <3>1. PICK k \in Begins : OffsetOf(k) = m
      BY <1>1 DEF DecodedSoFar
    <3> QED
      BY <1>7, <1>8, <3>1 DEF Zeros
  <2>2. CASE path[j - 1] = Slash
    <3>1. path'[j] = Nul /\ path'[j - 1] = Slash
      BY <1>2, <1>6, <2>2
    <3> QED
      BY <1>3, <2>1, <3>1
  <2>3. CASE path[j - 1] # Slash
    <3>1. path'[j] = Slash /\ path'[j + 1] = Nul
      BY <1>2, <1>6, <2>3
    <3>2. Slash # Nul
      BY CharAssumption DEF Chars, Special
    <3>3. \A m \in 0..((j + 1) - 1) : path'[m] # Nul
      BY <1>2, <2>1, <3>1, <3>2
    <3>4. (j + 1) - 1 = j
      BY <1>2
    <3> QED
      BY <1>3, <3>1, <3>3, <3>4
  <2> QED
    BY <2>2, <2>3
<1>9. ASSUME NEW k \in Zeros, \A m \in Zeros : m >= k
      PROVE  path'[OffsetOf(k)] = Nul /\ \A m \in 0..(OffsetOf(k) - 1) : path'[m] # Nul
  <2>1. k \in Begins /\ k \in Nat /\ k < UriLen /\ path'[OffsetOf(k)] = Nul
    BY <1>1, <1>2, <1>7, BeginsFinite DEF Zeros
  <2>2. OffsetOf(k) \in Nat /\ OffsetOf(k) < j
    BY <1>1, <1>2, <1>3, <2>1, OffsetSmaller, OffsetOfEnd
  <2>3. ASSUME NEW m \in 0..(OffsetOf(k) - 1) PROVE path'[m] # Nul
    <3>1. m \in 0..(j - 1)
      BY <1>2, <2>2
    <3>2. PICK l \in Begins : OffsetOf(l) = m
      BY <1>1, <3>1 DEF DecodedSoFar
    <3>3. l \in Nat
      BY <1>1, BeginsFinite
    <3>4. ~(k <= l)
      BY <1>1, <2>1, <2>2, <3>2, <3>3, OffsetSmaller
    <3>5. l \notin Zeros
      BY <1>9, <2>1, <3>3, <3>4
    <3> QED
      BY <1>7, <3>2, <3>5 DEF Zeros
  <2> QED
    BY <2>1, <2>3
<1>10. PathIsDecoded'
  <2>1. Zeros' = Zeros
    BY <1>4 DEF Zeros
  <2> QED
    BY <1>4, <1>5, <1>7, <1>8, <1>9, <2>1 DEF PathIsDecoded, IsLength
<1>11. DecodedSoFar'
  BY DEF Terminate, DecodedSoFar
<1> QED
  BY <1>10, <1>11

-----------------------------------------------------------------------------
\* The inductive invariant holds in every reachable state.
THEOREM InvariantCorrect == Spec => []IInv
<1>1. Init => IInv
  BY InitSizeInv, InitDecoded DEF IInv
<1>2. IInv /\ [Next]_vars => IInv'
  <2> SUFFICES ASSUME IInv, [Next]_vars PROVE IInv'
    OBVIOUS
  <2> USE DEF IInv
  <2>1. CASE UNCHANGED vars
    <3>1. UNCHANGED uriVars
      BY <2>1 DEF vars, uriVars
    <3>2. UriLen' = UriLen /\ Begins' = Begins /\ \A k : CharOf(k)' = CharOf(k)
      BY <3>1, ReferenceStays
    <3>3. \A k : OffsetOf(k)' = OffsetOf(k)
      BY <3>2 DEF OffsetOf
    <3>4. SizeInv'
      BY <2>1, LengthsStay DEF vars, SizeInv, TypeOK, WritesInBuffer, PositionsAgree
    <3>5. DecodedSoFar'
      BY <2>1, <3>2, <3>3 DEF vars, DecodedSoFar, OffsetOf
    <3>6. PathIsDecoded'
      BY <2>1, <3>2, <3>3 DEF vars, PathIsDecoded, IsLength, Zeros
    <3> QED
      BY <3>4, <3>5, <3>6
  <2>2. CASE SkipScheme
    BY <2>2, SkipSchemeStep, SkipSchemeDecoded
  <2>3. CASE Decode
    BY <2>3, DecodeStep, DecodeDecoded
  <2>4. CASE Copy
    BY <2>4, CopyStep, CopyDecoded
  <2>5. CASE Terminate
    BY <2>5, TerminateStep, TerminateDecoded
  <2> QED
    BY <2>1, <2>2, <2>3, <2>4, <2>5 DEF Next
<1> QED
  BY <1>1, <1>2, PTL DEF Spec

\* WritesInBuffer: whatever the uri, URIToNativePath writes only inside of
\* what it has allocated, and leaves no gap before the terminating zero.
THEOREM BufferSuffices == Spec => []WritesInBuffer
<1>1. IInv => WritesInBuffer
  BY DEF IInv, SizeInv
<1> QED
  BY <1>1, InvariantCorrect, PTL

\* PathIsDecoded: whatever the uri, what URIToNativePath returns is its path,
\* every "%XX" decoded once, every other backslash a slash, and a slash at its
\* end, or the part of that before the first "%00".
THEOREM PathCorrect == Spec => []PathIsDecoded
<1>1. IInv => PathIsDecoded
  BY DEF IInv
<1> QED
  BY <1>1, InvariantCorrect, PTL
=============================================================================
