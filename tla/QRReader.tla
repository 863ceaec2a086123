------------------------------ MODULE QRReader ------------------------------
(***************************************************************************)
(* What a scanner makes of a symbol, written from the layout of a symbol   *)
(* and not from the encoder: it takes the places of the function patterns  *)
(* and the table of blocks as given and nothing else.                      *)
(***************************************************************************)
EXTENDS QRCode

-----------------------------------------------------------------------------
(* The order of the modules *)

\* How far along the zigzag a module lies.
Rank(size, p) ==
  LET fromRight == IF p[2] > 6 THEN size - 1 - p[2] ELSE size - 2 - p[2]
      strip == fromRight \div 2
      climbed == IF strip % 2 = 0 THEN size - 1 - p[1] ELSE p[1]
  IN  2 * (strip * size + climbed) + (fromRight % 2)

\* The data goes through every module that is free once, in that order, and
\* leaves over fewer modules than a codeword has.
WayIsWhole(version, ecl) ==
  LET way == Zigzag(version)
      spare == Len(way) - 8 * (Capacity(version, ecl)
                                 + PerBlock(version, ecl) * Len(Blocks(version, ecl)))
  IN  /\ {way[i] : i \in DOMAIN way} = Square(Size(version)) \ Reserved(version)
      /\ \A i \in 1..Len(way) - 1 : Rank(Size(version), way[i]) < Rank(Size(version), way[i + 1])
      /\ spare \in 0..7

-----------------------------------------------------------------------------
(* Format and version *)

\* The places of the two copies, from the highest bit to the lowest.
FirstCopy ==
  [i \in 1..6 |-> <<8, i - 1>>] \o << <<8, 7>>, <<8, 8>>, <<7, 8>> >>
    \o [i \in 1..6 |-> <<6 - i, 8>>]
SecondCopy(size) == [i \in 1..7 |-> <<size - i, 8>>] \o [i \in 1..8 |-> <<8, size - 9 + i>>]

WordAt(dark, places) == {Len(places) - i : i \in {j \in DOMAIN places : places[j] \in dark}}

\* The word is a multiple of the code's generator.
IsCodeWord(word, generator, width) ==
  \E q \in SUBSET (0..width - 1) :
    word = {n \in 0..width + Max(generator) - 1 :
              Cardinality({k \in q : n - k \in generator}) % 2 = 1}

FormatSays(dark, size, ecl, mask) ==
  \A places \in {FirstCopy, SecondCopy(size)} :
    LET word == SymDiff(WordAt(dark, places), {14, 12, 10, 4, 1})
    IN  /\ IsCodeWord(word, {10, 8, 5, 4, 2, 1, 0}, 5)
        /\ {k - 13 : k \in word \cap {13, 14}} = LevelBits[ecl]
        /\ {k - 10 : k \in word \cap 10..12} = Byte(mask)

\* From version 7 on, by the two blocks of three by six modules.
VersionSays(dark, size, version) ==
  \A turned \in BOOLEAN :
    LET Place(i) == <<size - 11 + (i % 3), i \div 3>>
        word == {i \in 0..17 : (IF turned THEN <<Place(i)[2], Place(i)[1]>> ELSE Place(i)) \in dark}
    IN  /\ IsCodeWord(word, {12, 11, 10, 9, 8, 5, 2, 0}, 6)
        /\ {k - 12 : k \in word \cap 12..17} = Byte(version)

-----------------------------------------------------------------------------
(* Codewords and text *)

\* The codewords as they follow one another in the symbol.
ReadCodewords(dark, version, mask) ==
  LET way == Zigzag(version)
      bits == [i \in 1..8 * (Len(way) \div 8) |-> (way[i] \in dark) # Masks(mask, way[i])]
  IN  SubSeq(Bytes(bits), 1, Len(way) \div 8)

\* Block b, its data and then its correction, out of the interleaved codewords.
ReadBlock(words, sizes, count, b) ==
  LET Before(j) == Cardinality({x \in (1..Len(sizes)) \X (1..j - 1) : x[2] <= sizes[x[1]]})
                     + Cardinality({c \in 1..b : sizes[c] >= j})
      data == Cardinality({x \in (1..Len(sizes)) \X (1..Max({sizes[c] : c \in DOMAIN sizes})) :
                             x[2] <= sizes[x[1]]})
  IN  Listed(sizes[b] + count, LAMBDA j :
               words[IF j <= sizes[b] THEN Before(j)
                     ELSE data + (j - sizes[b] - 1) * Len(sizes) + b])

\* A block without an error vanishes at the first powers of 2.
Vanishes(block, count) ==
  \A e \in 0..count - 1 :
    LET root == Exp(e)
    IN  Fold(LAMBDA sum, i : SymDiff(Mul(sum, root), block[i]), {}, Len(block)) = {}

\* The bytes of the text, or <<>> where the head of the stream is not byte mode.
ReadText(data, version) ==
  LET bits == BitsOf(data)
      wide == IF version < 10 THEN 8 ELSE 16
      Number(first, n) == Fold(LAMBDA v, i : 2 * v + (IF bits[first + i - 1] THEN 1 ELSE 0), 0, n)
      length == Number(5, wide)
  IN  IF Number(1, 4) = 4 /\ 4 + wide + 8 * length <= Len(bits)
        THEN Bytes(SubSeq(bits, 5 + wide, 4 + wide + 8 * length)) ELSE <<>>

\* The symbol can be read, and it reads text.
Reads(dark, text, ecl, version, mask) ==
  LET sizes == Blocks(version, ecl)
      count == PerBlock(version, ecl)
      words == ReadCodewords(dark, version, mask)
      blocks == Listed(Len(sizes), LAMBDA b : ReadBlock(words, sizes, count, b))
  IN  /\ WayIsWhole(version, ecl)
      /\ FormatSays(dark, Size(version), ecl, mask)
      /\ version >= 7 => VersionSays(dark, Size(version), version)
      /\ \A b \in DOMAIN blocks : Vanishes(blocks[b], count)
      /\ ReadText(Fold(LAMBDA all, b : all \o SubSeq(blocks[b], 1, sizes[b]), <<>>, Len(sizes)),
                  version) = text
=============================================================================
