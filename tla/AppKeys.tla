------------------------------ MODULE AppKeys -------------------------------
(***************************************************************************)
(* The identity of an app across platforms: core/syncproto.py on the       *)
(* desktop, and core/Sync.kt on the phone, which has to agree.             *)
(*                                                                         *)
(* A name is a sequence of tokens: lower-case words and the separators     *)
(* between them.  Two words never touch.                                   *)
(***************************************************************************)
EXTENDS Integers, Sequences, FiniteSets, SequencesExt

Dot == "."
Space == " "
Separators == {Dot, Space, "-"}

ExecutableSuffixes == {"exe", "app", "apk"}
PackagePrefixes == {"com", "org", "net", "io", "app", "co", "me", "tv", "dev"}
PlatformSegments == {"android", "ios", "mobile", "desktop", "windows"}
GenericSegments == {"app", "apps", "client", "music", "messenger"}
NoiseWords ==
  {"for", "android", "ios", "mobile", "desktop", "app", "beta", "free", "lite", "pro",
   "plus", "premium", "the", "inc", "llc", "ltd", "windows", "pc", "x64", "x86", "32bit",
   "64bit"}

\* strip()
Stripped(name) ==
  LET inner == {i \in DOMAIN name : name[i] # Space}
  IN  IF inner = {} THEN <<>> ELSE SubSeq(name, Min(inner), Max(inner))

\* The k-th of a set of positions, and the tokens at them.
Nth(S, k) == CHOOSE i \in S : Cardinality(S \cap 1..i) = k
TokensAt(name, S) == [k \in 1..Cardinality(S) |-> name[Nth(S, k)]]

\* split("."), without the empty parts; a segment starts where none is open.
Segments(name) ==
  LET Open(i) == i \in DOMAIN name /\ name[i] # Dot
      starts == {i \in DOMAIN name : Open(i) /\ ~Open(i - 1)}
      End(i) == Min({j \in i..Len(name) : ~Open(j + 1)})
  IN  [k \in 1..Cardinality(starts) |-> SubSeq(name, Nth(starts, k), End(Nth(starts, k)))]

\* A segment that is one word of the set.
IsOneOf(segment, words) == Len(segment) = 1 /\ segment[1] \in words

\* com. and its like, where something follows.
WithoutPrefix(segments) ==
  IF Len(segments) > 1 /\ IsOneOf(segments[1], PackagePrefixes) THEN Tail(segments) ELSE segments

Meaningful(segments) ==
  {i \in DOMAIN segments : ~IsOneOf(segments[i], PlatformSegments \cup GenericSegments)}

FirstMeaningful(segments) ==
  segments[IF Meaningful(segments) = {} THEN 1 ELSE Min(Meaningful(segments))]

\* Fault: the product is what comes last.
ProductSegment_Last(name) ==
  LET segments == WithoutPrefix(Segments(name))
  IN  IF segments = <<>> THEN name
      ELSE segments[IF Meaningful(segments) = {} THEN 1 ELSE Max(Meaningful(segments))]

\* _product_segment(): the first platform segment that has something after it.
ProductSegment(name) ==
  LET segments == WithoutPrefix(Segments(name))
      marks == {i \in 1..Len(segments) - 1 : IsOneOf(segments[i], PlatformSegments)}
  IN  IF segments = <<>> THEN name
      ELSE FirstMeaningful(IF marks = {} THEN segments
                           ELSE SubSeq(segments, Min(marks) + 1, Len(segments)))

\* productSegment() of Sync.kt: the first platform segment, where something is after it.
PhoneProductSegment(name) ==
  LET segments == WithoutPrefix(Segments(name))
      marks == {i \in DOMAIN segments : IsOneOf(segments[i], PlatformSegments)}
  IN  IF segments = <<>> THEN name
      ELSE FirstMeaningful(IF marks = {} \/ Min(marks) = Len(segments) THEN segments
                           ELSE SubSeq(segments, Min(marks) + 1, Len(segments)))

HasSuffix(name) ==
  Len(name) > 1 /\ name[Len(name) - 1] = Dot /\ name[Len(name)] \in ExecutableSuffixes

IsPackage(name) == Contains(name, Dot) /\ ~Contains(name, Space) /\ ~HasSuffix(name)

\* The words of a name that tell it from another, joined; split at the separators, each
\* word is a part.
Words(name) ==
  LET bare == IF HasSuffix(name) THEN SubSeq(name, 1, Len(name) - 2) ELSE name
      words == {i \in DOMAIN bare : bare[i] \notin Separators}
      kept == {i \in words : bare[i] \notin NoiseWords}
  IN  TokensAt(bare, IF kept # {} THEN kept ELSE words)

\* canonical_app_key(), and canonicalAppKey() of Sync.kt
CanonicalKey(name) ==
  LET text == Stripped(name) IN Words(IF IsPackage(text) THEN ProductSegment(text) ELSE text)
PhoneKey(name) ==
  LET text == Stripped(name)
  IN  Words(IF IsPackage(text) THEN PhoneProductSegment(text) ELSE text)

-----------------------------------------------------------------------------
(* What both promise *)

\* The shapes one product comes in, by the names the description gives.
Shapes(product, vendor) ==
  {<<product>>, <<product, Dot, "exe">>, <<product, Space, "for", Space, "android">>,
   <<"com", Dot, product>>, <<"com", Dot, product, Dot, "android">>,
   <<"com", Dot, product, Dot, "music">>, <<"com", Dot, vendor, Dot, "android", Dot, product>>}

\* A segment between dots that is nothing but separators, which can be taken for the
\* product.
HasBlankSegment(name) ==
  LET segments == Segments(Stripped(name))
  IN  \E k \in DOMAIN segments : \A i \in DOMAIN segments[k] : segments[k][i] \in Separators

\* Both platforms give a name one key, and none only where it has no word but one that
\* ends like a suffix, or where a segment is blank.
OneKey(name) ==
  LET words == {i \in DOMAIN name : name[i] \notin Separators}
  IN  /\ CanonicalKey(name) = PhoneKey(name)
      /\ CanonicalKey(name) = <<>> =>
           \/ \A i, j \in words : i = j /\ name[i] \in ExecutableSuffixes
           \/ HasBlankSegment(name)
=============================================================================
