------------------------------ MODULE Redaction ------------------------------
(***************************************************************************)
(* packages/transformabl-core/src: detection, classification and redaction *)
(* of personal data in one text.                                           *)
(*                                                                         *)
(* A text is its length, which of its characters are invisible and whether *)
(* a safety pattern finds something in it; its i-th character is the       *)
(* number i.  The regular expressions are external: what they find is a    *)
(* set of hits [pattern, start, end], with the half-open offsets they      *)
(* report for the text they are run on.                                    *)
(***************************************************************************)
EXTENDS Integers, Sequences, FiniteSets, FiniteSetsExt, SequencesExt, Folds

CONSTANTS
  None,                \* an absent option or value
  Mask,                \* maskChar
  Patterns,            \* the type each pattern looks for, in pattern order
  Regulated,           \* the types PII_TO_REGULATORY has a category for
  MaxNormalizeLength,  \* MAX_NORMALIZE_LENGTH
  MaxPiiScanLength     \* MAX_PII_SCAN_LENGTH

ASSUME RedactionAssumption ==
  /\ MaxPiiScanLength \in Nat /\ MaxNormalizeLength \in Nat
  /\ MaxPiiScanLength <= MaxNormalizeLength
  /\ DOMAIN Patterns = 1..Len(Patterns) /\ Len(Patterns) \in Nat
  /\ \A i \in DOMAIN Patterns : Patterns[i] \notin Nat /\ Patterns[i] # Mask
  /\ Mask \notin Nat

Chars(text) == [i \in 1..text.length |-> i]

Smaller(a, b) == IF a < b THEN a ELSE b

-----------------------------------------------------------------------------
(* stripInvisible(): the characters that are left.  Its `map` is this      *)
(* sequence, counted from 0.                                               *)
StripInvisible(text) ==
  IF text.length > MaxNormalizeLength THEN Chars(text)
  ELSE FoldLeft(LAMBDA kept, c : IF c \in text.invisible THEN kept
                                 ELSE Append(kept, c), <<>>, Chars(text))

ScanTruncated(text) == Len(StripInvisible(text)) > MaxPiiScanLength

Scanned(text) ==
  SubSeq(StripInvisible(text), 1,
         Smaller(Len(StripInvisible(text)), MaxPiiScanLength))

(* What the patterns may find: nothing empty, and no two overlapping hits  *)
(* of one pattern.                                                         *)
Disjoint(hits) ==
  \A g, h \in hits : g.pattern = h.pattern /\ g # h =>
                       g.end <= h.start \/ h.end <= g.start

(* A hit, in offsets of the original text.                                 *)
(* Slip: the end is where the next character is.                           *)
MatchOfNextChar(text, hit) ==
  LET map == StripInvisible(text) IN
  [type  |-> Patterns[hit.pattern], pattern |-> hit.pattern,
   start |-> map[hit.start + 1] - 1,
   end   |-> IF hit.end < Len(map) THEN map[hit.end + 1] - 1 ELSE text.length]

Match(text, hit) ==
  LET map == StripInvisible(text) IN
  [type  |-> Patterns[hit.pattern], pattern |-> hit.pattern,
   start |-> map[hit.start + 1] - 1,
   end   |-> map[hit.end]]

(* In a set: redactPii() sorts them again, and nobody else looks at their  *)
(* order.                                                                  *)
DetectPii(text, hits) == {Match(text, hit) : hit \in hits}

-----------------------------------------------------------------------------
(* The merging loop takes matches by their starts: one opens a span unless *)
(* it starts before the span so far ends, which is where the furthest of   *)
(* its matches does; of two with one start the second opens none.          *)
(* Slip: every start opens one (the loop the comment H4 tells of).         *)
OpensAlways(matches, m) == m \in matches

Opens(matches, m) == \A n \in matches : n.start < m.start => n.end <= m.start

Starts(matches) == {m.start : m \in {n \in matches : Opens(matches, n)}}

(* The matches of the span that starts at s.                               *)
Members(matches, s) ==
  {m \in matches : s = Max({t \in Starts(matches) : t <= m.start})}

Width(m) == m.end - m.start

(* Of the matches of a span the first of the widest gives it its type.     *)
(* Both sorts are stable, so that pattern order decides between equals.    *)
Outranks(m, n) ==
  \/ Width(m) > Width(n)
  \/ Width(m) = Width(n) /\ m.start < n.start
  \/ Width(m) = Width(n) /\ m.start = n.start /\ m.pattern < n.pattern

Span(matches, s) ==
  LET members == Members(matches, s) IN
  [start |-> s,
   end   |-> Max({m.end : m \in members}),
   type  |-> (CHOOSE m \in members : \A n \in members : ~Outranks(n, m)).type]

(* value.slice(-keep): the last `keep` characters; slice(-0) is slice(0).  *)
LastChars(value, keep) ==
  IF keep = 0 THEN value ELSE SubSeq(value, Len(value) - keep + 1, Len(value))

Masks(n) == [i \in 1..n |-> Mask]

MaskValue(value, keep) ==
  IF Len(value) <= 2 * keep THEN Masks(Len(value))
  ELSE SubSeq(value, 1, keep) \o Masks(Len(value) - 2 * keep)
         \o LastChars(value, keep)

(* `how` is the RedactionConfig [mode, keep, types]; a placeholder is one  *)
(* token, the type it names.                                               *)
Replacement(original, span, how) ==
  CASE how.mode = "mask"        -> MaskValue(original, how.keep)
    [] how.mode = "remove"      -> <<>>
    [] how.mode = "placeholder" -> <<span.type>>

Wanted(m, how) == (how.types = None \/ m.type \in how.types) /\ m.end > m.start

Substitute(chars, span, how, result) ==
  SubSeq(result, 1, span.start)
    \o Replacement(SubSeq(chars, span.start + 1, span.end), span, how)
    \o SubSeq(result, span.end + 1, Len(result))

(* redactPii(): the spans are replaced from the right.                     *)
RedactPii(chars, matches, how) ==
  LET wanted == {m \in matches : Wanted(m, how)}
  IN  MapThenFoldSet(LAMBDA span, result : Substitute(chars, span, how, result),
                     chars, LAMBDA s : Span(wanted, s), Min, Starts(wanted))

-----------------------------------------------------------------------------
(* classifyContent()'s riskScore.                                          *)
RiskScore(text, matches) ==
  Smaller(100,
    (IF text.unsafe THEN 50 ELSE 0)
      + (IF \E m \in matches : m.type \in Regulated
         THEN 20 ELSE 0)
      + Smaller(5 * Cardinality(matches), 30))

(* What transformContent() returns of the matches it found and of what     *)
(* redactPii() made of the text; `classify` is the option of that name.    *)
TransformResult(text, matches, content, classify) ==
  [content       |-> content,
   riskScore     |-> IF classify THEN RiskScore(text, matches) ELSE 0,
   transformed   |-> content # Chars(text),
   scanTruncated |-> ScanTruncated(text)]

-----------------------------------------------------------------------------
(* What redaction is to achieve, said without spans: the characters from   *)
(* the first to the last of a hit are covered, and a gap between two       *)
(* characters is inside when one match covers both.                        *)
CoveredBy(text, hit) ==
  StripInvisible(text)[hit.start + 1] .. StripInvisible(text)[hit.end]

WantedHits(hits, how) ==
  {h \in hits : how.types = None \/ Patterns[h.pattern] \in how.types}

Covered(text, hits, how) ==
  UNION {CoveredBy(text, h) : h \in WantedHits(hits, how)}

InsideGap(text, hits, how, i) ==
  \E h \in WantedHits(hits, how) : {i, i + 1} \subseteq CoveredBy(text, h)

(* A character that mask mode may leave: fewer than `keep` characters from *)
(* an end of what is masked in one piece.                                  *)
NearAnEnd(text, hits, how, c) ==
  \E k \in 0..(how.keep - 1) :
    \/ ~InsideGap(text, hits, how, c - 1 - k)
    \/ ~InsideGap(text, hits, how, c + k)
==============================================================================
