----------------------------- MODULE MatchScore -----------------------------
(***************************************************************************)
(* The score of two publications: a weighted mean of five similarities,    *)
(* each a number of Steps between 0 and Steps.  A similarity that cannot   *)
(* be known is left out or guessed.  Scores are compared as fractions: the *)
(* rounding to two decimals is left out.                                   *)
(***************************************************************************)
EXTENDS Naturals, FiniteSets, Nothing

CONSTANTS
  Words,      \* tags and words of the titles
  Days,       \* bound: days between the events
  Kilometres, \* bound: distances, None when a place is not known
  Steps       \* bound: how finely similarities are told apart

ASSUME ScoreAssumption ==
  /\ IsFiniteSet(Words) /\ Days \subseteq Nat /\ Kilometres \subseteq Nat \cup {None}
  /\ Steps \in Nat \ {0} /\ None \notin Nat

VARIABLE compared  \* the two publications compared last

AtLeastZero(a, b) == IF a > b THEN a - b ELSE 0

\* Shared words among all words; none when there are none.
TagSimilarity(left, right) ==
  IF left \cup right = {} THEN 0
  ELSE (Steps * Cardinality(left \cap right)) \div Cardinality(left \cup right)

\* It falls to zero in 30 days, and in 100 kilometres.
DateSimilarity(days) == (AtLeastZero(30, days) * Steps) \div 30
LocationSimilarity(distance) ==
  IF distance = None THEN Steps \div 4 ELSE (AtLeastZero(100, distance) * Steps) \div 100
CategorySimilarity(same) == IF same THEN Steps ELSE Steps \div 4

\* A vector that is missing, of another length or zero cannot be compared.
Comparable(v) == v # None

Weight == [visual |-> 45, tags |-> 18, date |-> 15, location |-> 12, category |-> 10]

Factors(c) == [visual   |-> IF Comparable(c.visual) THEN c.visual ELSE 0,
               tags     |-> TagSimilarity(c.left, c.right),
               date     |-> DateSimilarity(c.days),
               location |-> LocationSimilarity(c.distance),
               category |-> CategorySimilarity(c.same)]

\* Mutant of Weighs: a picture that is missing counts as one that differs.
WeighsAll(c) == DOMAIN Weight
Weighs(c)    == IF Comparable(c.visual) THEN DOMAIN Weight ELSE DOMAIN Weight \ {"visual"}

Total(f) == f["visual"] + f["tags"] + f["date"] + f["location"] + f["category"]

\* The score as a fraction: of Steps, that is.
Score(c) ==
  LET parts == [x \in DOMAIN Weight |-> IF x \in Weighs(c) THEN Weight[x] ELSE 0]
  IN [sum |-> Total([x \in DOMAIN Weight |-> Factors(c)[x] * parts[x]]), of |-> Total(parts) * Steps]

ScoreInit == compared = None

\* Bound: one comparison.
Compare ==
  /\ compared = None
  /\ \E left \in SUBSET Words, right \in SUBSET Words, days \in Days, distance \in Kilometres,
        same \in BOOLEAN, visual \in (0..Steps) \cup {None} :
       compared' = [left |-> left, right |-> right, days |-> days, distance |-> distance,
                    same |-> same, visual |-> visual]

ScoreSpec == ScoreInit /\ [][Compare]_compared

-----------------------------------------------------------------------------
AtMost(a, b) == a.sum * b.of <= b.sum * a.of

\* The comment at matching.py 70: a missing picture is not evidence of a visual
\* mismatch, while a real low similarity counts.  A picture raises the score of
\* a pair when it is more alike than the rest of it and lowers it when it is
\* less so; and whichever of two publications starts the comparison, the score
\* is the same and between 0 and 100.
MissingPictureIsNeutral ==
  compared # None =>
    LET c == compared
        blind == Score([c EXCEPT !.visual = None])
        alike(v) == [sum |-> v, of |-> Steps]
    IN /\ AtMost(Score(c), alike(Steps))
       /\ Score(c) = Score([c EXCEPT !.left = c.right, !.right = c.left])
       /\ \A v \in 0..Steps :
            LET seen == Score([c EXCEPT !.visual = v])
            IN /\ AtMost(alike(v), blind) => AtMost(alike(v), seen) /\ AtMost(seen, blind)
               /\ AtMost(blind, alike(v)) => AtMost(blind, seen) /\ AtMost(seen, alike(v))
=============================================================================
