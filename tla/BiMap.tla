-------------------------------- MODULE BiMap --------------------------------
(***************************************************************************)
(* BiMap<X, Y> of CISCommonLib: a one-to-one map kept as two QMaps, m_left *)
(* and m_right, that every operation has to update together.               *)
(*                                                                         *)
(* A QMap is a total function here; a key it does not contain is mapped to *)
(* the default-constructed value QMap::value() would return (NoLeft,       *)
(* NoRight), which no caller ever stores.                                  *)
(***************************************************************************)

CONSTANTS Left, Right,      \* the key types X and Y
          NoLeft, NoRight   \* default-constructed X and Y

BiMaps == [m_left  : [Left -> Right \cup {NoRight}],
           m_right : [Right -> Left \cup {NoLeft}]]

EmptyBiMap == [m_left  |-> [x \in Left |-> NoRight],
               m_right |-> [y \in Right |-> NoLeft]]

containsLeft(b, x) == b.m_left[x] # NoRight
containsRight(b, y) == b.m_right[y] # NoLeft

LeftOf(b, y) == b.m_right[y]     \* left(right)
RightOf(b, x) == b.m_left[x]     \* right(left)

\* Refused when either key is taken: an insertion never steals a partner.
insert(b, x, y) ==
    IF containsLeft(b, x) \/ containsRight(b, y)
    THEN b
    ELSE [m_left  |-> [b.m_left EXCEPT ![x] = y],
          m_right |-> [b.m_right EXCEPT ![y] = x]]

\* Mutant: forgets the right half.
removeByLeftHalf(b, x) ==
    [b EXCEPT !.m_left = [b.m_left EXCEPT ![x] = NoRight]]

removeByLeft(b, x) ==
    IF ~containsLeft(b, x)
    THEN b
    ELSE [m_left  |-> [b.m_left EXCEPT ![x] = NoRight],
          m_right |-> [b.m_right EXCEPT ![RightOf(b, x)] = NoLeft]]

removeByRight(b, y) ==
    IF ~containsRight(b, y)
    THEN b
    ELSE [m_left  |-> [b.m_left EXCEPT ![LeftOf(b, y)] = NoRight],
          m_right |-> [b.m_right EXCEPT ![y] = NoLeft]]

\* What makes the two QMaps one map.  The Q_ASSERTs of size(), isEmpty(),
\* removeByLeft() and removeByRight() are consequences of it.
OneToOne(b) ==
    \A x \in Left, y \in Right : b.m_left[x] = y <=> b.m_right[y] = x
==============================================================================
