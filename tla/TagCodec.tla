------------------------------ MODULE TagCodec ------------------------------
(***************************************************************************)
(* app/tags.py: where the fourteen tags lie in the two areas of two bytes  *)
(* that are read from the PLC.  A byte is the set of the positions of its  *)
(* one bits, a decoded image the set of the tags that are TRUE.            *)
(***************************************************************************)
EXTENDS Integers, TLAPS

Tag(area, byte, bit) == [area |-> area, byte |-> byte, bit |-> bit]

TAGS ==
  [ESO |-> Tag("I", 1, 1), S1 |-> Tag("I", 0, 1), S2 |-> Tag("I", 0, 2),
   S3 |-> Tag("I", 0, 3), B1 |-> Tag("I", 0, 7), B2 |-> Tag("I", 0, 6),
   B3 |-> Tag("I", 0, 5), B4 |-> Tag("I", 1, 0), K1 |-> Tag("Q", 0, 3),
   K2 |-> Tag("Q", 0, 4), K3 |-> Tag("Q", 0, 5), P1 |-> Tag("Q", 1, 0),
   P2 |-> Tag("Q", 0, 7), P3 |-> Tag("Q", 0, 6)]

Names == {"ESO", "S1", "S2", "S3", "B1", "B2", "B3", "B4",
          "K1", "K2", "K3", "P1", "P2", "P3"}

Area == [0..1 -> SUBSET (0..7)]

read_bit(data, tag) == tag.bit \in data[tag.byte]

raw_values(inputs, outputs) ==
  {t \in Names : read_bit(IF TAGS[t].area = "I" THEN inputs ELSE outputs, TAGS[t])}

\* What the PLC holds in an area while the given tags are TRUE.
Memory(area, tags) ==
  [byte \in 0..1 |->
     {TAGS[t].bit : t \in {u \in tags : TAGS[u].area = area /\ TAGS[u].byte = byte}}]
-----------------------------------------------------------------------------
\* Every tag lies inside the two areas (tags.py:26-39).
LEMMA InArea ==
  \A t \in Names : TAGS[t] \in [area : {"I", "Q"}, byte : 0..1, bit : 0..7]
BY DEF TAGS, Tag, Names

\* No two tags share a bit (tags.py:26-39).
LEMMA OwnBit ==
  \A t, u \in Names :
    TAGS[u].area = TAGS[t].area /\ TAGS[u].byte = TAGS[t].byte /\ TAGS[u].bit = TAGS[t].bit
      => u = t
BY DEF TAGS, Tag, Names

\* No tag hides another: every combination of the tags is decoded as it is
\* (tags.py:52-61).
THEOREM EveryImageIsRead ==
  \A tags \in SUBSET Names :
    raw_values(Memory("I", tags), Memory("Q", tags)) = tags
<1> SUFFICES ASSUME NEW tags \in SUBSET Names
             PROVE  raw_values(Memory("I", tags), Memory("Q", tags)) = tags
  OBVIOUS
<1>1. ASSUME NEW t \in Names
      PROVE  read_bit(Memory(TAGS[t].area, tags), TAGS[t]) <=> t \in tags
  <2>1. TAGS[t].byte \in 0..1
    BY InArea
  <2>2. read_bit(Memory(TAGS[t].area, tags), TAGS[t]) <=>
          \E u \in tags : /\ TAGS[u].area = TAGS[t].area
                          /\ TAGS[u].byte = TAGS[t].byte
                          /\ TAGS[u].bit = TAGS[t].bit
    BY <2>1 DEF read_bit, Memory
  <2>3. ASSUME NEW u \in tags, TAGS[u].area = TAGS[t].area,
               TAGS[u].byte = TAGS[t].byte, TAGS[u].bit = TAGS[t].bit
        PROVE  u = t
    <3>1. u \in Names
      OBVIOUS
    <3> QED BY <2>3, <3>1, OwnBit, Zenon
  <2> QED BY <2>2, <2>3
<1>2. \A t \in Names : TAGS[t].area \in {"I", "Q"}
  BY InArea
<1> QED BY <1>1, <1>2 DEF raw_values
=============================================================================
