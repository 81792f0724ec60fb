----------------------------- MODULE OeeHistory -----------------------------
(***************************************************************************)
(* The OEE engine with the history of what it was fed, and the counts that *)
(* openspec/specs/oee-recording defines, written over the whole history    *)
(* instead of sample by sample.                                            *)
(***************************************************************************)
EXTENDS OeeEngine, Sequences, FiniteSets

CONSTANTS Gap,        \* history entry: a failed poll
          MaxHistory  \* bound: entries in the history

ASSUME GapAssumption == Gap \notin Images

VARIABLE history  \* images and gaps, in the order they were fed

historyVars == <<engineVars, history>>

HistoryInit == EngineInit /\ history = << >>

Fed(entry) ==
  /\ Len(history) < MaxHistory
  /\ history' = Append(history, entry)

HistoryNext ==
  \/ \E raw \in Images, now \in Times : OnSnapshot(raw, now) /\ Fed(raw)
  \/ OnDisconnect /\ Fed(Gap)

HistorySpec == HistoryInit /\ [][HistoryNext]_historyVars
-----------------------------------------------------------------------------
\* Samples that have a predecessor to be compared with: not the first one,
\* and not the first one after a gap.
Compared ==
  {i \in 2..Len(history) : history[i] /= Gap /\ history[i - 1] /= Gap}

Edges(tag) ==
  {i \in Compared : tag \in history[i] /\ tag \notin history[i - 1]}

SeenDuring(tag, i, j) == \E k \in Compared \cap i..j : tag \in history[k]

\* The cycle opened at sample i is overtaken at j when the next part enters.
Overtaken(i, j) ==
  /\ j \in Edges("B3") /\ j > i
  /\ \A k \in i..(j - 1) : k \notin Edges("B1") /\ (k > i => k \notin Edges("B3"))

\* The cycle opened at sample i reaches the finish sensor at j; a sample that
\* shows both edges counts as overtaken, the order the code checks them in.
Finished(i, j) ==
  /\ j \in Edges("B1") /\ j >= i
  /\ \A k \in i..(j - 1) : k \notin Edges("B1")
  /\ \A k \in (i + 1)..j : k \notin Edges("B3")

Clean(i, j) == SeenDuring("B2", i, j) /\ ~SeenDuring("B4", i, j)

Samples == 1..Len(history)

\* Sample-by-sample counting computes what the spec defines over the whole
\* run: one cycle per B3 edge, good when B2 but not B4 was seen up to its B1
\* edge, bad when it is overtaken or not clean, in flight otherwise
\* (oee.py:89-116; oee-recording "Ungated cycle counting").
CountsMatchHistory ==
  LET Parts == Edges("B3")
      Good  == {i \in Parts : \E j \in Samples : Finished(i, j) /\ Clean(i, j)}
      Bad   == {i \in Parts : \E j \in Samples :
                  Overtaken(i, j) \/ (Finished(i, j) /\ ~Clean(i, j))}
  IN  /\ total = Cardinality(Parts)
      /\ good = Cardinality(Good)
      /\ bad = Cardinality(Bad)

\* oee-recording, scenario "Clean part finishes": a part that triggers B3,
\* then B2, then B1 with no B4 detection is a good count.  A part reaches B1
\* when no other part entered in an EARLIER sample than the B1 edge.
CleanPartIsGood ==
  LET Reached(i, j) ==
        /\ j \in Edges("B1") /\ j > i
        /\ \A k \in (i + 1)..(j - 1) : k \notin Edges("B1") \cup Edges("B3")
      CleanParts ==
        {i \in Edges("B3") \ Edges("B1") :
           \E j \in Samples : Reached(i, j) /\ Clean(i, j)}
  IN  good >= Cardinality(CleanParts)
=============================================================================
