------------------------------ MODULE Summaries ------------------------------
(***************************************************************************)
(* How the transcripts of a session become one summary (merge.ts, chunk.ts *)
(* and summarise.ts): the segments of all speakers are merged into lines   *)
(* on one timeline, the lines are cut into chunks that a language model    *)
(* can take, and its notes are combined until they fit into one prompt.    *)
(*                                                                         *)
(* A text is its length and what it is about: a line knows the segments it *)
(* quotes, a note the lines that were in its prompt.                       *)
(***************************************************************************)
EXTENDS Integers, Sequences, SequencesExt

CONSTANTS
  Transcripts,    \* bound: the transcripts that sessions have
  CoalesceGap,    \* DEFAULT_COALESCE_GAP_MS
  Budgets,        \* the chunkChars and overlapLines that are used
  NoteLengths,    \* bound: how long the answers of the model are
  MaxReduceDepth  \* MAX_REDUCE_DEPTH

ASSUME SummaryAssumption ==
  /\ Budgets \subseteq [chars : Nat \ {0}, overlap : Nat]
  /\ NoteLengths \subseteq Nat /\ CoalesceGap \in Nat /\ MaxReduceDepth \in Nat

VARIABLES
  tracks,  \* per track: speaker, offset, whether it is private, and its segments
  budget,  \* the options of summarise
  lines,   \* what mergeTranscripts made of the tracks
  chunks,  \* the chunks: sequences of lines, by their number
  notes,   \* the notes so far: the lines they are about and their length
  combined,  \* the notes of the round under way
  depth,   \* the rounds of combining so far
  calls,   \* modelCalls
  about,   \* the lines that the summary is about
  pc       \* where summarise is

vars == <<tracks, budget, lines, chunks, notes, combined, depth, calls, about, pc>>

Sum(f) == FoldLeft(LAMBDA a, b : a + b, 0, f)
Greatest(a, b) == IF a >= b THEN a ELSE b

-----------------------------------------------------------------------------
(* Merging.                                                                *)

Quoted(k, i) ==
  LET track == tracks[k]  s == track.segments[i]
  IN [speaker |-> track.speaker, from |-> s.from + track.offset, to |-> s.to + track.offset, said |-> <<<<k, i>>>>]
Public == {k \in DOMAIN tracks : ~tracks[k].private}
\* Mutant: whispers are quoted too.
UtterancesOfAll ==
  FlattenSeq([k \in DOMAIN tracks |-> [i \in DOMAIN tracks[k].segments |-> Quoted(k, i)]])
Utterances ==
  FlattenSeq([k \in DOMAIN tracks |->
    IF k \in Public THEN [i \in DOMAIN tracks[k].segments |-> Quoted(k, i)] ELSE <<>>])

Before(a, b) ==
  \/ a.from < b.from
  \/ a.from = b.from /\ a.to < b.to
  \/ a.from = b.from /\ a.to = b.to /\ a.speaker < b.speaker

\* One turn of the loop: who goes on speaking soon after their last line goes on with it.
GoesOn(last, u) == last.speaker = u.speaker /\ u.from - last.to <= CoalesceGap
Continued(last, u) == [last EXCEPT !.to = Greatest(@, u.to), !.said = @ \o u.said]
Coalesce(merged, u) ==
  IF merged # <<>> /\ GoesOn(Last(merged), u)
  THEN Append(Front(merged), Continued(Last(merged), u))
  ELSE Append(merged, u)

\* Mutant: the tracks are not brought into one order.
MergeUnsorted == FoldLeft(Coalesce, <<>>, Utterances)
MergeTranscripts == FoldLeft(Coalesce, <<>>, SortSeq(Utterances, Before))

-----------------------------------------------------------------------------
(* Chunks.                                                                 *)

\* A line with its line break; every segment is as long as the time stamp and the name.
Cost(l) == Len(l.said) + 2

LastOf(s, n) == SubSeq(s, Greatest(1, Len(s) - n + 1), Len(s))

\* Mutant: nothing is repeated.
FlushAll(c, text, b) ==
  [chunks |-> Append(c.chunks, c.current), current |-> <<>>, size |-> 0, fresh |-> 0]

\* flush, and one turn of the loop of chunkLines; fresh counts the lines that no chunk has yet.
Flush(c, text, b) ==
  IF c.fresh = 0 THEN c
  ELSE LET keep == LastOf(c.current, b.overlap)
       IN [chunks |-> Append(c.chunks, c.current), current |-> keep,
           size |-> Sum([i \in DOMAIN keep |-> Cost(text[keep[i]])]), fresh |-> 0]
Overflows(c, cost, b) == c.size + cost > b.chars /\ c.fresh > 0
AddLine(c, n, text, b) ==
  LET room == IF Overflows(c, Cost(text[n]), b) THEN Flush(c, text, b) ELSE c
  IN [room EXCEPT !.current = Append(@, n), !.size = @ + Cost(text[n]), !.fresh = @ + 1]

ChunkLines(text, b) ==
  LET Add(c, n) == AddLine(c, n, text, b)
      none == [chunks |-> <<>>, current |-> <<>>, size |-> 0, fresh |-> 0]
  IN Flush(FoldLeft(Add, none, [n \in DOMAIN text |-> n]), text, b).chunks

\* groupByBudget: whole notes, as many as fit.
Group(g, n) ==
  IF g # <<>> /\ Sum([i \in DOMAIN Last(g) |-> Last(g)[i].length]) + n.length <= budget.chars
  THEN Append(Front(g), Append(Last(g), n))
  ELSE Append(g, <<n>>)
\* Mutant: the last group is not pushed.
GroupsButLast(ns) ==
  LET groups == FoldLeft(Group, <<>>, ns) IN IF Len(groups) > 1 THEN Front(groups) ELSE groups
GroupByBudget(ns) == FoldLeft(Group, <<>>, ns)

-----------------------------------------------------------------------------
(* summarise.                                                              *)

Init ==
  /\ tracks \in Transcripts /\ budget \in Budgets
  /\ lines = <<>> /\ chunks = <<>> /\ notes = <<>> /\ combined = <<>>
  /\ depth = 0 /\ calls = 0 /\ about = {} /\ pc = "transcribed"

\* A session without speech needs no model.
Merge ==
  /\ pc = "transcribed"
  /\ lines' = MergeTranscripts
  /\ chunks' = ChunkLines(lines', budget)
  /\ pc' = CASE lines' = <<>> -> "done" [] Len(chunks') = 1 -> "single" [] OTHER -> "map"
  /\ UNCHANGED <<tracks, budget, notes, combined, depth, calls, about>>

\* The model has answered; prompts are about the lines in them.
Answer(ls, n) == [about |-> ls, length |-> n]
Asked == calls' = calls + 1
About(ns) == UNION {ns[i].about : i \in DOMAIN ns}

SummariseOnce ==
  /\ pc = "single" /\ Asked
  /\ about' = ToSet(chunks[1]) /\ pc' = "done"
  /\ UNCHANGED <<tracks, budget, lines, chunks, notes, combined, depth>>

\* Whether the notes, with blank lines in between, must be combined again before the last call.
TooLong(ns) == Sum([i \in DOMAIN ns |-> ns[i].length]) + 2 * (Len(ns) - 1) > budget.chars
\* Mutant: combined until they fit.
AfterFitting(ns, d) == IF TooLong(ns) THEN "reduce" ELSE "final"
After(ns, d) == IF d < MaxReduceDepth /\ TooLong(ns) THEN "reduce" ELSE "final"

NoteChunk ==
  /\ pc = "map" /\ Asked
  /\ \E n \in NoteLengths : notes' = Append(notes, Answer(ToSet(chunks[Len(notes) + 1]), n))
  /\ pc' = IF Len(notes') = Len(chunks) THEN After(notes', depth) ELSE pc
  /\ UNCHANGED <<tracks, budget, lines, chunks, combined, depth, about>>

Combine ==
  /\ pc = "reduce" /\ Asked
  /\ LET groups == GroupByBudget(notes)
         group  == groups[Len(combined) + 1]
     IN \E n \in NoteLengths :
          LET out == Append(combined, Answer(About(group), n))  over == Len(out) = Len(groups)
          IN /\ notes'  = IF over THEN out ELSE notes
             /\ combined' = IF over THEN <<>> ELSE out
             /\ depth'  = IF over THEN depth + 1 ELSE depth
             /\ pc'     = IF over THEN After(out, depth + 1) ELSE pc
  /\ UNCHANGED <<tracks, budget, lines, chunks, about>>

CombineAll ==
  /\ pc = "final" /\ Asked
  /\ about' = About(notes) /\ pc' = "done"
  /\ UNCHANGED <<tracks, budget, lines, chunks, notes, combined, depth>>

GenerateFails ==
  /\ pc \in {"single", "map", "reduce", "final"} /\ Asked
  /\ pc' = "failed"
  /\ UNCHANGED <<tracks, budget, lines, chunks, notes, combined, depth, about>>

Next == Merge \/ SummariseOnce \/ NoteChunk \/ Combine \/ CombineAll \/ GenerateFails
Spec == Init /\ [][Next]_vars

-----------------------------------------------------------------------------
TypeOK ==
  /\ tracks \in Transcripts /\ budget \in Budgets
  /\ \A n \in DOMAIN lines : lines[n].from <= lines[n].to
  /\ \A k \in DOMAIN chunks : ToSet(chunks[k]) \subseteq DOMAIN lines
  /\ Len(notes) <= Len(chunks) /\ Len(combined) < Greatest(1, Len(notes)) /\ depth \in 0..MaxReduceDepth
  /\ calls \in Nat /\ about \subseteq DOMAIN lines
  /\ pc \in {"transcribed", "single", "map", "reduce", "final", "done", "failed"}

Merged == pc # "transcribed" /\ calls = 0  \* lines and chunks do not change after that
Segments == UNION {{<<k, i>> : i \in DOMAIN tracks[k].segments} : k \in Public}
Has(l, s) == \E j \in DOMAIN l.said : l.said[j] = s

\* merge.ts: everything that was said in public is quoted once, by its speaker and at its time, and
\* nothing that was whispered is (the last line of defence).
EverybodyIsQuoted ==
  Merged =>
    /\ \A n \in DOMAIN lines : ToSet(lines[n].said) \subseteq Segments
    /\ \A s \in Segments : \E n \in DOMAIN lines :
         LET q == Quoted(s[1], s[2]) IN
         /\ Has(lines[n], s) /\ lines[n].speaker = q.speaker
         /\ lines[n].from <= q.from /\ q.to <= lines[n].to
    /\ Sum([n \in DOMAIN lines |-> Len(lines[n].said)]) = Cardinality(Segments)

\* merge.ts: a sentence that Whisper split reads as one line, and crosstalk stays visible in order: a
\* line holds nobody's words during which somebody else began to speak.
CrosstalkIsVisible ==
  Merged =>
    /\ \A n \in 2..Len(lines) : lines[n - 1].from <= lines[n].from /\ ~GoesOn(lines[n - 1], lines[n])
    /\ \A n \in DOMAIN lines : \A s \in Segments, j \in 2..Len(lines[n].said) :
         LET q(t) == Quoted(t[1], t[2]) IN
         tracks[s[1]].speaker # lines[n].speaker =>
           ~(Before(q(lines[n].said[1]), q(s)) /\ Before(q(s), q(lines[n].said[j])))

\* chunk.ts: whatever the budget, a scene of as many lines as chunks share, and one more, is seen whole
\* by at least one call.
ScenesAreSeenWhole ==
  Merged => \A n \in DOMAIN lines : \E k \in DOMAIN chunks :
    Greatest(1, n - budget.overlap)..n \subseteq ToSet(chunks[k])

\* A finished summary is about everything that was said, however often notes were combined.
SummaryIsOfEverything == pc = "done" => about = DOMAIN lines

\* summarise.ts: a stubborn model, whose notes never get shorter, is not asked for ever.
CallsAreBounded == calls <= Len(chunks) * (MaxReduceDepth + 1) + 1

\* What mergeTranscripts and summarise owe their callers: everything said in public is quoted once, in
\* order, and is in the summary, which takes a bounded number of calls.
SessionIsSummarised ==
  EverybodyIsQuoted /\ CrosstalkIsVisible /\ ScenesAreSeenWhole /\ SummaryIsOfEverything /\ CallsAreBounded
=============================================================================
