---------------------------- MODULE SpeechWindows ----------------------------
(***************************************************************************)
(* How a worker transcribes one track (transcribeTrack.ts and              *)
(* speechWindows.ts).  ffmpeg reports the silences of the file; what is    *)
(* left of it is cut into windows; Whisper hears one window at a time, and *)
(* what it recognises is put on the timeline of the track.                 *)
(*                                                                         *)
(* Times are whole numbers of one unit.  A span is half-open, [from, to).  *)
(* The text of a segment is left out, but a segment remembers the window   *)
(* that it was heard in, which the code does not need and properties do.   *)
(***************************************************************************)
EXTENDS Integers, Sequences, SequencesExt

CONSTANTS
  Durations,    \* bound: how long tracks are
  MaxSilences,  \* bound on the silences in a track
  Options,      \* WindowOptions and SilenceOptions that are used; maxWindow is not 0
  Answers       \* bound: what Whisper may recognise in a window of a given length

VARIABLES
  options,   \* the options of the worker
  duration,  \* durationMs, which ffprobe says
  report,    \* the lines of silencedetect: the times at which silences start and end, in turn
  windows,   \* what speechWindows made of them
  heard,     \* the windows that have been transcribed
  segments,  \* out: the segments so far, on the timeline of the track
  pc         \* where transcribeTrackFile is

vars == <<options, duration, report, windows, heard, segments, pc>>

Span(from, to) == [from |-> from, to |-> to]
Least(a, b)    == IF a <= b THEN a ELSE b
Greatest(a, b) == IF a >= b THEN a ELSE b

\* Math.round of a fraction, and Math.ceil of one.
Rounded(n, d) == (2 * n + d) \div (2 * d)
\* Mutant: the last part is forgotten.
RoundedDown(n, d) == n \div d
RoundedUp(n, d) == (n + d - 1) \div d

-----------------------------------------------------------------------------
(* Silences.                                                               *)

\* ffmpeg: every silence lasts minSilence; the first may start slightly before the track does, and
\* the last may end slightly after what ffprobe takes for the end, or not at all.
Reports(d, minSilence) ==
  {s \in BoundedSeq(-1..d + 1, 2 * MaxSilences) : \A i \in DOMAIN s :
     /\ i > 1 => s[i - 1] < s[i]
     /\ i % 2 = 1 => s[i] + minSilence <= IF i < Len(s) THEN s[i + 1] ELSE d + 1}

\* parseSilenceDetect.  Odd lines start a silence, even lines end it.
ParseSilenceDetect(lines, d) ==
  LET Silence(i) == Span(Greatest(0, lines[2 * i - 1]), lines[2 * i])
      closed == [i \in 1..Len(lines) \div 2 |-> Silence(i)]
      open   == IF Len(lines) % 2 = 0 THEN d ELSE Greatest(0, lines[Len(lines)])
      found  == IF open < d THEN Append(closed, Span(open, d)) ELSE closed
  IN [i \in DOMAIN found |-> Span(Least(found[i].from, d), Least(found[i].to, d))]

\* Mutant: what follows the last silence is forgotten.
InvertNoTail(silences, d) ==
  LET After(p, s) == [spans |-> Append(p.spans, Span(p.cursor, s.from)), cursor |-> s.to]
  IN FoldLeft(After, [spans |-> <<>>, cursor |-> 0], silences).spans

\* invert: a cursor goes over the silences and leaves what lies between them.
Invert(silences, d) ==
  LET After(p, s) ==
        [spans  |-> IF s.from > p.cursor THEN Append(p.spans, Span(p.cursor, s.from)) ELSE p.spans,
         cursor |-> Greatest(p.cursor, s.to)]
      end == FoldLeft(After, [spans |-> <<>>, cursor |-> 0], silences)
  IN IF end.cursor < d THEN Append(end.spans, Span(end.cursor, d)) ELSE end.spans

-----------------------------------------------------------------------------
(* Windows.                                                                *)

Long(s, o) == s.to - s.from >= o.minSpeech
Padded(s, d, o) == Span(Greatest(0, s.from - o.pad), Least(d, s.to + o.pad))

\* One turn of the loop over padded spans: join it to the last window, meet that one in the middle,
\* or begin another one.
\* Mutants: one bound of the two.
JoinsFar(last, s, o)  == s.to - last.from <= o.maxWindow
JoinsLong(last, s, o) == s.from - last.to < o.mergeGap
Joins(last, s, o) == s.from - last.to < o.mergeGap /\ s.to - last.from <= o.maxWindow
Merge(merged, s, o) ==
  IF merged = <<>> THEN <<s>>
  ELSE LET last == Last(merged)  others == Front(merged)
           middle == Rounded(last.to + s.from, 2)
       IN IF Joins(last, s, o) THEN Append(others, Span(last.from, Greatest(last.to, s.to)))
          ELSE IF s.from < last.to
                 THEN others \o <<Span(last.from, middle), Span(middle, s.to)>>
          ELSE Append(merged, s)

\* splitLong: equal parts, none of them longer than a window may be.
SplitLong(s, o) ==
  LET length == s.to - s.from
      parts  == RoundedUp(length, o.maxWindow)
      Cut(i) == Rounded(s.from * parts + i * length, parts)
  IN IF length <= o.maxWindow THEN <<s>> ELSE [i \in 1..parts |-> Span(Cut(i - 1), Cut(i))]

SpeechIn(silences, d, o) ==
  LET MergeOne(merged, s) == Merge(merged, s, o)
      long   == SelectSeq(Invert(silences, d), LAMBDA s : Long(s, o))
      padded == [i \in DOMAIN long |-> Padded(long[i], d, o)]
      merged == FoldLeft(MergeOne, <<>>, padded)
  IN FlattenSeq([i \in DOMAIN merged |-> SplitLong(merged[i], o)])

-----------------------------------------------------------------------------
(* The track.                                                              *)

Init ==
  /\ options \in Options /\ duration \in Durations
  /\ report \in Reports(duration, options.minSilence)
  /\ windows = <<>> /\ heard = 0 /\ segments = <<>> /\ pc = "probed"

\* detectSilences has answered; a track without speech is done.
CutWindows ==
  /\ pc = "probed"
  /\ windows' = SpeechIn(ParseSilenceDetect(report, duration), duration, options)
  /\ pc' = IF windows' = <<>> THEN "done" ELSE "transcribing"
  /\ UNCHANGED <<options, duration, report, heard, segments>>

\* Mutant: the end is not clipped.
OffsetUnclipped(answer, k) ==
  [i \in DOMAIN answer |->
     [from |-> windows[k].from + answer[i].from, to |-> windows[k].from + answer[i].to, window |-> k]]

\* offsetSegments.  Whisper may report an end past the audio that it was given.
Offset(answer, k) ==
  [i \in DOMAIN answer |->
     [from |-> windows[k].from + answer[i].from,
      to |-> Least(windows[k].from + answer[i].to, windows[k].to), window |-> k]]

\* transcribeWindow answers for the next window, and after the last one the segments are sorted.
Sorted(s) == SortSeq(s, LAMBDA a, b : a.from < b.from)
Transcribe ==
  /\ pc = "transcribing"
  /\ heard' = heard + 1
  /\ \E answer \in Answers[windows[heard'].to - windows[heard'].from] :
       LET out == segments \o Offset(answer, heard')
       IN segments' = IF heard' = Len(windows) THEN Sorted(out) ELSE out
  /\ pc' = IF heard' = Len(windows) THEN "done" ELSE pc
  /\ UNCHANGED <<options, duration, report, windows>>

\* One window fails, and with it the track: nothing is returned.
TranscribeFails ==
  /\ pc = "transcribing"
  /\ segments' = <<>> /\ pc' = "failed"
  /\ UNCHANGED <<options, duration, report, windows, heard>>

Next == CutWindows \/ Transcribe \/ TranscribeFails
Spec == Init /\ [][Next]_vars

-----------------------------------------------------------------------------
(* What the windows are for, said of every instant of the track.           *)

Instants == 0..duration - 1
Silent(t) ==
  \E i \in 1..Len(report) : i % 2 = 1 /\ report[i] <= t /\ (i < Len(report) => t < report[i + 1])
Spoken(a, b) == \A t \in a..b - 1 : ~Silent(t)

\* A stretch of speech, from one silence to the next, and those which are no click or breath.
Stretches ==
  {s \in [from : Instants, to : 1..duration] :
     /\ s.from < s.to /\ Spoken(s.from, s.to)
     /\ s.from > 0 => Silent(s.from - 1)
     /\ s.to < duration => Silent(s.to)}
Utterances == {s \in Stretches : s.to - s.from >= options.minSpeech}

Around == UNION {s.from - options.pad .. s.to + options.pad - 1 : s \in Utterances} \cap Instants
Windowed == UNION {windows[k].from .. windows[k].to - 1 : k \in DOMAIN windows}
JustCut == pc \in {"transcribing", "done"} /\ heard = 0  \* the windows do not change after that

TypeOK ==
  /\ options \in Options /\ duration \in Durations /\ report \in Reports(duration, options.minSilence)
  /\ \A k \in DOMAIN windows : windows[k] \in [from : 0..duration, to : 0..duration]
  /\ heard \in 0..Len(windows) /\ pc \in {"probed", "transcribing", "done", "failed"}
  /\ \A i \in DOMAIN segments : segments[i].window \in 1..heard

\* Every word is heard, with the context around it, whatever is padded, merged, met in the middle and
\* split: a quiet onset or tail is not clipped (WindowOptions.padMs).
NothingIsClipped == JustCut => Around \subseteq Windowed

\* Silence is not handed to Whisper, which invents text on it: what is in a window and not around
\* speech lies in a pause too short to split it (WindowOptions.mergeGapMs).
SilenceIsSkipped ==
  JustCut => \A t \in Windowed \ Around : \E a, b \in Around :
    a < t /\ t < b /\ b - a - 1 < options.mergeGap /\ \A c \in a + 1 .. b - 1 : c \notin Around

\* speechWindows.test.ts: windows never overlap, stay inside the track, and none is empty or longer
\* than Whisper is given at once.
WindowsFit ==
  \A k \in DOMAIN windows :
    /\ 0 <= windows[k].from /\ windows[k].from < windows[k].to /\ windows[k].to <= duration
    /\ windows[k].to - windows[k].from <= options.maxWindow
    /\ k > 1 => windows[k - 1].to <= windows[k].from

\* Speech that fits into a window is never cut: windows end in a pause where they can.
SpeechIsNotCut ==
  JustCut => \A s \in Utterances :
    Least(duration, s.to + options.pad) - Greatest(0, s.from - options.pad) <= options.maxWindow =>
      \E k \in DOMAIN windows : windows[k].from <= s.from /\ s.to <= windows[k].to

\* The timeline of a transcribed track is in order, window after window, and claims no speech outside
\* of the window in which it was heard.
TimelineHolds ==
  pc = "done" =>
    /\ \A i \in DOMAIN segments :
         windows[segments[i].window].from <= segments[i].from
         /\ segments[i].to <= windows[segments[i].window].to
    /\ \A i, j \in DOMAIN segments : i < j =>
         /\ segments[i].window <= segments[j].window
         /\ segments[i].from <= segments[j].from

\* What transcribeTrackFile owes its caller: all of the speech and nothing else goes to Whisper, in
\* pieces that it can take, and comes back in its place.
TrackIsHeard == NothingIsClipped /\ SilenceIsSkipped /\ WindowsFit /\ SpeechIsNotCut /\ TimelineHolds
=============================================================================
