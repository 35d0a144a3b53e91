---------------------------- MODULE MCTranscripts ----------------------------
(***************************************************************************)
(* Two functions that the worker calls one after the other, for a short    *)
(* track and for a short session.  They share nothing but the segments,    *)
(* and those that Summaries begins with are more varied than a track of    *)
(* this length yields; so each behaviour is a call of one of the two.      *)
(***************************************************************************)
EXTENDS Summaries

VARIABLES options, duration, report, windows, heard, segments, at

\* As by default, a silence is longer than the padding on either side of it but not than both.
Defaults == [minSilence |-> 3, minSpeech |-> 1, pad |-> 2, mergeGap |-> 3, maxWindow |-> 6]
SomeOptions ==
  {Defaults, [Defaults EXCEPT !.maxWindow = 10], [Defaults EXCEPT !.maxWindow = 4, !.mergeGap = 1],
   [Defaults EXCEPT !.minSpeech = 2, !.pad = 1]}

Piece(from, to) == [from |-> from, to |-> to]

\* Nothing; the whole window, and more than there was; two phrases, the later one first.
SomeAnswers ==
  [n \in 1..10 |-> {<<>>, <<Piece(0, n + 1)>>, <<Piece(n - 1, n), Piece(0, n)>>}]

Hearing == INSTANCE SpeechWindows WITH
  Durations <- {9, 12}, MaxSilences <- 2, Options <- SomeOptions, Answers <- SomeAnswers, pc <- at

-----------------------------------------------------------------------------

Track(speaker, offset, private, segs) ==
  [speaker |-> speaker, offset |-> offset, private |-> private, segments |-> segs]

\* What may be said on a track, as Whisper hears it: nothing, or one or two pieces.
Sayings ==
  {<<>>, <<Piece(0, 1)>>, <<Piece(1, 3)>>, <<Piece(0, 1), Piece(1, 2)>>, <<Piece(0, 1), Piece(2, 3)>>,
   <<Piece(0, 3), Piece(3, 4)>>, <<Piece(0, 1), Piece(3, 4)>>}

\* A speaker whose track was cut in two, and another one, who came later or whispers.
SomeTranscripts ==
  {<<Track(1, 0, FALSE, a), Track(2, o, p, b), Track(1, 4, FALSE, c)>> :
     a \in Sayings, b \in Sayings, c \in Sayings, o \in {0, 1}, p \in BOOLEAN}

SomeBudgets == {[chars |-> 20, overlap |-> 1], [chars |-> 7, overlap |-> 0], [chars |-> 7, overlap |-> 2]}

-----------------------------------------------------------------------------

hearing == <<options, duration, report, windows, heard, segments, at>>

NotSummarising ==
  /\ tracks = <<>> /\ budget = <<>> /\ lines = <<>> /\ chunks = <<>> /\ notes = <<>> /\ combined = <<>>
  /\ depth = 0 /\ calls = 0 /\ about = {} /\ pc = "not called"
NotHearing ==
  /\ options = <<>> /\ duration = 0 /\ report = <<>> /\ windows = <<>> /\ heard = 0 /\ segments = <<>>
  /\ at = "not called"

InitTranscripts == (Hearing!Init /\ NotSummarising) \/ (Init /\ NotHearing)

HearingStep     == Hearing!Next /\ UNCHANGED vars
SummarisingStep == Next /\ UNCHANGED hearing

NextTranscripts == HearingStep \/ SummarisingStep

TranscriptsSpec == InitTranscripts /\ [][NextTranscripts]_<<vars, hearing>>

\* See SpeechWindows.TrackIsHeard.
TrackIsHeard == Hearing!TrackIsHeard
=============================================================================
