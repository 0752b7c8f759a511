--------------------------- MODULE MCMediaPlayer ---------------------------
(***************************************************************************)
(* Instances of MediaPlayer for TLC.                                       *)
(***************************************************************************)
EXTENDS MediaPlayer, TLC

CONSTANTS Driver, Other   \* the two control calls

\* One call pauses or moves on in the playlist, the other starts, resumes,
\* extends or stops: both groups meet each other, the playback's own end and
\* the recovery a new attachment starts.
KindsOf ==
    [c \in {Driver, Other} |->
        IF c = Driver
          THEN {"list", "next", "prev", "pause", "suspend"}
          ELSE {"play", "append", "resume", "stop"}]

\* The bound of the instance: the output changes hands between sessions while
\* a single source is played, or the playlist is played on one session.
Bound ==
    InPlaylist => Cardinality({s \in Sessions : sess[s] # "new"}) = 1

\* Sessions are interchangeable.
Symmetry == Permutations(Sessions)
=============================================================================
