-------------------------------- MODULE Watch --------------------------------
(***************************************************************************)
(* Readers of the turn streams while a run writes them: `belt watch`,      *)
(* `belt watch --follow` (src/belt/commands/watch.py) and the thread of    *)
(* the live view (LiveProgress._poll_streams, src/belt/progress.py).       *)
(*                                                                         *)
(* A stream is a sequence of pieces, what one write(2) put there: a whole  *)
(* line, or the head and later the tail of one that was written in two.    *)
(* A line is whole when all of its text is there: it parses without its    *)
(* newline, and a newline that comes later is an empty line, which no      *)
(* reader shows.  A head may end inside a character.                       *)
(***************************************************************************)
EXTENDS Lists, FiniteSets, SequencesExt

CONSTANTS
  Streams,      (* turn_*_stream.ndjson files                              *)
  StreamLines,  (* lines that a run writes to each (bound of the model)    *)
  Idle,         (* passes without output in the idle timeout               *)
  Viewers       (* "watch", "follow", "live" or "none": who reads           *)

ASSUME WatchAssumption ==
  /\ StreamLines \in Nat /\ Idle \in Nat \ {0} /\ Viewers \subseteq {"none", "watch", "follow", "live"}

VARIABLES
  written,   (* [Streams -> Seq of pieces]                                 *)
  viewer,    (* which reader                                               *)
  view,      (* off, looking, reading, over or dead                        *)
  seen,      (* the reader's watchers: the files it has found              *)
  todo,      (* those it has still to read in this pass                    *)
  offset,    (* per file, the pieces it is past                            *)
  shown,     (* per file, the lines it has shown                           *)
  had,       (* whether this pass showed a line                            *)
  quiet,     (* passes since the last line, up to Idle                     *)
  stop       (* the live view is told to stop (_poller_stop)               *)

viewVars == <<viewer, view, seen, todo, offset, shown, had, quiet, stop>>
watchVars == <<written, viewVars>>

Piece(n, part, renders) == [line |-> n, part |-> part, renders |-> renders]

WatchInit ==
  /\ viewer \in Viewers
  /\ written = [f \in Streams |-> <<>>] /\ view = "off"
  /\ seen = {} /\ todo = {} /\ had = FALSE /\ quiet = 0 /\ stop = FALSE
  /\ offset = [f \in Streams |-> 0] /\ shown = [f \in Streams |-> <<>>]

-----------------------------------------------------------------------------
(* The writer, of one stream one thread.                                   *)

LinesOf(f) == IF written[f] = <<>> THEN 0 ELSE Last(written[f]).line
Torn(f) == written[f] # <<>> /\ Last(written[f]).part \in {"head", "cut"}

Put(f, piece) == written' = [written EXCEPT ![f] = Append(@, piece)]

(* A line that belt's parsers do not render, or that holds a character at  *)
(* which splitlines() breaks it, is not `renders`.                          *)
WriteLine(f) ==
  /\ LinesOf(f) < StreamLines /\ ~Torn(f)
  /\ \E part \in {"whole", "head", "cut"}, r \in BOOLEAN : Put(f, Piece(LinesOf(f) + 1, part, r))
  /\ UNCHANGED viewVars

WriteRest(f) ==
  /\ Torn(f)
  /\ Put(f, Piece(LinesOf(f), "tail", Last(written[f]).renders))
  /\ UNCHANGED viewVars

-----------------------------------------------------------------------------
(* A pass of the reader.                                                   *)

(* start, or watch_command: there must be a run directory.                 *)
Open ==
  /\ view = "off" /\ viewer # "none"
  /\ view' = "looking"
  /\ UNCHANGED <<written, viewer, seen, todo, offset, shown, had, quiet, stop>>

(* The loop's condition, and _discover_stream_files.                       *)
Look ==
  /\ view = "looking" /\ ~(viewer = "live" /\ stop)
  /\ seen' = seen \union {f \in Streams : written[f] # <<>>}
  /\ todo' = seen' /\ had' = FALSE /\ view' = "reading"
  /\ UNCHANGED <<written, viewer, offset, shown, quiet, stop>>

NewPieces(f) == SubSeq(written[f], offset[f] + 1, Len(written[f]))

(* The lines that parse: whole ones, and those whose two pieces are both   *)
(* in what was read.                                                       *)
Complete(data) ==
  LET ends(i) == data[i].part = "whole" \/ (data[i].part = "tail" /\ i > 1)
      at == Kept([i \in DOMAIN data |-> i], {i \in DOMAIN data : ends(i) /\ data[i].renders})
  IN  [k \in DOMAIN at |-> data[at[k]].line]

(* Mutant: the offset stays in front of a line that is not yet complete.   *)
(* Its first lines are then read again.                                    *)
ReadFileAgain(f) ==
  /\ view = "reading" /\ f \in todo
  /\ ~(NewPieces(f) # <<>> /\ Last(NewPieces(f)).part = "cut")
  /\ offset' = [offset EXCEPT ![f] = IF Torn(f) THEN @ ELSE Len(written[f])]
  /\ shown' = [shown EXCEPT ![f] = @ \o Complete(NewPieces(f))]
  /\ had' = (had \/ Complete(NewPieces(f)) # <<>>)
  /\ todo' = todo \ {f}
  /\ UNCHANGED <<written, viewer, view, seen, quiet, stop>>

(* read_new_lines and what is shown of them.                               *)
ReadFile(f) ==
  /\ view = "reading" /\ f \in todo
  /\ ~(NewPieces(f) # <<>> /\ Last(NewPieces(f)).part = "cut")
  /\ offset' = [offset EXCEPT ![f] = Len(written[f])]
  /\ shown' = [shown EXCEPT ![f] = @ \o Complete(NewPieces(f))]
  /\ had' = (had \/ Complete(NewPieces(f)) # <<>>)
  /\ todo' = todo \ {f}
  /\ UNCHANGED <<written, viewer, view, seen, quiet, stop>>

(* Half a character at the end: UnicodeDecodeError, which is no OSError,   *)
(* ends the thread or the command.                                         *)
ReadDies(f) ==
  /\ view = "reading" /\ f \in todo
  /\ NewPieces(f) # <<>> /\ Last(NewPieces(f)).part = "cut"
  /\ view' = "dead"
  /\ UNCHANGED <<written, viewer, seen, todo, offset, shown, had, quiet, stop>>

(* Mutant: a pass without output counts from the start of the last one.    *)
EndPassUnhurried ==
  /\ view = "reading" /\ todo = {}
  /\ quiet' \in IF had THEN {0} ELSE {quiet, IF quiet < Idle THEN quiet + 1 ELSE Idle}
  /\ view' = IF viewer = "watch" /\ ~had /\ quiet' = Idle THEN "over" ELSE "looking"
  /\ UNCHANGED <<written, viewer, seen, todo, offset, shown, had, stop>>

(* A pass may take longer than the poll interval.                          *)
EndPass ==
  /\ view = "reading" /\ todo = {}
  /\ quiet' \in IF had THEN {0} ELSE (IF quiet < Idle THEN quiet + 1 ELSE Idle)..Idle
  /\ view' = IF viewer = "watch" /\ ~had /\ quiet' = Idle THEN "over" ELSE "looking"
  /\ UNCHANGED <<written, viewer, seen, todo, offset, shown, had, stop>>

(* LiveProgress.stop; a pass under way is finished, or, if it takes longer *)
(* than two seconds, left to end with the process.                         *)
StopView ==
  /\ stop' = TRUE
  /\ UNCHANGED <<written, viewer, view, seen, todo, offset, shown, had, quiet>>

EndView ==
  /\ view = "looking" /\ viewer = "live" /\ stop
  /\ view' = "over"
  /\ UNCHANGED <<written, viewer, seen, todo, offset, shown, had, quiet, stop>>

(* Ctrl-C on `belt watch`.                                                 *)
Interrupt ==
  /\ viewer = "follow" /\ view \in {"looking", "reading"}
  /\ view' = "over"
  /\ UNCHANGED <<written, viewer, seen, todo, offset, shown, had, quiet, stop>>

WriteStep == \E f \in Streams : WriteLine(f) \/ WriteRest(f)
ViewStep == Look \/ (\E f \in Streams : ReadFile(f) \/ ReadDies(f)) \/ EndPass \/ EndView

-----------------------------------------------------------------------------
(* Properties.                                                             *)

(* A reader shows the lines of a stream in order, each once, and none but  *)
(* complete ones; and it leaves out none of those it has read past but     *)
(* such as were written in two pieces: a line in front of a torn one, or   *)
(* after it, is not lost with it (read_new_lines).                         *)
ShownFaithfully ==
  \A f \in Streams :
    LET past == SubSeq(written[f], 1, offset[f])
    IN  /\ \A i, j \in DOMAIN shown[f] : i < j => shown[f][i] < shown[f][j]
        /\ \A n \in ToSet(shown[f]) : \E p \in ToSet(past) : p.line = n /\ p.part \in {"whole", "tail"}
        /\ \A p \in ToSet(past) : p.part = "whole" /\ p.renders => p.line \in ToSet(shown[f])

(* `belt watch` comes to an end when nothing more is written, and the live *)
(* view's thread when it is told to stop (watch_command, _poll_streams).   *)
ViewEnds ==
  /\ viewer = "watch" => (view # "off" ~> view \in {"over", "dead"})
  /\ viewer = "live" => (view # "off" /\ stop ~> view \in {"over", "dead"})
=============================================================================
