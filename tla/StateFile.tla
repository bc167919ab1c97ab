----------------------------- MODULE StateFile -----------------------------
(***************************************************************************)
(* The autosave (SerializingListener), the snapshot file (AppSerializator) *)
(* and the restart of the server.  The state of the game is told by the    *)
(* game time it has reached; a file holds the state of one moment, whole   *)
(* or cut short.  Serialize renames its buffer file while the stream that  *)
(* fills it is still open, so what the stream holds back reaches the disk  *)
(* only when Serialize returns and the stream is closed.                   *)
(***************************************************************************)
EXTENDS Integers

CONSTANTS
    SavePeriod,  \* save_period_
    Ticks,       \* deltas a tick may carry
    Faults,      \* what may go wrong: see FaultKinds
    MaxClock     \* bound: game time

\* "crash": the process is killed; "tick": Game::OnTick throws, as a failed
\* retirement makes it; "write": the archive cannot write to its stream, and
\* throws; "late_write": only closing the stream fails, and nobody looks.
FaultKinds == {"crash", "tick", "write", "late_write"}

ASSUME SaveAssumption ==
    SavePeriod \in Nat /\ SavePeriod > 0 /\ Ticks \subseteq Nat /\ Faults \subseteq FaultKinds

NoFile == [whole |-> FALSE, exists |-> FALSE, clock |-> 0]
File(whole, clock) == [whole |-> whole, exists |-> TRUE, clock |-> clock]

VARIABLES
    up,       \* "running", "down", or "refused": down, the snapshot cannot be read
    step,     \* where the thread that ticks and saves stands
    tick,     \* delta of the tick being handled
    clock,    \* ghost: the game time the state in memory has reached
    counter,  \* SerializingListener::counter
    leaving,  \* the io threads have stopped: this save is the last
    target,   \* target_file_path_
    buf,      \* buf_file_path_
    saved,    \* ghost: the state of the last save that was completed
    missed,   \* ghost: game time no autosave answers for
    cut       \* ghost: the end of the last snapshot was lost

memory == <<tick, clock, counter, leaving>>
disk == <<target, buf>>
ghosts == <<saved, missed, cut>>
vars == <<up, step, memory, disk, ghosts>>

Init ==
    /\ up = "running" /\ step = "idle" /\ tick = 0 /\ clock = 0 /\ counter = 0
    /\ leaving = FALSE
    /\ target = NoFile /\ buf = NoFile
    /\ saved = 0 /\ missed = 0 /\ cut = FALSE

At(s) == up = "running" /\ step = s

\* Application::Tick: the game first, then the listener.
GameTicks(t) ==
    /\ At("idle") /\ clock + t <= MaxClock
    /\ clock' = clock + t /\ tick' = t
    /\ step' = "listener"
    /\ UNCHANGED <<up, counter, leaving, disk, ghosts>>

\* The exception skips the listener.
GameThrows(t) ==
    /\ "tick" \in Faults
    /\ At("idle") /\ clock + t <= MaxClock
    /\ clock' = clock + t /\ missed' = missed + t
    /\ UNCHANGED <<up, step, tick, counter, leaving, disk, saved, cut>>

\* Mutant: a counter that has just reached the period does not count.
OnTickStrictly ==
    /\ At("listener")
    /\ IF counter + tick > SavePeriod
       THEN counter' = counter + tick - SavePeriod /\ step' = "save"
       ELSE counter' = counter + tick /\ step' = "idle"
    /\ tick' = 0
    /\ UNCHANGED <<up, clock, leaving, disk, ghosts>>
OnTick ==
    /\ At("listener")
    /\ IF counter + tick >= SavePeriod
       THEN counter' = counter + tick - SavePeriod /\ step' = "save"
       ELSE counter' = counter + tick /\ step' = "idle"
    /\ tick' = 0
    /\ UNCHANGED <<up, clock, leaving, disk, ghosts>>

\* SIGINT or SIGTERM: the io threads are joined, then main saves.
Signal ==
    /\ At("idle")
    /\ leaving' = TRUE /\ step' = "save"
    /\ UNCHANGED <<up, tick, clock, counter, disk, ghosts>>

\* Mutant: the snapshot itself is opened for writing.
OpenTarget ==
    /\ At("save")
    /\ target' = File(FALSE, clock) /\ step' = "write"
    /\ UNCHANGED <<up, memory, buf, ghosts>>
\* std::ofstream truncates the buffer file.
OpenBuffer ==
    /\ At("save")
    /\ buf' = File(FALSE, clock) /\ step' = "write"
    /\ UNCHANGED <<up, memory, target, ghosts>>

\* The exception closes the stream and leaves Serialize; from the last save it
\* leaves main, whose EXIT_FAILURE keeps nobody from a new start.
WriteThrows ==
    /\ At("write") /\ "write" \in Faults
    /\ up' = IF leaving THEN "down" ELSE up
    /\ step' = "idle"
    /\ missed' = clock - saved
    /\ UNCHANGED <<memory, disk, saved, cut>>

\* Mutant: the buffer file is left where it is.
RenameForgotten ==
    /\ At("write")
    /\ step' = "close"
    /\ UNCHANGED <<up, memory, disk, ghosts>>
\* The state is in the stream, part of it on the disk; the file is renamed.
Rename ==
    /\ At("write")
    /\ target' = buf /\ buf' = NoFile /\ step' = "close"
    /\ UNCHANGED <<up, memory, ghosts>>

\* The archive and the stream are destroyed: the open file receives the rest.
Close ==
    /\ At("close")
    /\ target' = [target EXCEPT !.whole = TRUE]
    /\ saved' = clock /\ missed' = 0 /\ cut' = FALSE
    /\ up' = IF leaving THEN "down" ELSE up
    /\ step' = "idle"
    /\ UNCHANGED <<memory, buf>>

CloseFails ==
    /\ At("close") /\ "late_write" \in Faults
    /\ up' = IF leaving THEN "down" ELSE up
    /\ step' = "idle"
    /\ missed' = clock - saved /\ cut' = TRUE
    /\ UNCHANGED <<memory, disk, saved>>

Crash ==
    /\ "crash" \in Faults /\ up = "running"
    /\ up' = "down"
    /\ cut' = (cut \/ step = "close")
    /\ UNCHANGED <<step, memory, disk, saved, missed>>

\* A new process: AppSerializator::Restore, which throws on a torn archive.
\* What was refused may be tried again.
Restart ==
    /\ up # "running"
    /\ step' = "idle" /\ tick' = 0 /\ counter' = 0 /\ leaving' = FALSE
    /\ up' = IF target.exists /\ ~target.whole THEN "refused" ELSE "running"
    /\ clock' = IF target.exists /\ target.whole THEN target.clock ELSE 0
    /\ missed' = 0
    /\ UNCHANGED <<disk, saved, cut>>

Next ==
    \/ \E t \in Ticks : GameTicks(t)
    \/ \E t \in Ticks : GameThrows(t)
    \/ OnTick
    \/ Signal
    \/ OpenBuffer
    \/ WriteThrows
    \/ Rename
    \/ Close
    \/ CloseFails
    \/ Crash
    \/ Restart

Spec == Init /\ [][Next]_vars

-----------------------------------------------------------------------------

\* A server that starts has the state of the last completed save: never an
\* older one, never that of a save that was interrupted, and never a fresh game
\* once something was saved.
RestoresLastSave ==
    [][up # "running" /\ up' = "running" => clock' = saved]_vars

\* Between ticks, less than one save period of game time is unsaved
\* (tools/cmd_parser.h:39, "set game state save period"), but for the time of
\* ticks that threw, which the listener never hears of, and the time up to
\* the last autosave that failed.
AutosaveKeepsPace == At("idle") => clock < saved + SavePeriod + missed

\* A save that fails before the rename leaves the snapshot whole: only what
\* is lost between the rename and the end of the closing can cut it short.
FailedSaveHarmsNothing ==
    target.exists /\ ~target.whole => step = "close" \/ cut

\* The server starts again whatever happened to its predecessor (main.cpp:87,
\* "load the saved state of the game").
StartsAgain == up # "refused"

=============================================================================
