-------------------------- MODULE StateFileProofs --------------------------
(***************************************************************************)
(* What StateFile guarantees for any save period, any lengths of ticks and *)
(* every combination of the faults.                                        *)
(***************************************************************************)
EXTENDS StateFile, TLAPS

FileType == [whole : BOOLEAN, exists : BOOLEAN, clock : Nat]

\* The game time, the counter and the files are well formed.  Game time no
\* autosave answers for may be owed in either direction: a restart takes the
\* game back.
Typed ==
    /\ up \in {"running", "down", "refused"}
    /\ step \in {"idle", "listener", "save", "write", "close"}
    /\ tick \in Nat /\ clock \in Nat /\ counter \in Nat /\ saved \in Nat /\ missed \in Int
    /\ target \in FileType /\ buf \in FileType

\* A whole snapshot is that of the last completed save, and nothing has been
\* saved where there is none.  Between the opening of the buffer file and the end
\* of the closing, the file under way is the one of this moment.
FilesInv ==
    /\ step # "close" => /\ target.exists /\ target.whole => target.clock = saved
                         /\ ~target.exists => saved = 0
    /\ step = "write" => buf = File(FALSE, clock)
    /\ step = "close" => target = File(FALSE, clock)

\* A snapshot that is cut short was not closed, or will not be closed any more.
CutInv == target.exists /\ ~target.whole => cut \/ (up = "running" /\ step = "close")

\* The counter answers for what is not saved and not missed, until it starts a
\* save; at rest this is less than a save period.
PaceInv ==
    up = "running" =>
        /\ step = "idle" => /\ clock <= saved + missed + counter
                            /\ clock < saved + missed + SavePeriod
        /\ step = "listener" => clock <= saved + missed + counter + tick

Inv == Typed /\ FilesInv /\ CutInv /\ PaceInv

LEMMA FileFacts ==
    /\ NoFile \in FileType /\ ~NoFile.exists /\ ~NoFile.whole
    /\ \A w \in BOOLEAN, c \in Nat :
          /\ File(w, c) \in FileType
          /\ File(w, c).exists /\ File(w, c).whole = w /\ File(w, c).clock = c
BY DEF NoFile, File, FileType

LEMMA InitInv == Init => Inv
<1> SUFFICES ASSUME Init PROVE Inv
  OBVIOUS
<1>1. Typed
  BY FileFacts DEF Init, Typed
<1>2. FilesInv /\ CutInv
  BY FileFacts DEF Init, FilesInv, CutInv
<1>3. PaceInv
  BY SaveAssumption DEF Init, PaceInv
<1> QED
  BY <1>1, <1>2, <1>3 DEF Inv

LEMMA TickInv ==
    ASSUME Inv, NEW t \in Ticks, GameTicks(t) \/ GameThrows(t)
    PROVE  Inv'
<1>1. t \in Nat
  BY SaveAssumption
<1>2. CASE GameTicks(t)
  BY <1>1, <1>2, SaveAssumption DEF GameTicks, At, disk, ghosts, Inv, Typed, FilesInv, CutInv, PaceInv
<1>3. CASE GameThrows(t)
  BY <1>1, <1>3, SaveAssumption DEF GameThrows, At, disk, Inv, Typed, FilesInv, CutInv, PaceInv
<1> QED
  BY <1>2, <1>3

LEMMA OnTickInv == Inv /\ OnTick => Inv'
<1> SUFFICES ASSUME Inv, OnTick PROVE Inv'
  OBVIOUS
<1>1. CASE counter + tick >= SavePeriod
  BY <1>1, SaveAssumption DEF OnTick, At, disk, ghosts, Inv, Typed, FilesInv, CutInv, PaceInv
<1>2. CASE ~(counter + tick >= SavePeriod)
  BY <1>2, SaveAssumption DEF OnTick, At, disk, ghosts, Inv, Typed, FilesInv, CutInv, PaceInv
<1> QED
  BY <1>1, <1>2

\* The steps of a save.
LEMMA SaveInv ==
    ASSUME Inv, Signal \/ OpenBuffer \/ WriteThrows \/ Rename
    PROVE  Inv'
<1>1. CASE Signal
  BY <1>1 DEF Signal, At, disk, ghosts, Inv, Typed, FilesInv, CutInv, PaceInv
<1>2. CASE OpenBuffer
  <2>1. /\ step = "save" /\ step' = "write" /\ buf' = File(FALSE, clock)
        /\ UNCHANGED <<up, memory, target, ghosts>>
    BY <1>2 DEF OpenBuffer, At
  <2>2. Typed'
    BY <2>1, FileFacts DEF Inv, Typed, memory, ghosts
  <2>3. FilesInv'
    BY <2>1 DEF Inv, FilesInv, File, memory, ghosts
  <2>4. CutInv' /\ PaceInv'
    BY <2>1 DEF Inv, CutInv, PaceInv, memory, ghosts
  <2> QED
    BY <2>2, <2>3, <2>4 DEF Inv
<1>3. CASE WriteThrows
  <2>1. /\ step = "write" /\ up = "running" /\ up' \in {"running", "down"} /\ step' = "idle"
        /\ missed' = clock - saved /\ UNCHANGED <<memory, disk, saved, cut>>
    BY <1>3 DEF WriteThrows, At
  <2>2. Typed'
    BY <2>1 DEF Inv, Typed, memory, disk
  <2>3. FilesInv' /\ CutInv'
    BY <2>1 DEF Inv, FilesInv, CutInv, memory, disk
  <2>4. PaceInv'
    BY <2>1, SaveAssumption DEF Inv, Typed, PaceInv, memory
  <2> QED
    BY <2>2, <2>3, <2>4 DEF Inv
<1>4. CASE Rename
  <2>1. /\ target' = File(FALSE, clock) /\ buf' = NoFile
        /\ up = "running" /\ step' = "close" /\ UNCHANGED <<up, memory, ghosts>>
    BY <1>4 DEF Rename, At, Inv, FilesInv
  <2>2. Typed'
    BY <2>1, FileFacts DEF Inv, Typed, memory, ghosts
  <2>3. FilesInv' /\ CutInv' /\ PaceInv'
    BY <2>1 DEF FilesInv, CutInv, PaceInv, memory, ghosts, File
  <2> QED
    BY <2>2, <2>3 DEF Inv
<1> QED
  BY <1>1, <1>2, <1>3, <1>4

LEMMA EndOfSaveInv == Inv /\ (Close \/ CloseFails) => Inv'
<1> SUFFICES ASSUME Inv, Close \/ CloseFails PROVE Inv'
  OBVIOUS
<1>1. CASE Close
  <2>1. target' = File(TRUE, clock)
    <3>1. target = File(FALSE, clock)
      BY <1>1 DEF Close, At, Inv, FilesInv
    <3>2. target' = [target EXCEPT !.whole = TRUE]
      BY <1>1 DEF Close
    <3> QED
      BY <3>1, <3>2 DEF File
  <2>2. /\ up' \in {"running", "down"} /\ step' = "idle" /\ saved' = clock /\ missed' = 0
        /\ cut' = FALSE /\ UNCHANGED <<memory, buf>>
    BY <1>1 DEF Close, At
  <2>3. Typed'
    <3>1. target' \in FileType
      BY <2>1, FileFacts DEF Inv, Typed
    <3> QED
      BY <2>2, <3>1 DEF Inv, Typed, memory
  <2>4. FilesInv' /\ CutInv'
    <3>1. clock \in Nat /\ clock' = clock
      BY <2>2 DEF Inv, Typed, memory
    <3>2. target'.exists /\ target'.whole /\ target'.clock = clock
      BY <2>1, <3>1 DEF File
    <3>3. target'.clock = saved' /\ step' = "idle"
      BY <2>2, <3>2
    <3> QED
      BY <3>2, <3>3 DEF FilesInv, CutInv
  <2>5. PaceInv'
    BY <2>2, SaveAssumption DEF Inv, Typed, PaceInv, memory
  <2> QED
    BY <2>3, <2>4, <2>5 DEF Inv
<1>2. CASE CloseFails
  <2>1. /\ step = "close" /\ up' \in {"running", "down"} /\ step' = "idle"
        /\ missed' = clock - saved /\ cut' = TRUE /\ UNCHANGED <<memory, disk, saved>>
    BY <1>2 DEF CloseFails, At
  <2>2. Typed'
    BY <2>1 DEF Inv, Typed, memory, disk
  <2>3. FilesInv' /\ CutInv'
    BY <2>1, FileFacts DEF Inv, Typed, FilesInv, CutInv, memory, disk
  <2>4. PaceInv'
    BY <2>1, SaveAssumption DEF Inv, Typed, PaceInv, memory
  <2> QED
    BY <2>2, <2>3, <2>4 DEF Inv
<1> QED
  BY <1>1, <1>2

LEMMA CrashInv == Inv /\ (Crash \/ Restart) => Inv'
<1> SUFFICES ASSUME Inv, Crash \/ Restart PROVE Inv'
  OBVIOUS
<1>1. CASE Crash
  <2>1. /\ up' = "down" /\ cut' = (cut \/ step = "close") /\ up = "running"
        /\ UNCHANGED <<step, memory, disk, saved, missed>>
    BY <1>1 DEF Crash
  <2>2. Typed'
    BY <2>1 DEF Inv, Typed, memory, disk
  <2>3. FilesInv' /\ CutInv' /\ PaceInv'
    BY <2>1 DEF Inv, FilesInv, CutInv, PaceInv, memory, disk
  <2> QED
    BY <2>2, <2>3 DEF Inv
<1>2. CASE Restart
  <2>1. /\ up # "running" /\ up' \in {"running", "refused"}
        /\ up' = "refused" <=> target.exists /\ ~target.whole
        /\ step' = "idle" /\ tick' = 0 /\ counter' = 0 /\ leaving' = FALSE /\ missed' = 0
        /\ clock' = IF target.exists /\ target.whole THEN target.clock ELSE 0
        /\ UNCHANGED <<disk, saved, cut>>
    BY <1>2 DEF Restart
  <2>2. Typed'
    BY <2>1 DEF Inv, Typed, disk, FileType
  <2>3. FilesInv' /\ CutInv'
    BY <2>1, FileFacts DEF Inv, Typed, FilesInv, CutInv, disk
  <2>4. PaceInv'
    BY <2>1, <2>2, <2>3, SaveAssumption, FileFacts DEF Inv, Typed, FilesInv, PaceInv, disk
  <2> QED
    BY <2>2, <2>3, <2>4 DEF Inv
<1> QED
  BY <1>1, <1>2

LEMMA NextInv == Inv /\ [Next]_vars => Inv'
<1> SUFFICES ASSUME Inv, [Next]_vars PROVE Inv'
  OBVIOUS
<1>1. CASE UNCHANGED vars
  BY <1>1 DEF vars, memory, disk, ghosts, Inv, Typed, FilesInv, CutInv, PaceInv
<1> QED
  BY <1>1, TickInv, OnTickInv, SaveInv, EndOfSaveInv, CrashInv DEF Next

LEMMA Invariant == Spec => []Inv
BY InitInv, NextInv, PTL DEF Spec

\* Between ticks less than one save period is unsaved, but for what failures
\* account for.
THEOREM SavesKeepPace == Spec => []AutosaveKeepsPace
<1>1. Inv => AutosaveKeepsPace
  BY SaveAssumption DEF Inv, Typed, PaceInv, AutosaveKeepsPace, At
<1> QED
  BY <1>1, Invariant, PTL

\* Only what is lost between the rename and the end of the closing leaves a
\* snapshot that is cut short.
THEOREM SnapshotStaysWhole == Spec => []FailedSaveHarmsNothing
<1>1. Inv => FailedSaveHarmsNothing
  BY DEF Inv, CutInv, FailedSaveHarmsNothing
<1> QED
  BY <1>1, Invariant, PTL

\* A server that starts has the state of the last completed save.
THEOREM RestartRestores == Spec => RestoresLastSave
<1>1. Inv /\ [Next]_vars => [up # "running" /\ up' = "running" => clock' = saved]_vars
  <2> SUFFICES ASSUME Inv, Next, up # "running", up' = "running" PROVE clock' = saved
    OBVIOUS
  <2>1. Restart
    BY DEF Next, GameTicks, GameThrows, OnTick, Signal, OpenBuffer, WriteThrows, Rename, Close,
           CloseFails, Crash, At
  <2>2. CASE step = "close"
    BY <2>1, <2>2 DEF Restart, Inv, FilesInv, File
  <2>3. CASE step # "close"
    BY <2>1, <2>3 DEF Restart, Inv, FilesInv
  <2> QED
    BY <2>2, <2>3
<1> QED
  BY <1>1, Invariant, PTL DEF Spec, RestoresLastSave

=============================================================================
