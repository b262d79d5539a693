----------------------------- MODULE OutputFiles -----------------------------
(***************************************************************************)
(* Writing the results of runs into one directory, again and again         *)
(* (infra/assignment_output_files.cpp, called by app.cpp).                 *)
(*                                                                         *)
(* Each run overwrites the files of those before it, one after another.    *)
(* The full profile has all contents ready before it touches anything, the *)
(* production profile makes them as it goes.  A file may not open, a write *)
(* may fail; what is still in the stream's buffer is written when the      *)
(* stream is destroyed, where a failure has nowhere to go; and the process *)
(* may end anywhere.                                                       *)
(***************************************************************************)
EXTENDS OutputTables

CONSTANTS
    Outputs,        \* names of what a run may have calculated, and what each is:
    OutputOf(_),    \*   [profile, summary, results, loads, elementary, skim, overload]
    MaxRuns,        \* bound: runs into the directory
    MaxLost         \* bound: contents lost when a stream is closed

VARIABLES
    directory,      \* whether there is one
    disk,           \* file -> [of, run, whole]: the rows of what output, written by
                    \*   which run (0: there is no file), all of them or not
    run, output,    \* the run that is writing, and what it writes
    phase,          \* "idle", "preparing", "writing", "written" or "failed"
    position,       \* how many of its files are written
    before,         \* the disk when it began
    lost            \* how often contents have been lost

files_vars == <<directory, disk, run, output, phase, position, before, lost>>

Full(o) == OutputOf(o).profile = "DiagnosticFullPath"
Tables(o) ==
    IF Full(o) THEN FullTables(OutputOf(o)) ELSE ProductionTables(OutputOf(o))
\* Whether no share names a connection that is not there.
Sound(o) == \A r \in Range(OutputOf(o).results) : References(r)

Absent(o) == [of |-> o, run |-> 0, whole |-> FALSE]
FileNames == Range(Files)

FilesInit ==
    /\ directory = FALSE
    /\ output = CHOOSE o \in Outputs : TRUE
    /\ disk = [f \in FileNames |-> Absent(output)]
    /\ run = 0 /\ phase = "idle" /\ position = 0
    /\ before = disk /\ lost = 0

\* write_assignment_output_files is called with what a run has calculated.
Begin(o) ==
    /\ phase \in {"idle", "written", "failed"}
    /\ run < MaxRuns
    /\ run' = run + 1 /\ output' = o
    /\ phase' = "preparing" /\ position' = 0 /\ before' = disk
    /\ UNCHANGED <<directory, disk, lost>>

Fail == phase' = "failed" /\ UNCHANGED <<position, run, output, before>>

\* build_assignment_csv_projection (full profile only), then
\* ensure_directory_ready.  The projection refuses a reference out of range.
Prepare ==
    /\ phase = "preparing"
    /\ \/ /\ Full(output) /\ ~Sound(output)
          /\ Fail /\ UNCHANGED directory
       \/ /\ ~Full(output) \/ Sound(output)
          /\ \/ directory' = TRUE /\ phase' = "writing"
                  /\ UNCHANGED <<position, run, output, before>>
             \/ ~directory /\ Fail /\ UNCHANGED directory
    /\ UNCHANGED <<disk, lost>>

Written(f, whole) ==
    disk' = [disk EXCEPT ![f] = [of |-> output, run |-> run, whole |-> whole]]

\* write_text_file with a stream that opens, writes and closes.
WriteFile ==
    /\ phase = "writing" /\ position < Len(Files)
    /\ Written(Files[position + 1], TRUE)
    /\ position' = position + 1
    /\ UNCHANGED <<directory, run, output, phase, before, lost>>

\* ..whose buffer cannot be written when it is closed: nobody looks.
LoseOnClose ==
    /\ phase = "writing" /\ position < Len(Files)
    /\ lost < MaxLost
    /\ Written(Files[position + 1], FALSE)
    /\ position' = position + 1 /\ lost' = lost + 1
    /\ UNCHANGED <<directory, run, output, phase, before>>

\* A bug: a file that does not open is passed over.
NotOpened_PassedOver ==
    /\ phase = "writing" /\ position < Len(Files)
    /\ position' = position + 1
    /\ UNCHANGED <<directory, disk, run, output, phase, before, lost>>

\* ..that does not open: what was there stays there.
NotOpened ==
    /\ phase = "writing" /\ position < Len(Files)
    /\ Fail
    /\ UNCHANGED <<directory, disk, lost>>

\* ..that opened, emptied the file, and cannot be written.
NotWritten ==
    /\ phase = "writing" /\ position < Len(Files)
    /\ Written(Files[position + 1], FALSE)
    /\ Fail
    /\ UNCHANGED <<directory, lost>>

\* The paths are returned, and the application reports success.
Finish ==
    /\ phase = "writing" /\ position = Len(Files)
    /\ phase' = "written"
    /\ UNCHANGED <<directory, disk, run, output, position, before, lost>>

\* The process ends, between two files or within one.
Crash ==
    /\ phase \in {"preparing", "writing"}
    /\ \/ UNCHANGED disk
       \/ phase = "writing" /\ position < Len(Files) /\ Written(Files[position + 1], FALSE)
    /\ phase' = "idle"
    /\ UNCHANGED <<directory, run, output, position, before, lost>>

FilesNext ==
    \/ \E o \in Outputs : Begin(o)
    \/ Prepare \/ WriteFile \/ LoseOnClose \/ NotOpened \/ NotWritten
    \/ Finish \/ Crash

FilesSpec == FilesInit /\ [][FilesNext]_files_vars

------------------------------------------------------------------------------
Overwritten == {f \in FileNames : disk[f].run = run /\ run > 0}

\* No file of the directory is from a later run than the summary and those
\* before it, so that the summary, written first, tells the latest run that
\* may have touched anything; after a success all files are of that run; a
\* run that fails keeps what it has not reached, and a full one that fails
\* on its contents keeps everything; only one file is cut by a reported
\* failure; and what whole files of a run tell agrees.
FilesTellTheRun ==
    /\ \A i, j \in DOMAIN Files : i < j => disk[Files[i]].run >= disk[Files[j]].run
    /\ phase = "written" => Overwritten = FileNames
    /\ phase = "written" => Cardinality({f \in FileNames : ~disk[f].whole}) <= lost
    /\ \A f \in FileNames \ Overwritten : disk[f] = before[f]
    /\ phase = "failed" /\ Full(output) /\ ~Sound(output) => disk = before
    /\ Cardinality({f \in Overwritten : ~disk[f].whole}) <= lost + 1
    /\ phase = "written" /\ Sound(output) => TablesAgree(OutputOf(output))
    /\ \A f \in FileNames : disk[f].whole =>
          disk[f].of = IF f \in Overwritten THEN output ELSE before[f].of

\* After a success the complete set is there
\* (assignment_output_files.hpp:41 "Write the complete assignment result
\* artifact set.").
WrittenIsComplete ==
    phase = "written" => \A f \in FileNames : disk[f].whole
==============================================================================
