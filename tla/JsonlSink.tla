----------------------------- MODULE JsonlSink -----------------------------
(***************************************************************************)
(* storage/jsonl_sink.cpp: lines are buffered, flushed in batches of one   *)
(* date to the file of that date, synced, and then the oldest files go     *)
(* until the limits hold.  One thread uses the sink at a time, but every   *)
(* system call may fail and the machine may stop between any two of them,  *)
(* so a flush is several steps.                                            *)
(*                                                                         *)
(* An event is its sequence number; a line has size one.  A file is        *)
(*   lines   the events whose lines were appended                          *)
(*   synced  how many of the lines survive a crash                         *)
(*   torn    the file does not end in a newline                            *)
(*   spoilt  the lines that continue a fragment and are no record          *)
(*   linked  its directory entry survives a crash                          *)
(***************************************************************************)
EXTENDS Naturals, Sequences, FiniteSets, FiniteSetsExt, Functions

CONSTANTS
    Days,           \* the dates of events, as numbers; 0 is no date
    MaxEvents,      \* the bus publishes this many events
    DateOf,         \* date_from_timestamp() and serialize_line() of an event:
                    \* its date, or 0 when either refuses it
    BufferLimit,    \* JsonlOptions::buffer_limit
    MaxFiles,       \* JsonlOptions::max_files
    DiskBudget,     \* disk_budget_bytes(), in lines
    MaxFaults,      \* system calls that fail
    MaxCrashes      \* times the machine stops

NoDate == 0
Events == 1 .. MaxEvents

ASSUME SinkAssumption ==
    /\ Days \subseteq Nat \ {NoDate}
    /\ DateOf \in [Events -> Days \cup {NoDate}]
    /\ BufferLimit \in Nat \ {0}
    /\ MaxEvents \in Nat /\ MaxFiles \in Nat /\ DiskBudget \in Nat

VARIABLES
    buffer,    \* buffer_: the events whose lines wait
    fd,        \* the date of the open file (fd_, current_date_), or NoDate
    disk,      \* the files, by date
    flush,     \* how far flush() is: [at, pos]
    outcome,   \* what the last flush() returned: "none", "ok", "error"
    closed,    \* closed_, or no sink at all
    faults,    \* system calls that have failed
    acked,     \* history: events a flush() reported as stored
    reaped,    \* history: events in files that retention removed
    adrift,    \* history: events in files a crash unlinked
    glued      \* history: events whose line was appended to a fragment

sinkVars ==
    <<buffer, fd, disk, flush, outcome, closed, faults, acked, reaped, adrift, glued>>

Absent  == [there |-> FALSE, lines |-> <<>>, synced |-> 0, torn |-> FALSE, spoilt |-> {},
            linked |-> FALSE]
NewFile == [Absent EXCEPT !.there = TRUE, !.linked = TRUE]

Idle    == [at |-> "idle", pos |-> 0]
Ended   == flush.at = "idle"

Present(files) == {d \in Days : files[d].there}
There      == Present(disk)
LinesOf(d) == Range(disk[d].lines)
Readable(file) == {file.lines[i] : i \in (1 .. Len(file.lines)) \ file.spoilt}
OnDisk     == UNION {Readable(disk[d]) : d \in There}
Size(file) == Len(file.lines) + (IF file.torn THEN 1 ELSE 0)

SinkInit ==
    /\ buffer = <<>> /\ fd = NoDate /\ flush = Idle
    /\ disk = [d \in Days |-> Absent]
    /\ outcome = "none" /\ closed = TRUE /\ faults = 0
    /\ acked = {} /\ reaped = {} /\ adrift = {} /\ glued = {}

\* open(): initialize() finds or makes the directory.
OpenSink ==
    /\ closed' = FALSE /\ buffer' = <<>> /\ fd' = NoDate /\ flush' = Idle
    /\ outcome' = "none"
    /\ UNCHANGED <<disk, faults, acked, reaped, adrift, glued>>

StartFlush(lines) ==
    flush' = IF lines = <<>> THEN Idle ELSE [at |-> "open", pos |-> 1]

\* write(): an event without a date or a line is refused.
Write(e) ==
    /\ Ended
    /\ IF closed \/ DateOf[e] = NoDate
       THEN UNCHANGED <<buffer, flush>>
       ELSE /\ buffer' = Append(buffer, e)
            /\ IF Len(buffer') >= BufferLimit
               THEN StartFlush(buffer')
               ELSE UNCHANGED flush
    /\ UNCHANGED <<fd, disk, outcome, closed, faults, acked, reaped, adrift, glued>>

\* flush() called on its own.
Flush ==
    /\ Ended
    /\ ~closed
    /\ StartFlush(buffer)
    /\ UNCHANGED <<buffer, fd, disk, outcome, closed, faults, acked, reaped, adrift, glued>>

\* The end of close(): close_current_file(), whose error is dropped.
CloseSink ==
    /\ Ended
    /\ fd' = NoDate /\ closed' = TRUE /\ buffer' = <<>>
    /\ UNCHANGED <<disk, flush, outcome, faults, acked, reaped, adrift, glued>>

-----------------------------------------------------------------------------
(* The steps of flush().                                                   *)

Today == DateOf[buffer[flush.pos]]

\* The last line of the batch that starts at flush.pos.
BatchEnd ==
    Max({i \in flush.pos .. Len(buffer) :
            \A j \in flush.pos .. i : DateOf[buffer[j]] = Today})

\* A system call fails: flush() returns at once and leaves buffer_ alone.
Fail ==
    /\ faults < MaxFaults
    /\ faults' = faults + 1
    /\ flush' = Idle
    /\ outcome' = "error"
    /\ UNCHANGED <<buffer, closed, acked, reaped, adrift>>

\* open_for_date(): the open file may do; otherwise it is closed, and the file
\* of the date is made durably (StateDir::write_atomic) unless it is there.
OpenForDate ==
    /\ flush.at = "open"
    /\ fd' = Today
    /\ disk' = IF disk[Today].there THEN disk ELSE [disk EXCEPT ![Today] = NewFile]
    /\ flush' = [flush EXCEPT !.at = "write"]
    /\ UNCHANGED <<buffer, outcome, closed, faults, acked, reaped, adrift, glued>>

\* Closing, creating or opening fails; write_atomic() fails last of all when the
\* file has its name but the directory was not synced.
OpenFails ==
    /\ flush.at = "open"
    /\ fd # Today
    /\ fd' = NoDate
    /\ \/ UNCHANGED disk
       \/ ~disk[Today].there /\ disk' = [disk EXCEPT ![Today] = NewFile]
       \/ ~disk[Today].there
          /\ disk' = [disk EXCEPT ![Today] = [NewFile EXCEPT !.linked = FALSE]]
    /\ UNCHANGED glued
    /\ Fail

\* What a file holds after the first n of the lines were appended, and part of
\* another when cut.  O_APPEND goes on where the file ends, in a fragment too.
Appended(f, lines, n, cut) ==
    [f EXCEPT !.lines  = @ \o SubSeq(lines, 1, n),
              !.torn   = cut \/ (n = 0 /\ f.torn),
              !.spoilt = IF f.torn /\ n > 0 THEN @ \cup {Len(f.lines) + 1} ELSE @]

Glued(f, lines, n) == IF f.torn /\ n > 0 THEN {lines[1]} ELSE {}

Batch == SubSeq(buffer, flush.pos, BatchEnd)

\* write_all().
WriteAll ==
    /\ flush.at = "write"
    /\ disk' = [disk EXCEPT ![fd] = Appended(@, Batch, Len(Batch), FALSE)]
    /\ glued' = glued \cup Glued(disk[fd], Batch, Len(Batch))
    /\ flush' = [flush EXCEPT !.at = "sync"]
    /\ UNCHANGED <<buffer, fd, outcome, closed, faults, acked, reaped, adrift>>

\* write_all() fails after some of its bytes were written.
WriteFails ==
    /\ flush.at = "write"
    /\ \E n \in 0 .. Len(Batch) - 1, cut \in BOOLEAN :
          /\ disk' = [disk EXCEPT ![fd] = Appended(@, Batch, n, cut)]
          /\ glued' = glued \cup Glued(disk[fd], Batch, n)
    /\ UNCHANGED fd
    /\ Fail

\* Mutant: the file is not synced.
SyncForgets ==
    /\ flush.at = "sync"
    /\ IF BatchEnd < Len(buffer)
       THEN /\ flush' = [at |-> "open", pos |-> BatchEnd + 1]
            /\ UNCHANGED <<buffer, acked>>
       ELSE /\ flush' = [at |-> "retain", pos |-> 0]
            /\ buffer' = <<>>
            /\ acked' = acked \cup {buffer[i] : i \in 1 .. Len(buffer)}
    /\ UNCHANGED <<disk, fd, outcome, closed, faults, reaped, adrift, glued>>

\* fsync_current_file(), and the next batch; the buffer goes after the last.
Sync ==
    /\ flush.at = "sync"
    /\ disk' = [disk EXCEPT ![fd].synced = Len(disk[fd].lines)]
    /\ IF BatchEnd < Len(buffer)
       THEN /\ flush' = [at |-> "open", pos |-> BatchEnd + 1]
            /\ UNCHANGED <<buffer, acked>>
       ELSE /\ flush' = [at |-> "retain", pos |-> 0]
            /\ buffer' = <<>>
            /\ acked' = acked \cup {buffer[i] : i \in 1 .. Len(buffer)}
    /\ UNCHANGED <<fd, outcome, closed, faults, reaped, adrift, glued>>

SyncFails == flush.at = "sync" /\ UNCHANGED <<fd, disk, glued>> /\ Fail

OverLimit(files) ==
    \/ Cardinality(Present(files)) > MaxFiles
    \/ MapThenSumSet(LAMBDA d : Size(files[d]), Present(files)) > DiskBudget

\* enforce_retention(): one file of the loop, the current one closed first.
Retain ==
    /\ flush.at = "retain"
    /\ IF There # {} /\ OverLimit(disk)
       THEN LET oldest == Min(There) IN
            /\ disk' = [disk EXCEPT ![oldest] = Absent]
            /\ reaped' = reaped \cup LinesOf(oldest)
            /\ fd' = IF fd = oldest THEN NoDate ELSE fd
            /\ UNCHANGED <<flush, outcome>>
       ELSE /\ flush' = Idle
            /\ outcome' = "ok"
            /\ UNCHANGED <<disk, reaped, fd>>
    /\ UNCHANGED <<buffer, closed, faults, acked, adrift, glued>>

\* Listing, closing or removing fails.
RetainFails ==
    /\ flush.at = "retain"
    /\ UNCHANGED <<disk, glued>>
    /\ fd' \in {fd, NoDate}
    /\ Fail

FlushStep ==
    \/ OpenForDate \/ OpenFails \/ WriteAll \/ WriteFails
    \/ Sync \/ SyncFails \/ Retain \/ RetainFails

\* What a crash leaves of a file: what was synced, and some more of the rest.
Survivors(f) ==
    IF ~f.there THEN {f}
    ELSE {[f EXCEPT !.lines = SubSeq(@, 1, c[1]), !.torn = c[2],
                    !.spoilt = @ \cap (1 .. c[1])] :
             c \in {x \in (f.synced .. Len(f.lines)) \X BOOLEAN :
                      x[2] => x[1] < Len(f.lines) \/ f.torn}}
         \cup (IF f.linked THEN {} ELSE {Absent})
=============================================================================
