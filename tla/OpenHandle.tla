----------------------------- MODULE OpenHandle ------------------------------
(***************************************************************************)
(* One OpenFile under concurrent calls (internal/passfs/file_handle.go).   *)
(* The plaintext is a sequence of cells; a cell holds the call that wrote  *)
(* it, or Zero.  Write counts itself in pendingWrites before it takes mu   *)
(* and again after it has let mu go, so a call is three steps; every other *)
(* method runs under mu and is one.  The names are not HandleLocks', so    *)
(* that the proofs can extend both modules.                                *)
(***************************************************************************)
EXTENDS Integers, Sequences

CONSTANTS
    Writes,         \* concurrent calls of Write
    MaxFileSize,    \* Volume.maxFileSize, in cells
    MaxLength,      \* bound on the length of one write
    Workaround,     \* concurrentAppendWorkaround, TRUE on darwin
    Zero            \* the filler of a gap

ASSUME OpenHandleAssumption ==
    /\ MaxFileSize \in Nat /\ MaxLength \in Nat
    /\ Workaround \in BOOLEAN
    /\ Zero \notin Writes

VARIABLES
    append,         \* OpenFile.append: O_APPEND was seen at open
    plaintext,      \* OpenFile.data
    unsaved,        \* OpenFile.dirty
    released,       \* OpenFile.released
    pendingWrites,  \* OpenFile.pendingWrites
    candidate,      \* OpenFile.appendCandidateOffset
    stored,         \* what the vault holds
    call,           \* call[c]: progress, offset, length, overlappingWrite
    place,          \* place[c]: the cells c wrote and no truncation cut off
    final,          \* plaintext as Close found it
    closed          \* what Close returned

fileVars == <<append, plaintext, unsaved, released, pendingWrites, candidate,
              stored, call, place, final, closed>>

Cells == Seq(Writes \cup {Zero})

NoCall == [step |-> "none", offset |-> 0, length |-> 0, overlapping |-> FALSE]

CallState == [step : {"none", "entered", "leaving", "done"},
              offset : 0 .. MaxFileSize, length : 0 .. MaxLength,
              overlapping : BOOLEAN]

FileTypeOK ==
    /\ plaintext \in Cells /\ stored \in Cells /\ final \in Cells
    /\ append \in BOOLEAN /\ unsaved \in BOOLEAN /\ released \in BOOLEAN
    /\ pendingWrites \in Nat
    /\ candidate \in Nat \cup {-1}
    /\ call \in [Writes -> CallState]
    /\ place \in [Writes -> SUBSET Nat]
    /\ closed \in {"no", "ok", "error"}

FileInit ==
    /\ append \in BOOLEAN
    /\ plaintext = <<>> /\ stored = <<>> /\ final = <<>>
    /\ unsaved = FALSE /\ released = FALSE
    /\ pendingWrites = 0
    /\ candidate = -1
    /\ call = [c \in Writes |-> NoCall]
    /\ place = [c \in Writes |-> {}]
    /\ closed = "no"

-----------------------------------------------------------------------------
(* Write, before mu: overlappingWrite is decided here.                     *)
WriteEnter(c, offset, length) ==
    /\ call[c].step = "none"
    /\ pendingWrites' = pendingWrites + 1
    /\ call' = [call EXCEPT ![c] = [step |-> "entered", offset |-> offset,
                   length |-> length, overlapping |-> pendingWrites + 1 > 1]]
    /\ UNCHANGED <<append, plaintext, unsaved, released, candidate, stored,
                   place, final, closed>>

Size == Len(plaintext)

(* An overlapping write that repeats the last observed end.                *)
Repeats(c) ==
    /\ call[c].overlapping
    /\ call[c].offset = candidate
    /\ call[c].offset < Size

(* Mutant: O_APPEND is ignored.                                            *)
PositionAsGiven(c) == call[c].offset

Position(c) ==
    IF append \/ (Workaround /\ Repeats(c)) THEN Size ELSE call[c].offset

Candidate(c) ==
    IF append \/ ~Workaround \/ Repeats(c) THEN candidate
    ELSE IF call[c].offset = Size THEN call[c].offset ELSE -1

(* Cut or grow to n cells, filling the gap.                                *)
Resize(s, n) == [i \in 1 .. n |-> IF i <= Len(s) THEN s[i] ELSE Zero]

Overwrite(s, from, n, c) ==
    [i \in 1 .. Len(s) |-> IF i > from /\ i <= from + n THEN c ELSE s[i]]

Larger(m, n) == IF m > n THEN m ELSE n

(* Mutant: only the offset is compared with the limit, not the end.        *)
RejectsOffsetOnly(c) == released \/ Position(c) > MaxFileSize

(* EBADF of a closed handle, EFBIG of an offset or an end past the limit.  *)
Rejects(c) ==
    \/ released
    \/ Position(c) > MaxFileSize
    \/ Position(c) + call[c].length > MaxFileSize

Leaving(c) == call' = [call EXCEPT ![c] = [@ EXCEPT !.step = "leaving"]]

(* Write, under mu.                                                        *)
WriteApply(c) ==
    /\ call[c].step = "entered" /\ ~Rejects(c)
    /\ LET from == Position(c)
           n == call[c].length
           grown == Resize(plaintext, Larger(Size, from + n))
       IN  /\ plaintext' = Overwrite(grown, from, n, c)
           /\ place' = [place EXCEPT ![c] = from + 1 .. from + n]
    /\ candidate' = Candidate(c)
    /\ unsaved' = TRUE
    /\ Leaving(c)
    /\ UNCHANGED <<append, released, pendingWrites, stored, final, closed>>

(* Mutant: a refused write takes itself out of pendingWrites, and the      *)
(* deferred decrement does so again.                                       *)
WriteRejectedUncounts(c) ==
    /\ call[c].step = "entered" /\ Rejects(c)
    /\ candidate' = IF released THEN candidate ELSE Candidate(c)
    /\ pendingWrites' = pendingWrites - 1
    /\ Leaving(c)
    /\ UNCHANGED <<append, plaintext, unsaved, released, stored, place, final,
                   closed>>

(* The position is adjusted even when the write is then refused.           *)
WriteRejected(c) ==
    /\ call[c].step = "entered" /\ Rejects(c)
    /\ candidate' = IF released THEN candidate ELSE Candidate(c)
    /\ Leaving(c)
    /\ UNCHANGED <<append, plaintext, unsaved, released, pendingWrites, stored,
                   place, final, closed>>

(* Write, after mu: the deferred decrement.                                *)
WriteLeave(c) ==
    /\ call[c].step = "leaving"
    /\ pendingWrites' = pendingWrites - 1
    /\ call' = [call EXCEPT ![c] = [NoCall EXCEPT !.step = "done"]]
    /\ UNCHANGED <<append, plaintext, unsaved, released, candidate, stored,
                   place, final, closed>>

(* SetAttributes with a size; with a mode or a time only unsaved changes.  *)
Truncate(size) ==
    /\ ~released
    /\ size \in 0 .. MaxFileSize
    /\ plaintext' = Resize(plaintext, size)
    /\ place' = [c \in Writes |-> place[c] \cap 1 .. size]
    /\ unsaved' = TRUE
    /\ UNCHANGED <<append, released, pendingWrites, candidate, stored, call,
                   final, closed>>

(* flushLocked through Flush: persistFile succeeds, or fails and leaves    *)
(* the old or the new contents and the handle dirty.                       *)
FlushFile ==
    /\ ~released /\ unsaved
    /\ stored' = plaintext
    /\ unsaved' \in BOOLEAN
    /\ UNCHANGED <<append, plaintext, released, pendingWrites, candidate, call,
                   place, final, closed>>

(* Mutant: the error of the last flush is dropped.                         *)
CloseIgnoresError ==
    /\ ~released
    /\ closed' = "ok"
    /\ stored' \in {stored, plaintext}
    /\ final' = plaintext
    /\ plaintext' = <<>>
    /\ released' = TRUE
    /\ UNCHANGED <<append, unsaved, pendingWrites, candidate, call, place>>

(* Close flushes what is dirty, wipes the plaintext and returns the error  *)
(* of the flush.                                                           *)
CloseFile ==
    /\ ~released
    /\ \/ closed' = "ok" /\ stored' = IF unsaved THEN plaintext ELSE stored
       \/ unsaved /\ closed' = "error" /\ stored' \in {stored, plaintext}
    /\ final' = plaintext
    /\ plaintext' = <<>>
    /\ released' = TRUE
    /\ UNCHANGED <<append, unsaved, pendingWrites, candidate, call, place>>

FileNext ==
    \/ \E c \in Writes :
          \/ \E offset \in 0 .. MaxFileSize, length \in 1 .. MaxLength :
                WriteEnter(c, offset, length)
          \/ WriteApply(c) \/ WriteRejected(c) \/ WriteLeave(c)
    \/ \E size \in 0 .. MaxFileSize : Truncate(size)
    \/ FlushFile \/ CloseFile

FileSpec == FileInit /\ [][FileNext]_fileVars

-----------------------------------------------------------------------------
(* Properties.                                                             *)

(* Write's bound is on the end of the write wherever the append handling   *)
(* has moved it: the plaintext never outgrows maxFileSize, so a flush is   *)
(* never refused for its size.                                             *)
WithinLimit == Len(plaintext) <= MaxFileSize /\ Len(stored) <= MaxFileSize

(* A handle that counts as clean, or whose Close returned 0, has its last  *)
(* acknowledged change in the vault, whatever calls ran beside the flush.  *)
AcknowledgedIsStored ==
    /\ ~released /\ ~unsaved => stored = plaintext
    /\ closed = "ok" => stored = final

(* No acknowledged append is overwritten by another: the cells of every    *)
(* finished write of an O_APPEND handle hold that write until they are cut *)
(* off, whatever offsets the writes were submitted with and whichever of   *)
(* them gets mu first.                                                     *)
AppendsKept ==
    append /\ ~released =>
        \A c \in Writes : \A i \in place[c] : plaintext[i] = c
=============================================================================
