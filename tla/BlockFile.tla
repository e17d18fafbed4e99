----------------------------- MODULE BlockFile -----------------------------
(***************************************************************************)
(* The files blk*.dat of Storage (storage.cpp): blocks are appended as a   *)
(* length and a payload, and a start finds them again by scanning.  A file *)
(* is a sequence of cells: a length is one cell, a payload of Size[b]      *)
(* cells begins with the '{' of its JSON.  The bytes of a JSON text are    *)
(* never a length that fits a file, so only a length cell begins a frame.  *)
(* A crash during an append keeps a prefix of the frame.                   *)
(***************************************************************************)
EXTENDS Integers, SequencesExt

CONSTANTS
    Blocks,       \* the blocks
    Size,         \* the length of the payload of each
    MaxFileSize,  \* kMaxBlockFileSize
    MaxFiles      \* bound on the number of files

\* A payload is a JSON text of at most kMaxBlockBytes, far below the limit of a
\* file, and no block is mistaken for a length.
ASSUME BlockAssumption ==
    /\ "len" \notin Blocks
    /\ Size \in [Blocks -> Nat \ {0}]
    /\ MaxFileSize \in Nat /\ \A b \in Blocks : Size[b] < MaxFileSize

VARIABLES
    files,    \* the contents of blk00000.dat, blk00001.dat, ...
    index,    \* index_: the positions of the frames; their order matters to no reader
    size,     \* current_file_size_
    scanned,  \* the daemon runs
    own,      \* history: what was appended since the start, with its position
    kept,     \* history: every frame written whole
    torn      \* history: the extents of the frames a crash cut short

blockVars == <<files, index, size, scanned, own, kept, torn>>

Payload(b) == [i \in 1..Size[b] |-> <<b, i>>]

Frame(b) == << <<"len", Size[b]>> >> \o Payload(b)

\* The frame whose length is cell at of a file ends with cell End(f, at).
End(f, at) == at + f[at][2]

\* A frame: a length that fits the file and a payload that begins like JSON.
IsFrame(f, at) ==
    /\ f[at][1] = "len"
    /\ End(f, at) <= Len(f)
    /\ f[at + 1][1] # "len" /\ f[at + 1][2] = 1

\* A scan has a file, the place where it looks for the next frame and the
\* places where it found one.
ScanOf(f) == [file |-> f, next |-> 1, found |-> {}]

Found(scan, at) ==
    [scan EXCEPT !.next = End(scan.file, at) + 1, !.found = @ \union {at}]

FaultyScanAt(scan, at) ==
    IF at = scan.next /\ IsFrame(scan.file, at) THEN Found(scan, at) ELSE scan

\* scan_existing at one place: it goes on behind a frame, or one place further.
ScanAt(scan, at) ==
    IF at >= scan.next /\ IsFrame(scan.file, at) THEN Found(scan, at) ELSE scan

Places(f) == [at \in 1..Len(f) |-> at]

\* Where a scan finds the frames of a file.
Scan(f) == FoldLeft(ScanAt, ScanOf(f), Places(f)).found

Position(n, at) == [file |-> n, at |-> at, size |-> files[n][at][2]]

\* The index a scan of every file builds.
Scanned == UNION {{Position(n, at) : at \in Scan(files[n])} : n \in 1..Len(files)}

\* read_block and the parse of what it read.
Reads(pos, b) ==
    LET cells == files[pos.file]
    IN  /\ pos.at <= Len(cells) /\ cells[pos.at] = <<"len", pos.size>>
        /\ SubSeq(cells, pos.at + 1, pos.at + pos.size) = Payload(b)

FaultyTailSize == 0

\* The size of the last file, where the next frame goes.
TailSize == Len(Last(files))
-----------------------------------------------------------------------------
BlockInit ==
    /\ files = << << >> >>
    /\ index = {} /\ size = 0
    /\ scanned = TRUE
    /\ own = {} /\ kept = {} /\ torn = {}

FaultyRotates(b) == size + Size[b] > MaxFileSize

\* rotate_if_needed opens the next file when the frame does not fit.
Rotates(b) == size + Len(Frame(b)) > MaxFileSize

\* The files once cells are written for block b.
Written(b, cells) ==
    IF Rotates(b) THEN Append(files, cells)
    ELSE [files EXCEPT ![Len(files)] = @ \o cells]

Offset(b) == IF Rotates(b) THEN 0 ELSE size

Fits(b) == Rotates(b) => Len(files) < MaxFiles

\* append_block
AppendBlock(b) ==
    /\ scanned /\ Fits(b)
    /\ files' = Written(b, Frame(b))
    /\ size' = Offset(b) + Len(Frame(b))
    /\ LET pos == [file |-> Len(files'), at |-> Offset(b) + 1, size |-> Size[b]]
       IN  /\ index' = index \union {pos}
           /\ own' = own \union {[pos |-> pos, block |-> b]}
           /\ kept' = kept \union {[pos |-> pos, block |-> b]}
    /\ UNCHANGED <<scanned, torn>>

Down == scanned' = FALSE /\ index' = {} /\ size' = 0 /\ own' = {} /\ UNCHANGED kept

\* A crash during append_block: n cells of the frame reached the file.
CrashAppending(b, n) ==
    /\ scanned /\ Fits(b)
    /\ Down
    /\ files' = Written(b, SubSeq(Frame(b), 1, n))
    /\ torn' = torn \union
         {[file |-> Len(files'), from |-> Offset(b) + 1, to |-> Offset(b) + Len(Frame(b))]}

CrashIdle == scanned /\ Down /\ UNCHANGED <<files, torn>>

ScanAtStart ==
    /\ ~scanned
    /\ scanned' = TRUE
    /\ index' = Scanned
    /\ size' = TailSize
    /\ UNCHANGED <<files, own, kept, torn>>

BlockNext ==
    \/ \E b \in Blocks : AppendBlock(b)
    \/ \E b \in Blocks : \E n \in 1..Size[b] : CrashAppending(b, n)
    \/ CrashIdle
    \/ ScanAtStart

BlockSpec == BlockInit /\ [][BlockNext]_blockVars
-----------------------------------------------------------------------------
\* The types of the variables; no file grows beyond its limit, and the size
\* the next offset is computed from is that of the last file.
BlockTypeOK ==
    /\ files \in Seq(Seq(({"len"} \union Blocks) \X Nat))
    /\ \A n \in 1..Len(files) : Len(files[n]) <= MaxFileSize
    /\ \A pos \in index : pos.file \in 1..Len(files)
    /\ scanned \in BOOLEAN
    /\ scanned => size = Len(Last(files))

\* What was appended since the start is read back through the index, also
\* behind a torn frame and in a new file (append_block, read_block).
OwnBlocksRead ==
    \A o \in own : o.pos \in index /\ Reads(o.pos, o.block)

InExtent(k, t) ==
    k.pos.file = t.file /\ t.from <= k.pos.at /\ k.pos.at <= t.to

\* A scan finds every whole frame that does not begin where a torn one should
\* have gone on: it falls into step again behind the damage (scan_existing).
ScanResyncs ==
    \A k \in kept : (\A t \in torn : ~InExtent(k, t)) => k.pos \in Scanned

\* A start finds every block that was accepted.
AcceptedReloaded ==
    \A k \in kept : k.pos \in Scanned /\ Reads(k.pos, k.block)
=============================================================================
