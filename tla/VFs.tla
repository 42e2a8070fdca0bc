-------------------------------- MODULE VFs --------------------------------
(***************************************************************************)
(* Compressed files (src/vfs.c, VFS_MODE_ZSTD): a file is written through  *)
(* a cache and a compressor, closed, and read back through a decompressor. *)
(*                                                                         *)
(* Bytes are known by the order in which they are written.  Compression is *)
(* what its user can see of it: a stream of frames, each a Begin, bytes    *)
(* and an End, that the library takes and gives in pieces of any size,     *)
(* within the limits of its buffers.                                       *)
(***************************************************************************)
EXTENDS Integers, Sequences, SequencesExt

CONSTANTS InSize,       \* buffInSize_c
          DInSize,      \* buffInSize_d
          DOutSize,     \* buffOutSize_d
          MaxBytes,     \* bound: bytes that are written
          MaxFile,      \* bound: tokens of a file that gets another frame
          MaxRead       \* bound: bytes that a read asks for

ASSUME FsAssumption ==
    {InSize, DInSize, DOutSize, MaxBytes, MaxFile, MaxRead} \subseteq Nat \ {0}

VARIABLES
    open,               \* "write", "closed" or "read"
    accepted,           \* how many bytes were passed to vfs_write
    todo,               \* those of the current call that are not taken yet
    cache,              \* input_c: what small writes have left in buffIn_c
    started,            \* input_c.src is set
    cctx,               \* the compressor: what it has not given out yet
    cframe,             \* ... and whether a frame is begun
    file,               \* the contents of the file
    damaged,            \* history: the system failed to write
    fpos,               \* how much of the file was read
    input,              \* input_d from its pos on
    remaining,          \* remaining_d
    dctx,               \* the decompressor: bytes that it has not given out
    dframe,             \* ... and whether it is within a frame
    output,             \* output_d from readPos_d on
    wanted,             \* how many bytes the current read still wants
    got,                \* history: the bytes that were read
    read_failed,        \* history: a read failed
    astray              \* history: a seek left a frame that was not loaded

written == <<open, accepted, todo, cache, started, cctx, cframe, file, damaged>>
readers == <<fpos, input, remaining, dctx, dframe, output, wanted, got, read_failed, astray>>
fsVars == <<written, readers>>

FsInit ==
    /\ open = "write" /\ accepted = 0
    /\ todo = <<>> /\ cache = <<>> /\ started = FALSE
    /\ cctx = <<>> /\ cframe = FALSE
    /\ file = <<>> /\ damaged = FALSE
    /\ fpos = 0 /\ input = <<>> /\ remaining = FALSE
    /\ dctx = <<>> /\ dframe = FALSE
    /\ output = <<>> /\ wanted = 0
    /\ got = <<>> /\ read_failed = FALSE /\ astray = FALSE
-----------------------------------------------------------------------------
Begin == 0
End == -1
Bytes(s) ==
    LET upTo[n \in 0..Len(s)] ==
            IF n = 0 THEN <<>>
            ELSE IF s[n] > 0 THEN Append(upTo[n - 1], s[n]) ELSE upTo[n - 1]
    IN  upTo[Len(s)]
UpTo(s, n) == SubSeq(s, 1, IF n < Len(s) THEN n ELSE Len(s))
From(s, n) == SubSeq(s, n + 1, Len(s))

(* zstd_do_compress until all of the data is compressed, and the writes of *)
(* what it gave out: in the end the compressor may keep some of it, unless *)
(* the frame ends.                                                         *)
Compress(data, end) ==
    LET start == IF cframe \/ (data = <<>> /\ ~end) THEN <<>> ELSE <<Begin>>
        all   == cctx \o start \o data \o (IF end THEN <<End>> ELSE <<>>)
    IN  \E n \in IF end THEN {Len(all)} ELSE 0..Len(all) :
            /\ file' = file \o UpTo(all, n)
            /\ cctx' = From(all, n)
            /\ cframe' = (~end /\ (cframe \/ start # <<>>))
            /\ UNCHANGED damaged

(* A write fails: what was given out is lost. *)
CompressFails ==
    /\ damaged' = TRUE
    /\ cctx' = <<>> /\ cframe' = TRUE
    /\ UNCHANGED file

(* vfs_write, zstd_write: the loop takes the data in pieces. *)
Write(n) ==
    /\ open = "write" /\ todo = <<>>
    /\ accepted + n <= MaxBytes
    /\ todo' = [i \in 1..n |-> accepted + i]
    /\ accepted' = accepted + n
    /\ UNCHANGED <<open, cache, started, cctx, cframe, file, damaged, readers>>

(* Variant: a piece that fills the buffer is compressed in place. *)
FullPieceInPlace(room) == UpTo(todo, room)

(* A piece that fills the buffer: behind what is cached there, or, when    *)
(* that is nothing, the caller's own buffer.                               *)
FullPiece(room) == IF cache # <<>> THEN cache \o UpTo(todo, room) ELSE UpTo(todo, room)

WritePiece ==
    /\ open = "write" /\ todo # <<>>
    /\ started' = TRUE
    /\ LET room == InSize - Len(cache)
       IN  IF Len(todo) < room
           THEN /\ cache' = cache \o todo /\ todo' = <<>>
                /\ UNCHANGED <<cctx, cframe, file, damaged>>
           ELSE /\ cache' = <<>>
                /\ \/ Compress(FullPiece(room), FALSE) /\ todo' = From(todo, room)
                   \/ CompressFails /\ todo' = <<>>
    /\ UNCHANGED <<open, accepted, readers>>

(* zstd_flush_write_cache *)
Flush ==
    IF started
    THEN (Compress(cache, TRUE) \/ CompressFails) /\ cache' = <<>>
    ELSE UNCHANGED <<cache, cctx, cframe, file, damaged>>

(* vfs_lseek of a file that is written, to where it is: the frame ends. *)
SeekWrite ==
    /\ open = "write" /\ todo = <<>>
    /\ Len(file) < MaxFile
    /\ Flush
    /\ UNCHANGED <<open, accepted, todo, started, readers>>

(* vfs_close_simple, zstd_free *)
CloseWrite ==
    /\ open = "write" /\ todo = <<>>
    /\ Flush
    /\ open' = "closed" /\ started' = FALSE
    /\ UNCHANGED <<accepted, todo, readers>>

(* vfs_open and zstd_init *)
OpenRead ==
    /\ open = "closed"
    /\ open' = "read"
    /\ fpos' = 0 /\ input' = <<>> /\ remaining' = FALSE
    /\ dctx' = <<>> /\ dframe' = FALSE /\ output' = <<>> /\ wanted' = 0
    /\ got' = <<>> /\ read_failed' = FALSE /\ astray' = FALSE
    /\ UNCHANGED <<accepted, todo, cache, started, cctx, cframe, file, damaged>>
-----------------------------------------------------------------------------
(* What zstd_do_decompress may do with in: it takes taken of it and puts   *)
(* out into the buffer.  It keeps bytes only when the buffer is full, and  *)
(* does not take the end of a frame before it gave out all of its bytes;   *)
(* there it may stop, whatever follows and whatever room there is.  A      *)
(* frame cannot begin within another.                                      *)
FrameAfter(before, s) ==
    \/ \E i \in 1..Len(s) : s[i] = Begin /\ \A j \in i + 1..Len(s) : s[j] # End
    \/ before /\ \A i \in 1..Len(s) : s[i] # End

InFrame(s) == FrameAfter(dframe, s)

WellFormed(s) == \A i \in 1..Len(s) : InFrame(UpTo(s, i - 1)) = (s[i] # Begin)

Outcomes(in) ==
    {o \in [taken : 0..Len(in), given : 0..DOutSize] :
        LET in1 == UpTo(in, o.taken)
            all == dctx \o Bytes(in1)
        IN  /\ o.given <= Len(all)
            /\ \/ o.given = DOutSize
               \/ /\ o.given = Len(all)
                  /\ o.taken < Len(in) => o.taken > 0 /\ in[o.taken] = End
            /\ o.given < Len(all) => ~Contains(in1, End)}

(* vfs_read, zstd_read *)
Read(n) ==
    /\ open = "read" /\ wanted = 0
    /\ wanted' = n
    /\ UNCHANGED <<written, fpos, input, remaining, dctx, dframe, output, got, read_failed, astray>>

(* The loop of zstd_read: first what is decompressed already. *)
CopyPiece ==
    /\ open = "read" /\ wanted > 0 /\ output # <<>>
    /\ LET n == Len(UpTo(output, wanted))
       IN  /\ got' = got \o UpTo(output, n)
           /\ output' = From(output, n)
           /\ wanted' = wanted - n
    /\ UNCHANGED <<written, fpos, input, remaining, dctx, dframe, read_failed, astray>>

(* Then more of the file, unless the last piece is not used up. *)
DecompressPiece ==
    /\ open = "read" /\ wanted > 0 /\ output = <<>>
    /\ LET piece == UpTo(From(file, fpos), DInSize)
           in    == IF remaining THEN input ELSE piece
       IN  IF ~remaining /\ piece = <<>>
           THEN wanted' = 0 /\ UNCHANGED <<fpos, input, remaining, dctx, dframe, output, read_failed>>
           ELSE /\ fpos' = IF remaining THEN fpos ELSE fpos + Len(piece)
                /\ IF ~WellFormed(in)
                   THEN /\ read_failed' = TRUE /\ wanted' = 0
                        /\ input' = in
                        /\ UNCHANGED <<remaining, dctx, dframe, output>>
                   ELSE \E o \in Outcomes(in) :
                           LET all == dctx \o Bytes(UpTo(in, o.taken))
                           IN  /\ output' = UpTo(all, o.given)
                               /\ dctx' = From(all, o.given)
                               /\ dframe' = InFrame(UpTo(in, o.taken))
                               /\ input' = From(in, o.taken)
                               /\ remaining' = (o.taken < Len(in))
                               /\ UNCHANGED <<wanted, read_failed>>
    /\ UNCHANGED <<written, got, astray>>

(* Variant: what is left of the input is thrown away. *)
DropAll == dframe

(* zstd_drop_read_cache decompresses what is left of the input. *)
DropCache == IF remaining THEN InFrame(input) ELSE dframe

(* vfs_lseek to the beginning of a file that is read. *)
SeekRead ==
    /\ open = "read" /\ wanted = 0 /\ ~read_failed
    /\ astray' = (astray \/ fpos \in 1..(Len(file) - 1))
    /\ dframe' = DropCache
    /\ dctx' = IF remaining THEN <<>> ELSE dctx
    /\ fpos' = 0 /\ input' = <<>> /\ remaining' = FALSE /\ output' = <<>>
    /\ got' = <<>>
    /\ UNCHANGED <<written, wanted, read_failed>>

FsNext ==
    /\ ~damaged        \* nothing is claimed of a file that was damaged
    /\ \/ \E n \in 1..MaxBytes : Write(n)
       \/ WritePiece \/ SeekWrite \/ CloseWrite \/ OpenRead
       \/ \E n \in 1..MaxRead : Read(n)
       \/ CopyPiece \/ DecompressPiece \/ SeekRead

FsSpec == FsInit /\ [][FsNext]_fsVars
-----------------------------------------------------------------------------
(* As long as the system writes what it is given: however the bytes are    *)
(* cut into calls, none of them is lost, doubled or moved on the way       *)
(* through the cache and the compressor, and a closed file has all.        *)
WriteExact ==
    ~damaged =>
        /\ Bytes(file) \o Bytes(cctx) \o cache \o todo = [i \in 1..accepted |-> i]
        /\ open # "write" => Bytes(file) = [i \in 1..accepted |-> i]

(* What is read, in pieces of any size, from the start of the file or from *)
(* where it was rewound to, is what was written; reading fails only after  *)
(* a seek that left a frame whose rest was not loaded.                     *)
ReadExact ==
    open = "read" /\ ~damaged /\ ~astray => ~read_failed /\ IsPrefix(got, Bytes(file))
=============================================================================
