----------------------------- MODULE TokenFile -----------------------------
(***************************************************************************)
(* The token file of schwaby/auth.py: __write_token_file and               *)
(* __sweep_stale_token_temp_files, run by several processes over one       *)
(* directory, with an exception or a SIGKILL between any two steps, and a  *)
(* power loss at any moment.                                               *)
(*                                                                         *)
(* A write is known by the inode of its temporary file: a number, given    *)
(* out in the order the files are created; 0 is the file that was there    *)
(* before.  The file system is a directory as processes see it (dir), the  *)
(* directory as it is on the medium (saved), the bytes of each inode, and  *)
(* which inodes' bytes are on the medium (synced).  A rename is atomic;    *)
(* that it is on the medium, and the data before it, nobody promises who   *)
(* has not called fsync.                                                   *)
(***************************************************************************)
EXTENDS Integers

CONSTANTS
    Writers,        \* processes that may write the token
    MaxWrites,      \* bound: writes begun
    MaxClock,       \* bound: the last second of the clock
    MaxAge,         \* TOKEN_TEMP_FILE_MAX_AGE
    Skew,           \* how far the file server's clock is behind ours
    MaxStall,       \* the longest a write leaves its file untouched
    SurelySynced    \* whether a directory can be opened and flushed here

ASSUME BoundsAssumption == MaxWrites \in Nat /\ MaxClock \in Nat
ASSUME AgeAssumption ==
    MaxAge \in Nat /\ MaxStall \in Nat /\ Skew \in Int
ASSUME SyncAssumption == SurelySynced \in BOOLEAN

VARIABLES
    dir,            \* the directory: the token's inode, the temporary files
    saved,          \* the directory on the medium
    content,        \* [Inodes -> how much of its token the file holds]
    synced,         \* the inodes whose bytes are on the medium
    mtime,          \* [Inodes -> when the file was last touched]
    nextInode,      \* the inode the next mkstemp gets
    clock,          \* time.time()
    writer          \* [Writers -> where __write_token_file is]

vars == <<dir, saved, content, synced, mtime, nextInode, clock, writer>>
fileVars == <<content, synced, mtime, nextInode>>

Inodes == 0 .. MaxWrites
Amounts == {"none", "part", "whole"}
Directories == [token : Inodes, temps : SUBSET Inodes]

\* The places of a writer while its temporary file is its own, ...
Writing == {"created", "dumping", "flushed", "fsynced"}
\* ... inside the try block, and after it.
Trying == Writing \cup {"replaced"}
Sweeping == {"listing", "listed", "sweeping", "condemned"}
\* No write in progress; the last one returned, or raised or died or never was.
Ended == {"idle", "returned"}

WriterStates ==
    [pc : Ended \cup Trying \cup Sweeping,
     inode : Inodes,            \* of tmp_path
     kept : BOOLEAN,            \* the directory was flushed
     listed : SUBSET Inodes,    \* names
     names : SUBSET Inodes,     \* the names the loop has still to see
     cutoff : Int,
     victim : Inodes]           \* the file found too old

Idle == [pc |-> "idle", inode |-> 0, kept |-> FALSE,
         listed |-> {}, names |-> {}, cutoff |-> 0, victim |-> 0]

Init ==
    /\ dir = [token |-> 0, temps |-> {}]
    /\ saved = dir
    /\ content = [i \in Inodes |-> IF i = 0 THEN "whole" ELSE "none"]
    /\ synced = {0}
    /\ mtime = [i \in Inodes |-> 0]
    /\ nextInode = 1
    /\ clock = 0
    /\ writer = [w \in Writers |-> Idle]

----------------------------------------------------------------------------
\* __write_token_file

\* The time a file server stamps on what is written now.
Stamp == clock - Skew

\* tempfile.mkstemp: an empty file beside the token.
Begin(w) ==
    /\ writer[w].pc \in Ended
    /\ nextInode <= MaxWrites
    /\ writer' = [writer EXCEPT ![w] =
                    [Idle EXCEPT !.pc = "created", !.inode = nextInode]]
    /\ dir' = [dir EXCEPT !.temps = @ \cup {nextInode}]
    /\ mtime' = [mtime EXCEPT ![nextInode] = Stamp]
    /\ nextInode' = nextInode + 1
    /\ UNCHANGED <<saved, content, synced, clock>>

\* Bytes reach the file, which touches it: `amount' of the token is there.
Fill(w, from, to, amount) ==
    /\ writer[w].pc = from
    /\ content' = [content EXCEPT ![writer[w].inode] = amount]
    /\ mtime' = [mtime EXCEPT ![writer[w].inode] = Stamp]
    /\ writer' = [writer EXCEPT ![w].pc = to]
    /\ UNCHANGED <<dir, saved, synced, nextInode, clock>>

\* json.dump: what does not fit the buffer.
Dump(w) == Fill(w, "created", "dumping", "part")

\* f.flush: the rest.
Flush(w) == Fill(w, "dumping", "flushed", "whole")

\* Mutant: the file is closed and not flushed to the medium.
Fsync_FlushOnly(w) ==
    /\ writer[w].pc = "flushed"
    /\ writer' = [writer EXCEPT ![w].pc = "fsynced"]
    /\ UNCHANGED <<dir, saved, fileVars, clock>>

\* os.fsync of the file.
Fsync(w) ==
    /\ writer[w].pc = "flushed"
    /\ synced' = synced \cup {writer[w].inode}
    /\ writer' = [writer EXCEPT ![w].pc = "fsynced"]
    /\ UNCHANGED <<dir, saved, content, mtime, nextInode, clock>>

\* os.chmod and os.replace: they fail when the temporary file is gone, and
\* then only Fail is left.
Replace(w) ==
    /\ writer[w].pc = "fsynced"
    /\ writer[w].inode \in dir.temps
    /\ dir' = [token |-> writer[w].inode,
               temps |-> dir.temps \ {writer[w].inode}]
    /\ writer' = [writer EXCEPT ![w].pc = "replaced"]
    /\ UNCHANGED <<saved, fileVars, clock>>

\* Mutant: the rename is not flushed to the medium.
SyncDir_Forgotten(w) ==
    /\ writer[w].pc = "replaced"
    /\ writer' = [writer EXCEPT ![w] =
                    [@ EXCEPT !.pc = "listing", !.kept = TRUE]]
    /\ UNCHANGED <<dir, saved, fileVars, clock>>

\* os.fsync of the directory.
SyncDir(w) ==
    /\ writer[w].pc = "replaced"
    /\ saved' = dir
    /\ writer' = [writer EXCEPT ![w] =
                    [@ EXCEPT !.pc = "listing", !.kept = TRUE]]
    /\ UNCHANGED <<dir, fileVars, clock>>

\* Opening or flushing it raised OSError, which is passed over.
SkipSync(w) ==
    /\ writer[w].pc = "replaced"
    /\ ~SurelySynced
    /\ writer' = [writer EXCEPT ![w].pc = "listing"]
    /\ UNCHANGED <<dir, saved, fileVars, clock>>

\* Any exception.  Inside the try block the temporary file is removed, if it
\* is there still, before it is raised again; the sweep has no such handler.
Fail(w) ==
    /\ writer[w].pc \notin Ended
    /\ dir' = IF writer[w].pc \in Trying
              THEN [dir EXCEPT !.temps = @ \ {writer[w].inode}]
              ELSE dir
    /\ writer' = [writer EXCEPT ![w] = Idle]
    /\ UNCHANGED <<saved, fileVars, clock>>

----------------------------------------------------------------------------
\* __sweep_stale_token_temp_files

\* os.listdir, and the names this module gives its temporary files.
List(w) ==
    /\ writer[w].pc = "listing"
    /\ writer' = [writer EXCEPT ![w] =
                    [@ EXCEPT !.pc = "listed", !.listed = dir.temps,
                              !.names = dir.temps]]
    /\ UNCHANGED <<dir, saved, fileVars, clock>>

\* cutoff = time.time() - TOKEN_TEMP_FILE_MAX_AGE, some time after os.listdir.
Cutoff == clock - MaxAge

Aim(w) ==
    /\ writer[w].pc = "listed"
    /\ writer' = [writer EXCEPT ![w] =
                    [@ EXCEPT !.pc = "sweeping", !.cutoff = Cutoff]]
    /\ UNCHANGED <<dir, saved, fileVars, clock>>

\* Mutant: a file as old as the limit goes too.
TooOld_AtTheLimit(w, i) == mtime[i] <= writer[w].cutoff

TooOld(w, i) == mtime[i] < writer[w].cutoff

\* Mutant: the loop ends at the first file that vanished or is too young.
Look_StopsEarly(w) ==
    /\ writer[w].pc = "sweeping"
    /\ \E i \in writer[w].names :
          LET old == i \in dir.temps /\ TooOld(w, i) IN
          writer' = [writer EXCEPT ![w] =
              [@ EXCEPT !.names = IF old THEN writer[w].names \ {i} ELSE {},
                        !.pc = IF old THEN "condemned" ELSE "sweeping",
                        !.victim = i]]
    /\ UNCHANGED <<dir, saved, fileVars, clock>>

\* os.path.getmtime of one file; one that vanished is passed over.
Look(w) ==
    /\ writer[w].pc = "sweeping"
    /\ \E i \in writer[w].names :
          writer' = [writer EXCEPT ![w] =
              [@ EXCEPT !.names = writer[w].names \ {i},
                        !.pc = IF i \in dir.temps /\ TooOld(w, i)
                               THEN "condemned" ELSE "sweeping",
                        !.victim = i]]
    /\ UNCHANGED <<dir, saved, fileVars, clock>>

\* os.unlink: a call of its own, after whatever happened since.
Unlink(w) ==
    /\ writer[w].pc = "condemned"
    /\ dir' = [dir EXCEPT !.temps = @ \ {writer[w].victim}]
    /\ writer' = [writer EXCEPT ![w].pc = "sweeping"]
    /\ UNCHANGED <<saved, fileVars, clock>>

\* The write returns to its caller: every name was seen, or os.listdir raised
\* OSError and there is none to see.
Return(w) ==
    /\ \/ writer[w].pc = "sweeping" /\ writer[w].names = {}
       \/ writer[w].pc = "listing"
    /\ writer' = [writer EXCEPT ![w] = [Idle EXCEPT !.pc = "returned"]]
    /\ UNCHANGED <<dir, saved, fileVars, clock>>

----------------------------------------------------------------------------
\* The world around it

\* SIGKILL: no handler runs.  The process may be started again.
Kill(w) ==
    /\ writer[w].pc \notin Ended
    /\ writer' = [writer EXCEPT ![w] = Idle]
    /\ UNCHANGED <<dir, saved, fileVars, clock>>

\* The system writes the directory back on its own.
Writeback ==
    /\ saved' = dir
    /\ UNCHANGED <<dir, fileVars, clock, writer>>

\* What can be left of file i: all that was flushed, any part of what was
\* not, nothing where no name leads.
Remains(i) ==
    CASE i # saved.token /\ i \notin saved.temps -> {"none"}
      [] i \in synced \/ content[i] = "none" -> {content[i]}
      [] content[i] = "part" -> {"none", "part"}
      [] OTHER -> Amounts

\* Every process dies, the directory is the one on the medium, and of the
\* files only what was flushed is certain.
PowerLoss ==
    /\ dir' = saved
    /\ content' \in {c \in [Inodes -> Amounts] :
                        \A i \in Inodes : c[i] \in Remains(i)}
    /\ synced' = 0 .. (nextInode - 1)
    /\ writer' = [w \in Writers |-> Idle]
    /\ UNCHANGED <<saved, mtime, nextInode, clock>>

\* A second passes, if no write has left its file alone for MaxStall.
Tick ==
    /\ clock < MaxClock
    /\ \A w \in Writers : writer[w].pc \in Writing =>
          clock - (mtime[writer[w].inode] + Skew) < MaxStall
    /\ clock' = clock + 1
    /\ UNCHANGED <<dir, saved, fileVars, writer>>

Step(w) ==
    \/ Begin(w) \/ Dump(w) \/ Flush(w) \/ Fsync(w) \/ Replace(w)
    \/ SyncDir(w) \/ SkipSync(w) \/ Fail(w) \/ Kill(w)
    \/ List(w) \/ Aim(w) \/ Look(w) \/ Unlink(w) \/ Return(w)

Next ==
    \/ \E w \in Writers : Step(w)
    \/ Writeback
    \/ PowerLoss
    \/ Tick

Spec == Init /\ [][Next]_vars

----------------------------------------------------------------------------
\* Properties

\* The variables keep their types.
TypeOK ==
    /\ dir \in Directories
    /\ saved \in Directories
    /\ content \in [Inodes -> Amounts]
    /\ synced \in SUBSET Inodes
    /\ mtime \in [Inodes -> Int]
    /\ nextInode \in 1 .. (MaxWrites + 1)
    /\ clock \in 0 .. MaxClock
    /\ writer \in [Writers -> WriterStates]

\* Whoever opens the token file finds a whole token, at every moment and
\* after every power loss: the docstring's "either sees the complete previous
\* token or the complete new one", which takes the temporary file, the flush
\* before the rename and the rename together.
TokenWhole ==
    /\ content[dir.token] = "whole"
    /\ content[saved.token] = "whole" /\ saved.token \in synced

\* No sweep removes the file of a write that is still going on, and so no
\* write fails because of another one: what TOKEN_TEMP_FILE_MAX_AGE is for.
\* It takes writes that do not stall for longer than that, clock skew
\* included.
TempKept ==
    \A w \in Writers :
        writer[w].pc \in Writing => writer[w].inode \in dir.temps

\* A sweep leaves none of the files that were too old when it looked: the
\* copies of the token a killed process left are gone when a write returns.
StaleCleared ==
    \A w \in Writers : writer[w].pc = "sweeping" =>
        \A i \in writer[w].listed \ writer[w].names :
            i \in dir.temps => ~TooOld(w, i)

----------------------------------------------------------------------------
\* The token file implements the register.

\* Bytes that are no token.
Torn == -1

\* What a reader gets from inode i; after a power loss, only flushed bytes
\* count.
Reading(i) == IF content[i] = "whole" THEN i ELSE Torn
Surviving(i) == IF i \in synced THEN Reading(i) ELSE Torn

Stage(state) ==
    CASE state.pc \in Ended -> state.pc
      [] state.pc \in Writing -> "asked"
      [] state.pc = "replaced" -> "put"
      [] state.pc \in Sweeping -> IF state.kept THEN "kept" ELSE "put"

CallOf(state) == [st |-> Stage(state), token |-> state.inode]

Register == INSTANCE AtomicToken WITH
    Tokens <- Inodes,
    First <- 0,
    value <- Reading(dir.token),
    safe <- Surviving(saved.token),
    call <- [w \in Writers |-> CallOf(writer[w])]

\* Every step of the file system and of its processes is a step of the
\* register or none: a write takes effect when it is renamed and not before,
\* one that raises or dies leaves the old token or the new one, one that has
\* returned survives a power loss.
Atomic == Register!Spec
============================================================================
